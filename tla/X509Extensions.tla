--------------------------- MODULE X509Extensions ---------------------------
(***************************************************************************)
(* Distinguished names, certificate extensions and the attributes of       *)
(* certification requests, as records and as ASN.1: filled in from what a  *)
(* program says of them, written and read.                                 *)
(*                                                                         *)
(* An attribute is a record with those of the fields type, name,           *)
(* shortName, value, valueTagClass, valueConstructed and extensions that   *)
(* it has.  The value is a sequence of code units, or of nodes in an       *)
(* extensionRequest.  Of the registry of identifiers it matters which      *)
(* names it has, and an identifier that it has is written as its name.     *)
(*                                                                         *)
(* An extension is a record with those fields of the object that it has.   *)
(* The fields that are true are the sequence flags, in the order they were *)
(* set in.  The value is its octets, which nothing changes once it is set. *)
(* An IP address is its octets, and an address that is none has none.  A   *)
(* key's numbers are naturals.  An object identifier is a name, and its    *)
(* octets are given; Scalars models that encoding.                         *)
(***************************************************************************)
EXTENDS Asn1

CONSTANTS
    OidOctets,      \* a function on the identifiers in use, injective
    Registered,     \* the identifiers that the registry names
    ShortNames,     \* a function on names that have a short one
    Sha1(_)         \* an ideal hash of octets

OidNode(oid) == Primitive(OID, OidOctets[oid])

derToOid(octets) == CHOOSE oid \in DOMAIN OidOctets : OidOctets[oid] = octets

Null == Primitive(NULL, <<>>)

AlgorithmNode(oid) == Constructed(SEQUENCE, <<OidNode(oid), Null>>)

RECURSIVE HexDigits(_)
HexDigits(n) == (IF n < 16 THEN <<>> ELSE HexDigits(n \div 16)) \o <<n % 16>>

(* Of an odd number of digits the first is an octet of its own.            *)
hexToBytes(hex) ==
    LET even == IF Len(hex) % 2 = 1 THEN <<0>> \o hex ELSE hex
    IN  [i \in 1 .. Len(even) \div 2 |-> (16 * even[(2 * i) - 1]) + even[2 * i]]

bnToBytes(n) ==
    LET hex == HexDigits(n)
        bytes == hexToBytes(IF hex[1] >= 8 THEN <<0, 0>> \o hex ELSE hex)
    IN  IF Redundant(bytes) THEN Tail(bytes) ELSE bytes

Integer(n) == Primitive(INTEGER, bnToBytes(n))

publicKeyToRSAPublicKey(key) == Constructed(SEQUENCE, <<Integer(key.n), Integer(key.e)>>)

Decoding == Options(TRUE, TRUE)

-----------------------------------------------------------------------------

ExtensionRequest == "extensionRequest"

Has(record, field) == field \in DOMAIN record
Set(record, field, value) == (field :> value) @@ record

encodeUtf8(text) ==
    FlattenSeq([i \in DOMAIN text |->
        LET c == text[i]
        IN  IF c < 128 THEN <<c>>
            ELSE IF c < 2048 THEN <<192 + (c \div 64), 128 + (c % 64)>>
            ELSE <<224 + (c \div 4096), 128 + ((c \div 64) % 64), 128 + (c % 64)>>])

NameOf(attr) ==
    IF Has(attr, "name") THEN attr
    ELSE IF Has(attr, "type") /\ attr.type \in Registered THEN Set(attr, "name", attr.type)
    ELSE IF Has(attr, "shortName") /\ \E n \in DOMAIN ShortNames : ShortNames[n] = attr.shortName
    THEN Set(attr, "name", CHOOSE n \in DOMAIN ShortNames : ShortNames[n] = attr.shortName)
    ELSE attr

TypeOf(attr) ==
    IF Has(attr, "type") THEN attr
    ELSE IF Has(attr, "name") /\ attr.name \in Registered THEN Set(attr, "type", attr.name)
    ELSE attr

ShortNameOf(attr) ==
    IF ~ Has(attr, "shortName") /\ Has(attr, "name") /\ attr.name \in DOMAIN ShortNames
    THEN Set(attr, "shortName", ShortNames[attr.name]) ELSE attr

Tag(attr, default) == IF Has(attr, "valueTagClass") THEN attr.valueTagClass ELSE default
Encoded(attr, tag) == IF tag = UTF8 THEN encodeUtf8(attr.value) ELSE attr.value

(* What dnToAsn1 calls a class is a type.  Text is encoded only for a tag  *)
(* that says so.                                                           *)
dnToAsn1(attrs) ==
    Constructed(SEQUENCE, [i \in DOMAIN attrs |->
        LET tag == Tag(attrs[i], PRINTABLESTRING)
        IN  Constructed(SET, <<Constructed(SEQUENCE, <<
                OidNode(attrs[i].type), Primitive(tag, Encoded(attrs[i], tag))>>)>>)])

CRIAttributesToAsn1(attrs) ==
    Tagged(0, [i \in DOMAIN attrs |->
        LET a == attrs[i]
            tag == Tag(a, UTF8)
            constructed == Has(a, "valueConstructed") /\ a.valueConstructed
        IN  Constructed(SEQUENCE, <<OidNode(a.type), Constructed(SET, <<
                create(Universal, tag, constructed, a.type = ExtensionRequest, Encoded(a, tag))>>)>>)])

(* Mutant: the kind of text is lost. *)
NamedPrintable(type, value) ==
    LET plain == [type |-> type, value |-> value.value, valueTagClass |-> PRINTABLESTRING]
        named == IF type \in Registered THEN Set(plain, "name", type) ELSE plain
    IN  ShortNameOf(named)

(* An attribute as it is read: the value stays encoded.                    *)
Named(type, value) ==
    LET plain == [type |-> type, value |-> value.value, valueTagClass |-> value.type]
        named == IF type \in Registered THEN Set(plain, "name", type) ELSE plain
    IN  ShortNameOf(named)

RDNAttributesAsArray(rdn) ==
    FlattenSeq([i \in DOMAIN rdn.value |->
        [j \in DOMAIN rdn.value[i].value |->
            LET parts == rdn.value[i].value[j].value
            IN  Named(derToOid(parts[1].value), parts[2])]])

(* What getAttribute finds by a type, a name or a short name.              *)
getAttribute(attrs, field, value) ==
    LET found == SelectInSeq(attrs, LAMBDA a : Has(a, field) /\ a[field] = value)
    IN  IF found = 0 THEN Nothing ELSE <<attrs[found]>>

-----------------------------------------------------------------------------
(* Extensions                                                              *)

BOOLEANNode(octet) == Primitive(BOOLEANTYPE, <<octet>>)

KeyUsages == <<"digitalSignature", "nonRepudiation", "keyEncipherment", "dataEncipherment",
               "keyAgreement", "keyCertSign", "cRLSign", "encipherOnly", "decipherOnly">>

NsCertTypes == <<"client", "server", "email", "objsign", "reserved", "sslCA", "emailCA", "objCA">>

(* The bits up to the last that is set, and how many of its octet are not  *)
(* used.                                                                   *)
NamedBits(names, flags) ==
    LET set == {i \in DOMAIN names : Contains(flags, names[i])}
        last == Max(set)
        octet(k) == FoldSet(LAMBDA i, sum : sum + 2 ^ ((8 * k) - i), 0, set \cap ((8 * k) - 7 .. 8 * k))
    IN  IF set = {} THEN <<0>>
        ELSE <<7 - ((last - 1) % 8)>> \o [k \in 1 .. (last + 7) \div 8 |-> octet(k)]

FlagsOf(names, octets) ==
    SelectSeq(names, LAMBDA name :
        LET i == CHOOSE j \in DOMAIN names : names[j] = name
            k == 1 + ((i + 7) \div 8)
        IN  k =< Len(octets) /\ (octets[k] \div (2 ^ ((8 * (k - 1)) - i))) % 2 = 1)

BitString(octets) == Primitive(BITSTRING, octets)

Sequence(nodes) == Constructed(SEQUENCE, nodes)

generateSubjectKeyIdentifier(key) == Sha1(toDer(publicKeyToRSAPublicKey(key)))

(* The flags are in order; those that name no identifier are left out.     *)
ExtKeyUsage(ext) ==
    LET usages == SelectSeq(ext.flags, LAMBDA f : f \in DOMAIN OidOctets)
    IN  Sequence([i \in DOMAIN usages |-> OidNode(usages[i])])

BasicConstraints(ext) ==
    Sequence((IF Contains(ext.flags, "cA") THEN <<BOOLEANNode(255)>> ELSE <<>>)
             \o (IF Has(ext, "pathLenConstraint") THEN <<Integer(ext.pathLenConstraint)>> ELSE <<>>))

IsIp(name) == name.type = 7 /\ Has(name, "ip")

AltNameOctets(name) ==
    IF IsIp(name) THEN name.ip
    ELSE IF name.type = 8 THEN OidOctets[name.oid]
    ELSE IF Has(name, "value") THEN name.value ELSE <<>>

(* The first name that is an address and is none, or 0.                    *)
BadAltName(altNames) == SelectInSeq(altNames, LAMBDA n : IsIp(n) /\ n.ip = <<>>)

AltNameNodes(names) ==
    [i \in DOMAIN names |-> TaggedPrimitive(names[i].type, AltNameOctets(names[i]))]

(* The names before the bad one have been put into the value by then.      *)
AltNames(altNames) ==
    Sequence(AltNameNodes(IF BadAltName(altNames) = 0 THEN altNames
                          ELSE SubSeq(altNames, 1, BadAltName(altNames) - 1)))

(* Of distribution points the value is put together last.                  *)
DistributionPoints(altNames) ==
    IF BadAltName(altNames) # 0 THEN Sequence(<<>>)
    ELSE Sequence(<<Sequence(<<Tagged(0, <<Tagged(0, AltNameNodes(altNames))>>)>>)>>)

Own(x) == Has(x, "own")

AuthorityKeyIdentifier(ext, cert) ==
    Sequence(
        (IF ~ Has(ext, "keyIdentifier") THEN <<>>
         ELSE <<TaggedPrimitive(0, IF Own(ext.keyIdentifier)
                                   THEN generateSubjectKeyIdentifier(cert.publicKey[1])
                                   ELSE ext.keyIdentifier.octets)>>)
        \o (IF ~ Has(ext, "authorityCertIssuer") THEN <<>>
            ELSE <<Tagged(1, <<Tagged(4, <<dnToAsn1(IF Own(ext.authorityCertIssuer)
                                                    THEN cert.issuer.attributes
                                                    ELSE ext.authorityCertIssuer.attributes)>>)>>)>>)
        \o (IF ~ Has(ext, "serialNumber") THEN <<>>
            ELSE <<TaggedPrimitive(2, IF Own(ext.serialNumber) THEN cert.serialNumber
                                      ELSE ext.serialNumber.octets)>>))

WithValue(ext, node) == Set(ext, "value", toDer(node))

(* A comment is code units, at least one and at most 128 of ASCII.         *)
GoodComment(text) == Len(text) \in 1 .. 128 /\ Range(text) \subseteq 0 .. 127

(* The value that an extension without one gets, if it gets one.           *)
ValueFor(ext, certs) ==
    LET name == IF Has(ext, "name") THEN ext.name ELSE ""
    IN  CASE name = "keyUsage" -> WithValue(ext, BitString(NamedBits(KeyUsages, ext.flags)))
          [] name = "basicConstraints" -> WithValue(ext, BasicConstraints(ext))
          [] name = "extKeyUsage" -> WithValue(ext, ExtKeyUsage(ext))
          [] name = "nsCertType" -> WithValue(ext, BitString(NamedBits(NsCertTypes, ext.flags)))
          [] name \in {"subjectAltName", "issuerAltName"} -> WithValue(ext, AltNames(ext.altNames))
          [] name = "nsComment" /\ certs # Nothing /\ Has(ext, "comment") /\ GoodComment(ext.comment) ->
                WithValue(ext, Primitive(IA5STRING, ext.comment))
          [] name = "subjectKeyIdentifier" /\ certs # Nothing ->
                LET id == generateSubjectKeyIdentifier(certs[1].publicKey[1])
                IN  WithValue(Set(ext, "subjectKeyIdentifier", id), Primitive(OCTETSTRING, id))
          [] name = "authorityKeyIdentifier" /\ certs # Nothing ->
                WithValue(ext, AuthorityKeyIdentifier(ext, certs[1]))
          [] name = "cRLDistributionPoints" -> WithValue(ext, DistributionPoints(ext.altNames))
          [] OTHER -> ext

NamedExtension(ext) ==
    IF ~ Has(ext, "name") /\ Has(ext, "id") /\ ext.id \in Registered THEN Set(ext, "name", ext.id) ELSE ext

IdentifiedExtension(ext) ==
    IF ~ Has(ext, "id") /\ Has(ext, "name") /\ ext.name \in Registered THEN Set(ext, "id", ext.name) ELSE ext

(* certs is the certificate the extension is for, or nothing.  A value     *)
(* that is there is left as it is, whoever made it and when; one that is   *)
(* being made when the code throws stays.                                  *)
WithNewValue(filled) ==
    [ext |-> filled,
     ok |-> Has(filled, "value") /\ (Has(filled, "altNames") => BadAltName(filled.altNames) = 0)]

FilledIfKnown(ext, certs) ==
    IF ~ Has(ext, "id") \/ Has(ext, "value") THEN [ext |-> ext, ok |-> Has(ext, "id")]
    ELSE WithNewValue(ValueFor(ext, certs))

fillMissingExtensionFields(ext, certs) ==
    FilledIfKnown(IdentifiedExtension(NamedExtension(ext)), certs)

certificateExtensionToAsn1(ext) ==
    Sequence(<<OidNode(ext.id)>>
             \o (IF Contains(ext.flags, "critical") THEN <<BOOLEANNode(255)>> ELSE <<>>)
             \o <<Primitive(OCTETSTRING, ext.value)>>)

certificateExtensionsToAsn1(exts) ==
    Tagged(3, <<Sequence([i \in DOMAIN exts |-> certificateExtensionToAsn1(exts[i])])>>)

-----------------------------------------------------------------------------
(* Reading                                                                 *)

AltName(node) ==
    LET name == [type |-> node.type, value |-> node.value]
    IN  IF node.type = 7 THEN Set(name, "ip", node.value)
        ELSE IF node.type = 8 THEN Set(name, "oid", derToOid(node.value)) ELSE name

(* A length is the first element or else the second.                       *)
PathLength(nodes) ==
    IF nodes # <<>> /\ nodes[1].type = INTEGER THEN <<BigEndian(nodes[1].value)>>
    ELSE IF Len(nodes) > 1 THEN <<BigEndian(nodes[2].value)>> ELSE Nothing

IsCa(nodes) == nodes # <<>> /\ nodes[1].type = BOOLEANTYPE /\ nodes[1].value[1] # 0

(* What the value of an extension of a known name says.                    *)
Parsed(ext, o) ==
    CASE ext.name = "keyUsage" -> [ext EXCEPT !.flags = @ \o FlagsOf(KeyUsages, o.value)]
      [] ext.name = "basicConstraints" ->
            LET ca == IF IsCa(o.value) THEN [ext EXCEPT !.flags = Append(@, "cA")] ELSE ext
                length == PathLength(o.value)
            IN  IF length = Nothing THEN ca ELSE Set(ca, "pathLenConstraint", length[1])
      [] ext.name = "extKeyUsage" ->
            [ext EXCEPT !.flags = @ \o [i \in DOMAIN o.value |-> derToOid(o.value[i].value)]]
      [] ext.name = "nsCertType" -> [ext EXCEPT !.flags = @ \o FlagsOf(NsCertTypes, o.value)]
      [] ext.name \in {"subjectAltName", "issuerAltName"} ->
            Set(ext, "altNames", [i \in DOMAIN o.value |-> AltName(o.value[i])])
      [] ext.name = "subjectKeyIdentifier" -> Set(ext, "subjectKeyIdentifier", o.value)
      [] OTHER -> ext

certificateExtensionFromAsn1(node) ==
    LET fields == node.value
        marked == fields[2].type = BOOLEANTYPE
        id == derToOid(fields[1].value)
        value == IF marked THEN fields[3].value ELSE fields[2].value
        ext == [id |-> id, value |-> value,
                flags |-> IF marked /\ fields[2].value[1] # 0 THEN <<"critical">> ELSE <<>>]
    IN  IF id \in Registered
        THEN Parsed(Set(ext, "name", id), fromDer(value, Decoding).node) ELSE ext

(* Every extension of every sequence.                                      *)
certificateExtensionsFromAsn1(wrapper) ==
    FlattenSeq([i \in DOMAIN wrapper.value |->
        [j \in DOMAIN wrapper.value[i].value |-> certificateExtensionFromAsn1(wrapper.value[i].value[j])]])

-----------------------------------------------------------------------------
(* Attributes of requests                                                  *)

(* An extensionRequest is written as the sequence of its extensions, which *)
(* are for no certificate.  The nodes before the first extension that      *)
(* cannot be filled are its value from then on.                            *)
Requesting(attr, filled) ==
    LET bad == SelectInSeq(filled, LAMBDA f : ~ f.ok)
        reached == IF bad = 0 THEN Len(filled) ELSE bad
    IN  [value |-> [i \in 1 .. (IF bad = 0 THEN reached ELSE bad - 1) |->
                        certificateExtensionToAsn1(filled[i].ext)],
         extensions |-> [i \in DOMAIN filled |->
                            IF i =< reached THEN filled[i].ext ELSE attr.extensions[i]]]
        @@ attr

FilledExtensions(exts) == [i \in DOMAIN exts |-> fillMissingExtensionFields(exts[i], Nothing)]

ValueOf(attr) ==
    LET tagged == [valueConstructed |-> TRUE, valueTagClass |-> SEQUENCE] @@ attr
    IN  IF ~ Has(attr, "type") \/ attr.type # ExtensionRequest THEN attr
        ELSE IF Has(attr, "value") \/ ~ Has(attr, "extensions") THEN tagged
        ELSE Requesting(tagged, FilledExtensions(attr.extensions))

Typed(attr) == ShortNameOf(TypeOf(NameOf(attr)))

(* Whether an attribute that was filled has all it needs: a type, a value, *)
(* and as many nodes as it has extensions, if it asks for any.             *)
IsFilled(given, attr) ==
    /\ Has(attr, "type") /\ Has(attr, "value")
    /\ attr.type = ExtensionRequest /\ Has(attr, "extensions") /\ ~ Has(given, "value")
            => Len(attr.value) = Len(attr.extensions)

(* The attributes before the first bad one are filled though it throws.    *)
UpToBad(given, all) ==
    LET bad == SelectInSeq([i \in DOMAIN all |-> IsFilled(given[i], all[i])], LAMBDA ok : ~ ok)
    IN  [attrs |-> [i \in DOMAIN all |-> IF bad # 0 /\ i > bad THEN given[i] ELSE all[i]],
         ok |-> bad = 0]

fillMissingFields(attrs) == UpToBad(attrs, [i \in DOMAIN attrs |-> ValueOf(Typed(attrs[i]))])

CRIAttributesAsArray(nodes) ==
    FlattenSeq([i \in DOMAIN nodes |->
        LET type == derToOid(nodes[i].value[1].value)
            values == nodes[i].value[2].value
        IN  [j \in DOMAIN values |->
                IF type = ExtensionRequest
                THEN Set(Named(type, values[j]), "extensions",
                         [k \in DOMAIN values[j].value |-> certificateExtensionFromAsn1(values[j].value[k])])
                ELSE Named(type, values[j])]])
=============================================================================

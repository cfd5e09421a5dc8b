-------------------------------- MODULE Asn1 --------------------------------
(***************************************************************************)
(* ASN.1 values and their DER octets: the reader, the writer and the       *)
(* matching of a value with a schema.                                      *)
(*                                                                         *)
(* A node's value is a sequence of nodes if it is composed and of octets,  *)
(* or of the code units of a BMPString, if not.  A field that JavaScript   *)
(* may leave undefined is a sequence of at most one element.               *)
(***************************************************************************)
EXTENDS Integers, SequencesExt, FiniteSetsExt, TLC

CONSTANT MaxDepth   \* Asn1Codec.maxDepth, 256

Octet == 0 .. 255

Universal == 0
ContextSpecific == 128
Private == 192

BOOLEANTYPE == 1
INTEGER == 2
BITSTRING == 3
OCTETSTRING == 4
NULL == 5
OID == 6
UTF8 == 12
SEQUENCE == 16
SET == 17
PRINTABLESTRING == 19
IA5STRING == 22
UTCTIME == 23
GENERALIZEDTIME == 24
BMPSTRING == 30

Nothing == <<>>

-----------------------------------------------------------------------------
(* Nodes                                                                   *)

(* copy and equals leave out the contents kept of bit strings.             *)
RECURSIVE Plain(_)
Plain(o) ==
    [o EXCEPT !.bits = Nothing, !.original = Nothing,
              !.value = IF o.composed THEN [i \in DOMAIN @ |-> Plain(@[i])] ELSE @]

equals(a, b) == Plain(a) = Plain(b)

(* A list of nodes is a level of its own for copy.                         *)
RECURSIVE CopyDepth(_)
CopyDepth(o) ==
    IF o.composed /\ o.value # <<>>
    THEN 2 + Max({CopyDepth(o.value[i]) : i \in DOMAIN o.value})
    ELSE 2

create(tagClass, type, constructed, composed, value) ==
    [tagClass |-> tagClass, type |-> type, constructed |-> constructed,
     composed |-> constructed \/ composed, value |-> value,
     bits |-> Nothing, original |-> Nothing]

(* With the contents of a bit string goes a copy of the node, to find      *)
(* changes.                                                                *)
Keeping(node, bits) ==
    IF bits = Nothing THEN node ELSE [node EXCEPT !.bits = bits, !.original = <<Plain(node)>>]

Primitive(type, octets) == create(Universal, type, FALSE, FALSE, octets)
Constructed(type, nodes) == create(Universal, type, TRUE, TRUE, nodes)
Tagged(n, nodes) == create(ContextSpecific, n, TRUE, TRUE, nodes)
TaggedPrimitive(n, octets) == create(ContextSpecific, n, FALSE, FALSE, octets)

-----------------------------------------------------------------------------
(* Writing                                                                 *)

RECURSIVE BigEndian(_)
BigEndian(octets) ==
    IF octets = <<>> THEN 0 ELSE (256 * BigEndian(Front(octets))) + Last(octets)

RECURSIVE LengthOctets(_)
LengthOctets(n) == IF n = 0 THEN <<>> ELSE Append(LengthOctets(n \div 256), n % 256)

LengthField(n) ==
    IF n =< 127 THEN <<n>> ELSE <<128 + Len(LengthOctets(n))>> \o LengthOctets(n)

(* The first octet of an integer says nothing that the next does not.      *)
Redundant(octets) ==
    /\ Len(octets) > 1
    /\ \/ octets[1] = 0 /\ octets[2] < 128
       \/ octets[1] = 255 /\ octets[2] >= 128

(* Mutant: a change below a bit string is not looked for. *)
UsesKeptBitsAlways(o) == o.bits # Nothing

(* The kept contents of a bit string stand while the node is as it was.    *)
UsesKeptBits(o) ==
    /\ o.bits # Nothing
    /\ o.original # Nothing => equals(o, o.original[1])

FailedWrite == <<-1>>

RECURSIVE ToDer(_, _)

ChildrenDer(o, depth) == FlattenSeq([i \in DOMAIN o.value |-> ToDer(o.value[i], depth + 1)])

Contents(o, depth, kept) ==
    IF kept THEN o.bits[1]
    ELSE IF o.composed
    THEN (IF o.constructed THEN <<>> ELSE <<0>>) \o ChildrenDer(o, depth)
    ELSE IF o.type = BMPSTRING
    THEN FlattenSeq([i \in DOMAIN o.value |-> <<o.value[i] \div 256, o.value[i] % 256>>])
    ELSE IF o.type = INTEGER /\ Redundant(o.value) THEN Tail(o.value) ELSE o.value

(* An error of a child is one of the whole.                                *)
WithHeader(tag, contents) ==
    IF Contains(contents, -1) THEN FailedWrite
    ELSE <<tag>> \o LengthField(Len(contents)) \o contents

Element(o, depth, kept) ==
    WithHeader(o.tagClass + o.type + (IF ~ kept /\ o.composed /\ o.constructed THEN 32 ELSE 0),
               Contents(o, depth, kept))

ToDer(o, depth) ==
    IF depth >= MaxDepth THEN FailedWrite ELSE Element(o, depth, UsesKeptBits(o))

toDer(o) == ToDer(o, 0)

-----------------------------------------------------------------------------
(* Reading                                                                 *)

Refused(why) == [error |-> why]
TooFew == Refused("too few bytes")
TooDeep == Refused("max depth exceeded")
Failed(r) == "error" \in DOMAIN r

checkBufferLength(w, pos, remaining, n) == n =< remaining /\ n =< Len(w) - pos + 1

Undefined == -1

(* Of four octets the highest bit is a sign.                               *)
getValueLength(w, pos, remaining) ==
    LET octets == w[pos] - 128
        end == pos + octets
    IN  IF octets = 0 THEN [length |-> Undefined, pos |-> pos + 1]
        ELSE IF octets < 0 THEN [length |-> w[pos], pos |-> pos + 1]
        ELSE IF ~ checkBufferLength(w, pos + 1, remaining - 1, octets) THEN TooFew
        ELSE IF octets > 4 THEN Refused("bits")
        ELSE IF octets = 4 /\ w[pos + 1] >= 128 THEN Refused("negative")
        ELSE [length |-> BigEndian(SubSeq(w, pos + 1, end)), pos |-> end + 1]

RECURSIVE Read(_, _, _, _, _)

RECURSIVE ReadDefinite(_, _, _, _, _, _)
ReadDefinite(w, pos, length, depth, options, nodes) ==
    IF length =< 0 THEN [value |-> nodes, pos |-> pos]
    ELSE LET child == Read(w, pos, length, depth + 1, options)
         IN  IF Failed(child) THEN child
             ELSE ReadDefinite(w, child.pos, length - (child.pos - pos), depth, options,
                               Append(nodes, child.node))

(* To the octets that end a value of indefinite length.                    *)
RECURSIVE ReadIndefinite(_, _, _, _, _, _)
ReadIndefinite(w, pos, remaining, depth, options, nodes) ==
    IF ~ checkBufferLength(w, pos, remaining, 2) THEN TooFew
    ELSE IF w[pos] = 0 /\ w[pos + 1] = 0 THEN [value |-> nodes, pos |-> pos + 2]
    ELSE LET child == Read(w, pos, remaining, depth + 1, options)
         IN  IF Failed(child) THEN child
             ELSE ReadIndefinite(w, child.pos, remaining - (child.pos - pos), depth, options,
                                 Append(nodes, child.node))

(* Mutant: what was tried need not take the bit string. *)
EncapsulatedAnyLength(w, pos, remaining, length, depth, options) ==
    IF w[pos] # 0 THEN Refused("unused bits")
    ELSE LET inner == Read(w, pos + 1, remaining - 1, depth + 1,
                           [options EXCEPT !.strict = TRUE, !.decodeBitStrings = TRUE])
         IN  IF Failed(inner) THEN inner
             ELSE IF inner.node.tagClass \in {Universal, ContextSpecific}
             THEN [value |-> <<inner.node>>, pos |-> inner.pos]
             ELSE Refused("no value")

(* A bit string without unused bits may hold a value, read strictly.  It   *)
(* may take what is left of the value around it, and is one only if it     *)
(* took the bit string.                                                    *)
Encapsulated(w, pos, remaining, length, depth, options) ==
    IF w[pos] # 0 THEN Refused("unused bits")
    ELSE LET inner == Read(w, pos + 1, remaining - 1, depth + 1,
                           [options EXCEPT !.strict = TRUE, !.decodeBitStrings = TRUE])
         IN  IF Failed(inner) THEN inner
             ELSE IF inner.pos - pos = length /\ inner.node.tagClass \in {Universal, ContextSpecific}
             THEN [value |-> <<inner.node>>, pos |-> inner.pos]
             ELSE Refused("no value")

(* Code units of two octets are read while any octet of the length is left.*)
CodeUnits(w, pos, remaining, length) ==
    LET n == (length + 1) \div 2
    IN  IF 2 * n > remaining THEN TooFew
        ELSE [value |-> [i \in 1 .. n |-> (256 * w[pos + (2 * i) - 2]) + w[pos + (2 * i) - 1]],
              pos |-> pos + (2 * n)]

RawValue(w, pos, remaining, length, type, options) ==
    IF length = Undefined /\ options.strict THEN Refused("indefinite")
    ELSE LET n == IF length = Undefined THEN remaining ELSE length
         IN  IF type = BMPSTRING THEN CodeUnits(w, pos, remaining, n)
             ELSE [value |-> SubSeq(w, pos, pos + n - 1), pos |-> pos + n]

(* A node with kept contents is copied: too deep a one is refused.         *)
PrimitiveNode(tagClass, type, attempt, raw, bits) ==
    LET composed == ~ Failed(attempt)
        got == IF composed THEN attempt ELSE raw
        node == create(tagClass, type, FALSE, composed, got.value)
    IN  IF attempt = TooDeep THEN TooDeep
        ELSE IF Failed(got) THEN got
        ELSE IF bits # Nothing /\ CopyDepth(node) > MaxDepth THEN TooDeep
        ELSE [node |-> Keeping(node, bits), pos |-> got.pos]

(* The contents of a bit string are kept, of one with no length up to the  *)
(* end of the buffer.  A failed attempt leaves the buffer where it was.    *)
ReadPrimitive(w, pos, remaining, length, depth, tagClass, type, options) ==
    LET isBits == tagClass = Universal /\ type = BITSTRING
    IN  PrimitiveNode(tagClass, type,
            IF isBits /\ options.decodeBitStrings /\ length > 1
            THEN Encapsulated(w, pos, remaining, length, depth, options) ELSE Refused("none"),
            RawValue(w, pos, remaining, length, type, options),
            IF isBits
            THEN <<SubSeq(w, pos, IF length = Undefined THEN Len(w) ELSE pos + length - 1)>>
            ELSE Nothing)

(* Mutant: a value is cut where the value around it ends. *)
TooLongNever(length, left, options) == FALSE

(* Unless strict, a value is cut where the value around it ends.           *)
TooLong(length, left, options) == length > left /\ options.strict

ConstructedNode(tagClass, type, nodes) ==
    IF Failed(nodes) THEN nodes
    ELSE [node |-> create(tagClass, type, TRUE, TRUE, nodes.value), pos |-> nodes.pos]

(* The value at pos, of a first octet and a length, with octets left.      *)
ReadValue(w, first, pos, left, given, depth, options) ==
    LET tagClass == (first \div 64) * 64
        type == first % 32
        constructed == (first \div 32) % 2 = 1
        length == IF given > left THEN left ELSE given
    IN  IF TooLong(given, left, options) THEN TooFew
        ELSE IF ~ constructed
        THEN ReadPrimitive(w, pos, left, length, depth, tagClass, type, options)
        ELSE ConstructedNode(tagClass, type,
                IF length = Undefined THEN ReadIndefinite(w, pos, left, depth, options, <<>>)
                ELSE ReadDefinite(w, pos, length, depth, options, <<>>))

(* fromDerInternal: a value at pos, with as many octets left for it.       *)
Read(w, pos, remaining, depth, options) ==
    IF depth >= options.maxDepth THEN TooDeep
    ELSE IF ~ checkBufferLength(w, pos, remaining, 2) THEN TooFew
    ELSE
    LET header == getValueLength(w, pos + 1, remaining - 1)
    IN  IF Failed(header) THEN header
        ELSE ReadValue(w, w[pos], header.pos, remaining - (header.pos - pos), header.length,
                       depth, options)

Options(strict, decodeBitStrings) ==
    [strict |-> strict, decodeBitStrings |-> decodeBitStrings,
     parseAllBytes |-> TRUE, maxDepth |-> MaxDepth]

Whole(w, r, options) ==
    IF ~ Failed(r) /\ options.parseAllBytes /\ r.pos =< Len(w) THEN Refused("bytes remain") ELSE r

fromDer(w, options) == Whole(w, Read(w, 1, Len(w), 0, options), options)

-----------------------------------------------------------------------------
(* Schemas                                                                 *)

(* A schema is a record of the fields that it has: tagClass, type,         *)
(* constructed, value, optional, capture, captureAsn1,                     *)
(* captureBitStringContents and captureBitStringValue.                     *)
Fits(o, schema, field) == field \in DOMAIN schema => o[field] = schema[field]

HasTag(schema) == {"tagClass", "type"} \subseteq DOMAIN schema

Optional(schema) == "optional" \in DOMAIN schema

Captured(o, schema, capture) ==
    LET at(field, value) == IF field \in DOMAIN schema THEN schema[field] :> value ELSE <<>>
        bits == IF o.bits = Nothing THEN <<>> ELSE at("captureBitStringContents", o.bits[1])
        bitValue == IF o.bits = Nothing THEN <<>>
                    ELSE at("captureBitStringValue",
                            IF Len(o.bits[1]) < 2 THEN <<>> ELSE Tail(o.bits[1]))
    IN  bitValue @@ bits @@ at("captureAsn1", o) @@ at("capture", o.value) @@ capture

(* Only whole octets can be captured.                                      *)
BadBits(o, schema) ==
    /\ "captureBitStringValue" \in DOMAIN schema
    /\ o.bits # Nothing
    /\ Len(o.bits[1]) >= 2 /\ o.bits[1][1] # 0

RECURSIVE Validate(_, _, _, _)

(* The elements of a schema from the i-th on, the children from the next   *)
(* on: an optional element takes the next child or none, without going     *)
(* back, and what it captured stays; children that are left do not matter. *)
RECURSIVE ValidateElements(_, _, _, _, _, _)

Matched(capture) == [valid |-> TRUE, capture |-> capture]
NotMatched(capture) == [valid |-> FALSE, capture |-> capture]

(* Whether the element gets to look at the next child.                     *)
Tries(o, item, next) ==
    /\ o.composed /\ next =< Len(o.value)
    /\ HasTag(item) => Fits(o.value[next], item, "tagClass") /\ Fits(o.value[next], item, "type")

AfterElement(o, schema, i, next, depth, child) ==
    IF Failed(child) \/ ~ (child.valid \/ Optional(schema.value[i])) THEN child
    ELSE ValidateElements(o, schema, i + 1, IF child.valid THEN next + 1 ELSE next,
                          child.capture, depth)

ValidateElements(o, schema, i, next, capture, depth) ==
    IF i > Len(schema.value) THEN Matched(capture)
    ELSE AfterElement(o, schema, i, next, depth,
            IF Tries(o, schema.value[i], next)
            THEN Validate(o.value[next], schema.value[i], capture, depth + 1)
            ELSE NotMatched(capture))

AfterElements(o, schema, elements) ==
    IF Failed(elements) \/ ~ elements.valid THEN elements
    ELSE IF BadBits(o, schema) THEN Refused("unused bits")
    ELSE [elements EXCEPT !.capture = Captured(o, schema, @)]

Validate(o, schema, capture, depth) ==
    IF depth >= MaxDepth \/ ~ \A field \in {"tagClass", "type", "constructed"} : Fits(o, schema, field)
    THEN NotMatched(capture)
    ELSE AfterElements(o, schema,
            IF "value" \in DOMAIN schema THEN ValidateElements(o, schema, 1, 1, capture, depth)
            ELSE Matched(capture))

validate(o, schema) == Validate(o, schema, <<>>, 0)

(* The words that schemas are written in.                                  *)
Simple(type) == [tagClass |-> Universal, type |-> type, constructed |-> FALSE]
Composed(type, items) == [tagClass |-> Universal, type |-> type, constructed |-> TRUE, value |-> items]
Explicit(n, items) == [tagClass |-> ContextSpecific, type |-> n, constructed |-> TRUE, value |-> items]
AnyOf(type) == [tagClass |-> Universal, type |-> type, constructed |-> TRUE]

Capture(name, schema) == ("capture" :> name) @@ schema
CaptureAsn1(name, schema) == ("captureAsn1" :> name) @@ schema
CaptureBits(name, schema) == ("captureBitStringValue" :> name) @@ schema
OptionalOne(schema) == ("optional" :> TRUE) @@ schema

(* The parameters of an algorithm: any universal type, or none.            *)
Parameters(name) == [tagClass |-> Universal, optional |-> TRUE, captureAsn1 |-> name]

Algorithm(oid, parameters) ==
    Composed(SEQUENCE, <<Capture(oid, Simple(OID)), Parameters(parameters)>>)
=============================================================================

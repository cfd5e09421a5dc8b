--------------------------- MODULE Asn1Documents ---------------------------
(***************************************************************************)
(* A program that reads octets as an ASN.1 value, changes leaves of it     *)
(* anywhere, and writes it: what certificates, keys and PKCS#12 files go   *)
(* through.                                                                *)
(***************************************************************************)
EXTENDS Asn1

CONSTANTS
    Wires,      \* the octets programs are given
    NewOctets   \* the octets a leaf is changed to

VARIABLES
    wire,       \* the octets
    options,    \* what fromDer is called with
    doc,        \* what fromDer returned, or None before
    edits,      \* the changes so far
    written     \* what toDer returned, or <<>> before

documentVars == <<wire, options, doc, edits, written>>

None == [error |-> "not read"]

DocumentInit ==
    /\ wire \in Wires
    /\ options \in {Options(strict, decode) : strict, decode \in BOOLEAN}
    /\ doc = None
    /\ edits = 0
    /\ written = <<>>

FromDer ==
    /\ doc = None
    /\ doc' = fromDer(wire, options)
    /\ UNCHANGED <<wire, options, edits, written>>

RECURSIVE Leaves(_)
Leaves(o) ==
    IF ~ o.composed THEN {<<>>}
    ELSE UNION {{<<i>> \o path : path \in Leaves(o.value[i])} : i \in DOMAIN o.value}

RECURSIVE At(_, _)
At(o, path) == IF path = <<>> THEN o ELSE At(o.value[Head(path)], Tail(path))

RECURSIVE Changed(_, _, _)
Changed(o, path, octets) ==
    [o EXCEPT !.value = IF path = <<>> THEN octets
                        ELSE [@ EXCEPT ![Head(path)] = Changed(@, Tail(path), octets)]]

Edit(path, octets) ==
    /\ ~ Failed(doc) /\ written = <<>>
    /\ doc' = [doc EXCEPT !.node = Changed(@, path, octets)]
    /\ edits' = edits + 1
    /\ UNCHANGED <<wire, options, written>>

Write ==
    /\ ~ Failed(doc) /\ written = <<>>
    /\ written' = toDer(doc.node)
    /\ UNCHANGED <<wire, options, doc, edits>>

DocumentNext ==
    \/ FromDer
    \/ edits = 0 /\ ~ Failed(doc) /\ \E path \in Leaves(doc.node), octets \in NewOctets :
            Edit(path, octets)
    \/ Write

-----------------------------------------------------------------------------
(* Reference: the octets that denote a value, X.690 8.1, with any form of  *)
(* the length.                                                             *)

IsLength(octets, n) ==
    \/ Len(octets) = 1 /\ octets[1] = n /\ n < 128
    \/ Len(octets) > 1 /\ octets[1] = 127 + Len(octets) /\ BigEndian(Tail(octets)) = n

RECURSIVE Denotes(_, _)

RECURSIVE DenoteAll(_, _)
DenoteAll(w, nodes) ==
    IF nodes = <<>> THEN w = <<>>
    ELSE \E n \in 2 .. Len(w) :
            Denotes(SubSeq(w, 1, n), nodes[1]) /\ DenoteAll(SubSeq(w, n + 1, Len(w)), Tail(nodes))

ContentsDenote(w, o) ==
    IF o.constructed THEN DenoteAll(w, o.value)
    ELSE IF o.composed THEN w # <<>> /\ w[1] = 0 /\ DenoteAll(Tail(w), o.value)
    ELSE IF o.type = BMPSTRING
    THEN Len(w) = 2 * Len(o.value) /\ \A i \in DOMAIN o.value :
            o.value[i] = BigEndian(SubSeq(w, (2 * i) - 1, 2 * i))
    ELSE w = o.value

Denotes(w, o) ==
    /\ Len(w) >= 2
    /\ w[1] = o.tagClass + o.type + IF o.constructed THEN 32 ELSE 0
    /\ \/ \E k \in 1 .. Min({5, Len(w) - 1}) :
            /\ IsLength(SubSeq(w, 2, k + 1), Len(w) - k - 1)
            /\ ContentsDenote(SubSeq(w, k + 2, Len(w)), o)
       \/ /\ o.constructed /\ w[2] = 128 /\ Len(w) >= 4
          /\ SubSeq(w, Len(w) - 1, Len(w)) = <<0, 0>>
          /\ ContentsDenote(SubSeq(w, 3, Len(w) - 2), o)

-----------------------------------------------------------------------------
(* Properties                                                              *)

Read1 == ~ Failed(doc) /\ edits = 0

(* To look into bit strings accepts and refuses the same octets, but for   *)
(* values that are too deep, and writes the same.                          *)
LookingInsideIsHarmless ==
    ~ options.decodeBitStrings =>
        LET other == fromDer(wire, [options EXCEPT !.decodeBitStrings = TRUE])
        IN  other = TooDeep \/ (~ Failed(other) /\ toDer(other.node) = toDer(doc.node))

(* What fromDer reads strictly is what the octets denote: lengths of any   *)
(* form nest, values end where their lengths say, and an attempt on a bit  *)
(* string leaves no trace: without any, the same is read and written.      *)
ReadIsDenoted ==
    Read1 /\ options.strict => Denotes(wire, doc.node) /\ LookingInsideIsHarmless

RECURSIVE MinimalIntegers(_)
MinimalIntegers(o) ==
    [o EXCEPT !.value =
        IF o.composed THEN [i \in DOMAIN @ |-> MinimalIntegers(@[i])]
        ELSE IF o.type = INTEGER /\ Redundant(@) THEN Tail(@) ELSE @]

(* What is written is read again as the same value, with every change,     *)
(* also one below a bit string whose contents were kept.                   *)
WrittenIsReadAgain ==
    written # <<>> /\ options.strict =>
        LET again == fromDer(written, options)
        IN  ~ Failed(again) /\ equals(again.node, MinimalIntegers(Plain(doc.node)))
=============================================================================

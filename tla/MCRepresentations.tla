------------------------- MODULE MCRepresentations -------------------------
(* Either a program that converts values, or one that reads and writes     *)
(* ASN.1.                                                                  *)
EXTENDS Conversions

UpTo(S, n) == UNION {[1 .. k -> S] : k \in 1 .. n}

MCOids == {<<a, b>> \o s : a \in 0 .. 2, b \in {0, 3, 39},
                           s \in {<<>>} \cup UpTo({0, 1, 127, 128, 16383, 16384, 65535, 65536}, 3)}

MCInts == {n + m : n \in {0, 8, 128, 2048, 32768, -8, -128, -2048, -32768}, m \in -2 .. 2}

Moments == {<<year, month, day>> : year \in {999, 1000, 1900, 1949, 1950, 1999, 2000, 2049, 2050, 2100},
                                   month \in {1, 2, 3, 12}, day \in {1, 28, 31}}

MCDates == {DateOf(c[1], c[2], c[3], s \div 3600, (s \div 60) % 60, s % 60, ms) :
                c \in Moments, s \in {0, 35999, 86399}, ms \in {0, 5}}

(* Every form of a text: with seconds or not, parts of a second, and zones.*)
Zones == {[text |-> <<Z>>, ahead |-> 0, minutes |-> 0]}
            \cup {[text |-> <<sign[1]>> \o TwoDigits(h) \o TwoDigits(m),
                   ahead |-> sign[2] * ((60 * h) + m), minutes |-> m] :
                        sign \in {<<Plus, 1>>, <<Minus, -1>>}, h \in {0, 2, 13}, m \in {0, 5, 30, 45}}
LocalZone == [text |-> <<>>, ahead |-> LocalOffset, minutes |-> 0]

Instant(c, hour, minute, second, ms, ahead) == Earlier(DateOf(c[1], c[2], c[3], hour, minute, second, ms), ahead)

Utc(c, minute, seconds, zone) ==
    [type |-> "UTCTIME",
     text |-> TwoDigits(c[1] % 100) \o TwoDigits(c[2]) \o TwoDigits(c[3]) \o TwoDigits(minute \div 60)
                \o TwoDigits(minute % 60) \o (IF seconds = 0 THEN <<>> ELSE TwoDigits(seconds)) \o zone.text,
     denotes |-> Instant(c, minute \div 60, minute % 60, seconds, 0, zone.ahead),
     zoneMinutes |-> zone.minutes]

Fractions == {[text |-> <<>>, ms |-> 0], [text |-> <<Point, 0, 4, 2>>, ms |-> 42], [text |-> <<Point, 5>>, ms |-> 500]}

Generalized(c, minute, fraction, zone) ==
    [type |-> "GENERALIZEDTIME",
     text |-> Digits(c[1], 10) \o TwoDigits(c[2]) \o TwoDigits(c[3]) \o TwoDigits(minute \div 60)
                \o TwoDigits(minute % 60) \o <<5, 9>> \o fraction.text \o zone.text,
     denotes |-> Instant(c, minute \div 60, minute % 60, 59, fraction.ms, zone.ahead),
     zoneMinutes |-> zone.minutes]

MCTimeTexts ==
    {Utc(c, minute, seconds, zone) : c \in {d \in Moments : d[1] \in 1950 .. 2049},
                                     minute \in {0, 1439}, seconds \in {0, 59}, zone \in Zones}
        \cup {Generalized(c, minute, fraction, zone) :
                c \in {d \in Moments : d[1] >= 1000}, minute \in {0, 1439}, fraction \in Fractions,
                zone \in Zones \cup {LocalZone}}

Some == {0, 1, 15, 64, 255}

MCTexts ==
    [as : {"base 64"}, octets : {<<>>} \cup UpTo(Some, 4) \cup UpTo({0, 63, 255}, 6), maxline : {0, 4, 5, 64}]
        \cup [as : {"base n"}, octets : UpTo(Some, 4), base : {3, 16, 58}, maxline : {0, 3}]
        \cup [as : {"hex"}, octets : {<<>>} \cup UpTo(Some, 3)]
        \cup [as : {"ip"}, octets : [1 .. 4 -> {0, 9, 10, 255}]]
        \cup [as : {"ip"}, octets :
                {FlattenSeq(s) : s \in [1 .. 8 -> {<<0, 0>>, <<0, 32>>}]
                                    \cup {s \o s : s \in [1 .. 4 -> {<<0, 0>>, <<18, 5>>, <<255, 0>>}]}}]

(* Headers are folded at spaces and commas, some more than once, and some  *)
(* have words that are longer than a line.                                 *)
LongWord == [i \in 1 .. 10 |-> 5]
Domains == {<<5>>, <<5, 6, 5, 6, 5, 6>>, <<5, Space, 6>>, <<5, 6, 6, Space, 5, 5, 5, Colon, 5>>}
Values == Domains \cup {<<5, 5, 5, 5, 5>>, LongWord, <<5, Space>> \o LongWord}
Headers == [name : {<<7>>, ContentDomain}, values : UpTo(Values, 2) \cup {<<<<5>>, <<5, 6>>, <<6, 5, 6>>>>}]

Message(type, body) == [type |-> type, procType |-> <<>>, contentDomain |-> <<>>, dekInfo |-> <<>>,
                        headers |-> <<>>, body |-> body]
Bodies == {<<>>, <<1>>, <<255, 0, 7, 9, 200>>}
Bare == {Message(type, body) : type \in {3, NewRequest}, body \in Bodies}
WithHeaders == {[Message(3, body) EXCEPT !.procType = <<<<4>>, <<5>>>>, !.contentDomain = <<domain>>,
                                         !.dekInfo = dek, !.headers = headers] :
                    body \in Bodies, domain \in Domains, dek \in {<<>>, <<<<5>>>>, <<<<5>>, <<6>>>>},
                    headers \in {<<>>} \cup UpTo(Headers, 1) \cup {<<h, h>> : h \in Headers}}
MCMessages == {<<a>> : a \in Bare \cup WithHeaders} \cup (Bare \X Bare)
                \cup {<<a, b>> : a \in {m \in WithHeaders : m.body = <<1>> /\ Len(m.headers) < 2}, b \in Bare}
MCMaxLines == {4, 64}

-----------------------------------------------------------------------------
(* ASN.1                                                                   *)

ZeroOctets(n) == [i \in 1 .. n |-> 0]

(* Headers with every kind of length, also wrong ones; bit strings that    *)
(* hold a value, half of one or more than one; lengths around 128 and 256. *)
MCWires ==
    UpTo({0, 1, 2, 3, 48, 128, 129}, 4) \cup {<<>>}
        \cup {<<48, 128, a, 1>> \o s : a \in {2, 3}, s \in UpTo({0, 1}, 4) \cup {<<>>}}
        \cup {<<48, n, 3, m, u>> \o s : n \in 6 .. 8, m \in 2 .. 6, u \in {0, 1},
                                        s \in UpTo({0, 1, 2, 5}, 3) \cup {<<>>} \cup {<<4, 2, 7, 7, 5, 0>>}}
        \cup {<<48, 9, 3, 7, 0, 48, 4, 3, 2, 0, 1>>, <<48, 11, 3, 9, 0, 48, 6, 3, 4, 0, 2, 1, 1>>,
              <<48, 9, 2, 4, 0, 0, 0, 1, 2, 1, 200>>, <<30, 4, 0, 65, 1, 1>>,
              <<48, 12, 48, 10, 48, 8, 48, 6, 48, 4, 48, 2, 48, 0>>}
        \cup {<<4, 129, 127>> \o ZeroOctets(127), <<4, 127>> \o ZeroOctets(127),
              <<4, 129, 128>> \o ZeroOctets(128), <<4, 132, 0, 0, 0, 2, 9, 9>>,
              <<4, 133, 0, 0, 0, 0, 1, 9>>, <<4, 132, 128, 0, 0, 0>>,
              <<48, 130, 1, 4, 4, 130, 1, 0>> \o ZeroOctets(256)}

CONSTANTS MaxDepth
VARIABLES wire, options, doc, edits, dumped

documentVars == <<wire, options, doc, edits, dumped>>

Documents == INSTANCE Asn1Documents WITH
                Wires <- MCWires, NewOctets <- {<<7>>}, written <- dumped

-----------------------------------------------------------------------------

NoJob == [kind |-> "none"]
NoDocument == [error |-> "no document"]

Init ==
    \/ /\ ConversionInit
       /\ wire = <<>> /\ options = Documents!Options(FALSE, FALSE) /\ doc = NoDocument
       /\ edits = 0 /\ dumped = <<>>
    \/ /\ Documents!DocumentInit
       /\ job = NoJob /\ written = <<>> /\ back = <<>>

Next ==
    \/ job # NoJob /\ ConversionNext /\ UNCHANGED documentVars
    \/ job = NoJob /\ Documents!DocumentNext /\ UNCHANGED conversionVars

Spec == Init /\ [][Next]_<<conversionVars, documentVars>>

-----------------------------------------------------------------------------

(* What fromDer reads strictly is what the octets denote, whether it looks *)
(* into bit strings or not.                                                *)
ReadIsDenoted == Documents!ReadIsDenoted

(* What toDer writes, also after changes, is read as it was.               *)
WrittenIsReadAgain == Documents!WrittenIsReadAgain
=============================================================================

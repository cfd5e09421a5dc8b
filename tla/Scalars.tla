------------------------------ MODULE Scalars ------------------------------
(***************************************************************************)
(* The octets and texts of ASN.1's object identifiers, integers and times. *)
(* A word has four octets.  And octets as text: base 64, any base,         *)
(* hexadecimal and IP addresses, where a character of an alphabet is its   *)
(* number.                                                                 *)
(***************************************************************************)
EXTENDS Integers, SequencesExt, FiniteSetsExt, TLC

CONSTANTS
    OctetBits,    \* 8
    MaxArc,       \* 0xffffffff
    MaxPrefix,    \* 0x3fffffffffff, the most that an arc may be before it grows
    LocalOffset   \* the minutes that the local time is ahead of UTC

Error == [error |-> TRUE]
IsError(r) == "error" \in DOMAIN r

-----------------------------------------------------------------------------
(* Object identifiers                                                      *)

(* The digits of n to a base, the first the highest.                       *)
RECURSIVE Digits(_, _)
Digits(n, base) == (IF n < base THEN <<>> ELSE Digits(n \div base, base)) \o <<n % base>>

Base128(arc) ==
    LET digits == Digits(arc, 128)
    IN  [i \in DOMAIN digits |-> digits[i] + IF i < Len(digits) THEN 128 ELSE 0]

oidToDer(arcs) ==
    IF \E i \in 3 .. Len(arcs) : arcs[i] > MaxArc THEN Error
    ELSE [octets |-> <<(40 * arcs[1]) + arcs[2]>>
                        \o FlattenSeq([i \in 1 .. Len(arcs) - 2 |-> Base128(arcs[i + 2])])]

(* Mutant: an arc starts with what the one before it left. *)
OidStepNoReset(got, octet) ==
    IF IsError(got) \/ got.value > MaxPrefix THEN Error
    ELSE LET value == (got.value * 128) + (octet % 128)
         IN  [parts |-> IF octet < 128 THEN Append(got.parts, value) ELSE got.parts,
              value |-> value]

(* Octets that would continue an arc past the end are left out.            *)
OidStep(got, octet) ==
    IF IsError(got) \/ got.value > MaxPrefix THEN Error
    ELSE LET value == (got.value * 128) + (octet % 128)
         IN  IF octet < 128 THEN [parts |-> Append(got.parts, value), value |-> 0]
             ELSE [got EXCEPT !.value = value]

derToOid(octets) ==
    FoldLeft(OidStep, [parts |-> <<octets[1] \div 40, octets[1] % 40>>, value |-> 0], Tail(octets))

-----------------------------------------------------------------------------
(* Integers                                                                *)

OctetSize == 2 ^ OctetBits
WordSize == 2 ^ (4 * OctetBits)

(* A 32-bit result of JavaScript.                                          *)
Int32(n) == LET m == n % WordSize IN IF m >= WordSize \div 2 THEN m - WordSize ELSE m

putSignedInt(n, octets) ==
    LET index == IF n < 0 THEN n + Int32(OctetSize ^ octets) ELSE n
    IN  [i \in 1 .. octets |-> (index \div (OctetSize ^ (octets - i))) % OctetSize]

getSignedInt(octets) ==
    LET value == FoldLeft(LAMBDA v, octet : Int32(v * OctetSize) + octet, 0, octets)
        max == Int32((OctetSize ^ Len(octets)) \div 2)
    IN  IF value >= max THEN value - Int32(2 * max) ELSE value

InRange(n, octets) == LET half == (OctetSize ^ octets) \div 2 IN -half =< n /\ n < half

integerToDer(n) ==
    IF ~ InRange(n, 4) THEN Error
    ELSE LET octets == CHOOSE k \in 1 .. 4 : InRange(n, k) /\ \A j \in 1 .. k - 1 : ~ InRange(n, j)
         IN  [octets |-> putSignedInt(n, octets)]

derToInteger(octets) ==
    IF Len(octets) \notin 1 .. 4 THEN Error ELSE [integer |-> getSignedInt(octets)]

-----------------------------------------------------------------------------
(* Times.  A text is a sequence of digits and of the letters below.        *)

Z == 10
Plus == 11
Minus == 12
Point == 13

(* parseInt takes the digits at the front, and is NaN without any.         *)
NaN == -9999

LeadingDigits(text, first, n) ==
    LET s == SubSeq(text, first, IF first + n - 1 > Len(text) THEN Len(text) ELSE first + n - 1)
        stop == SelectInSeq(s, LAMBDA c : c > 9)
    IN  IF stop = 0 THEN s ELSE SubSeq(s, 1, stop - 1)

NumberAt(text, first, n) ==
    LET digits == LeadingDigits(text, first, n)
    IN  IF digits = <<>> THEN NaN ELSE FoldLeft(LAMBDA v, d : (10 * v) + d, 0, digits)

(* parseFloat, in thousandths.                                             *)
Milliseconds(text, first) ==
    LET digits == LeadingDigits(text, first, 3)
    IN  IF digits = <<>> THEN NaN ELSE NumberAt(digits \o <<0, 0>>, 1, 3)

CharAt(text, i) == IF i \in DOMAIN text THEN text[i] ELSE NaN

(* Days of the calendar; a month past the twelfth is one of the next year. *)
DayNumber(year, month, day) ==
    LET y == year + ((month - 1) \div 12) - (IF (month - 1) % 12 < 2 THEN 1 ELSE 0)
        m == (month + 9) % 12
    IN  (365 * y) + (y \div 4) - (y \div 100) + (y \div 400) + (((153 * m) + 2) \div 5) + day

(* A Date, from what setUTCFullYear and setUTCHours are given.             *)
DateOf(year, month, day, hour, minute, second, ms) ==
    IF NaN \in {year, month, day, hour, minute, second, ms} THEN Error
    ELSE LET seconds == (3600 * hour) + (60 * minute) + second
         IN  [day |-> DayNumber(year, month, day) + (seconds \div 86400),
              second |-> seconds % 86400, ms |-> ms]

Earlier(date, minutes) ==
    IF IsError(date) \/ minutes = NaN THEN Error
    ELSE LET seconds == date.second - (60 * minutes)
         IN  [date EXCEPT !.day = @ + (seconds \div 86400), !.second = seconds % 86400]

(* The minutes that a zone +hhmm is ahead.  Its minutes are looked for     *)
(* three characters after its hours, where the second digit of them is.    *)
Zone(text, at) ==
    LET hours == NumberAt(text, at + 1, 2)
        minutes == NumberAt(text, at + 4, 2)
    IN  IF NaN \in {hours, minutes} THEN NaN
        ELSE (IF text[at] = Plus THEN 1 ELSE -1) * ((60 * hours) + minutes)

IsZone(text, at) == CharAt(text, at) \in {Plus, Minus}

(* Mutant: the year 50 is in this century. *)
CenturyAfter50(yy) == IF yy = NaN THEN NaN ELSE IF yy > 50 THEN 1900 + yy ELSE 2000 + yy

Century(yy) == IF yy = NaN THEN NaN ELSE IF yy >= 50 THEN 1900 + yy ELSE 2000 + yy

(* The zone comes after the minutes or after the seconds.                  *)
utcTimeToDate(text) ==
    LET long == Len(text) > 11
        seconds == long /\ ~ IsZone(text, 11)
        end == IF seconds THEN 13 ELSE 11
        date == DateOf(Century(NumberAt(text, 1, 2)), NumberAt(text, 3, 2), NumberAt(text, 5, 2),
                       NumberAt(text, 7, 2), NumberAt(text, 9, 2),
                       IF seconds THEN NumberAt(text, 11, 2) ELSE 0, 0)
    IN  IF long /\ IsZone(text, end) THEN Earlier(date, Zone(text, end)) ELSE date

(* The zone is looked for five characters before the end; without one and  *)
(* without a Z the time is a local one.                                    *)
generalizedTimeToDate(text) ==
    LET end == Len(text) - 4
        ahead == IF IsZone(text, end) THEN Zone(text, end)
                 ELSE IF Last(text) = Z THEN 0 ELSE LocalOffset
        ms == IF CharAt(text, 15) = Point THEN Milliseconds(text, 16) ELSE 0
    IN  Earlier(DateOf(NumberAt(text, 1, 4), NumberAt(text, 5, 2), NumberAt(text, 7, 2),
                       NumberAt(text, 9, 2), NumberAt(text, 11, 2), NumberAt(text, 13, 2), ms),
                ahead)

(* The year, month and day of a date in UTC.                               *)
Civil(date) ==
    LET about == (date.day * 100) \div 36525
    IN  CHOOSE c \in (about - 1 .. about + 1) \X (1 .. 12) \X (1 .. 31) :
            /\ DayNumber(c[1], c[2], c[3]) = date.day
            /\ DayNumber(c[1], c[2] + 1, 1) > date.day

(* Two digits, of a year all that it has.                                  *)
TwoDigits(n) == IF n < 10 THEN <<0, n>> ELSE Digits(n, 10)

AfterYear(date) ==
    LET civil == Civil(date)
    IN  TwoDigits(civil[2]) \o TwoDigits(civil[3]) \o TwoDigits(date.second \div 3600)
            \o TwoDigits((date.second \div 60) % 60) \o TwoDigits(date.second % 60) \o <<Z>>

(* Padded in front when what is left of the year is one digit or none.     *)
dateToUtcTime(date) ==
    LET year == Digits(Civil(date)[1], 10)
        yy == SubSeq(year, 3, Len(year))
    IN  SubSeq(<<0>>, 1, IF Len(yy) < 2 THEN 1 ELSE 0) \o yy \o AfterYear(date)

dateToGeneralizedTime(date) == TwoDigits(Civil(date)[1]) \o AfterYear(date)

Jan1(year) == DayNumber(year, 1, 1)

(* Mutant: the first day of 2050 is still a UTC time. *)
IsUtcTimeTo2050(date) == date.day >= Jan1(1950) /\ date.day =< Jan1(2050)

IsUtcTime(date) == date.day >= Jan1(1950) /\ date.day < Jan1(2050)

dateToAsn1(date) ==
    IF IsUtcTime(date) THEN [type |-> "UTCTIME", text |-> dateToUtcTime(date)]
    ELSE [type |-> "GENERALIZEDTIME", text |-> dateToGeneralizedTime(date)]

(* As certificateFromAsn1 reads a validity.                                *)
asn1ToDate(time) ==
    IF time.type = "UTCTIME" THEN utcTimeToDate(time.text) ELSE generalizedTimeToDate(time.text)

-----------------------------------------------------------------------------
(* Octets as text: the characters of no alphabet.                          *)

Pad == 64          \* '=' of base 64
LineBreak == 90    \* of either kind, and any other white space
Strange == 91      \* a character of no alphabet

-----------------------------------------------------------------------------
(* Base 64                                                                 *)

(* Mutant: the last two octets of the input give four characters. *)
QuantumNoPad(octets) ==
    LET o == octets \o <<0, 0>>
    IN  <<o[1] \div 4, (16 * (o[1] % 4)) + (o[2] \div 16),
          IF Len(octets) = 1 THEN Pad ELSE (4 * (o[2] % 16)) + (o[3] \div 64),
          IF Len(octets) = 1 THEN Pad ELSE o[3] % 64>>

(* Four characters for up to three octets.                                 *)
Quantum(octets) ==
    LET o == octets \o <<0, 0>>
    IN  <<o[1] \div 4, (16 * (o[1] % 4)) + (o[2] \div 16),
          IF Len(octets) = 1 THEN Pad ELSE (4 * (o[2] % 16)) + (o[3] \div 64),
          IF Len(octets) < 3 THEN Pad ELSE o[3] % 64>>

(* A line is cut at most once for every four characters; 0 is no maxline.  *)
RECURSIVE Encode64(_, _, _)
Encode64(octets, line, maxline) ==
    IF octets = <<>> THEN line
    ELSE LET long == line \o Quantum(SubSeq(octets, 1, Min({3, Len(octets)})))
             cut == maxline # 0 /\ Len(long) > maxline
         IN  (IF cut THEN Append(SubSeq(long, 1, maxline), LineBreak) ELSE <<>>)
                \o Encode64(SubSeq(octets, 4, Len(octets)),
                            IF cut THEN SubSeq(long, maxline + 1, Len(long)) ELSE long, maxline)

encode64(octets, maxline) == Encode64(octets, <<>>, maxline)

(* undefined, where a quantum is not whole, counts as 0 and is not '='.    *)
Undefined == -1
Bits(c) == IF c = Undefined THEN 0 ELSE c

OctetsOf(q) ==
    LET c == q \o <<Undefined, Undefined, Undefined>>
        first == (4 * c[1]) + (Bits(c[2]) \div 16)
        second == (16 * (Bits(c[2]) % 16)) + (Bits(c[3]) \div 4)
        third == (64 * (Bits(c[3]) % 4)) + Bits(c[4])
    IN  IF c[3] = Pad THEN <<first>> ELSE IF c[4] = Pad THEN <<first, second>>
        ELSE <<first, second, third>>

RECURSIVE Decode64(_)
Decode64(text) ==
    IF text = <<>> THEN <<>>
    ELSE OctetsOf(SubSeq(text, 1, Min({4, Len(text)}))) \o Decode64(SubSeq(text, 5, Len(text)))

decode64(text) == Decode64(SelectSeq(text, LAMBDA c : c \in 0 .. Pad))

-----------------------------------------------------------------------------
(* Any base.  The digits kept during a conversion have the lowest first.   *)

(* A step of a conversion: the digits times the factor and one digit more. *)
RECURSIVE Push(_, _)
Push(carry, base) ==
    IF carry = 0 THEN <<>> ELSE <<carry % base>> \o Push(carry \div base, base)

TimesPlus(digits, factor, more, base) ==
    LET got == FoldLeft(LAMBDA g, d :
                    LET n == g.carry + (d * factor)
                    IN  [digits |-> Append(g.digits, n % base), carry |-> n \div base],
                    [digits |-> <<>>, carry |-> more], digits)
    IN  got.digits \o Push(got.carry, base)

(* Mutant: a digit for every zero at the front. *)
LeadingZerosAll(s) ==
    Cardinality({n \in DOMAIN s : \A i \in 1 .. n : s[i] = 0})

(* The zeros at the front, but the last element is not one of them.        *)
LeadingZeros(s) == Cardinality({n \in 1 .. Len(s) - 1 : \A i \in 1 .. n : s[i] = 0})

Zeros(n) == [i \in 1 .. n |-> 0]

RECURSIVE Lines(_, _)
Lines(text, maxline) ==
    IF maxline = 0 \/ Len(text) =< maxline THEN text
    ELSE Append(SubSeq(text, 1, maxline), LineBreak)
            \o Lines(SubSeq(text, maxline + 1, Len(text)), maxline)

encodeN(octets, base, maxline) ==
    Lines(Zeros(LeadingZeros(octets))
            \o Reverse(FoldLeft(LAMBDA ds, o : TimesPlus(ds, 256, o, base), <<0>>, octets)), maxline)

None == <<-1>>

(* Characters that the alphabet lacks refuse the text.                     *)
decodeN(text, base) ==
    LET digits == SelectSeq(text, LAMBDA c : c # LineBreak)
    IN  IF \E i \in DOMAIN digits : digits[i] >= base THEN None
        ELSE Reverse(FoldLeft(LAMBDA os, d : TimesPlus(os, base, d, 256), <<0>>, digits)
                        \o Zeros(LeadingZeros(digits)))

-----------------------------------------------------------------------------
(* Hexadecimal                                                             *)

encodeHex(octets) ==
    FlattenSeq([i \in DOMAIN octets |-> <<octets[i] \div 16, octets[i] % 16>>])

(* The first octet of an odd number of digits has one digit.               *)
decodeHex(digits) ==
    LET even == SubSeq(<<0>>, 1, Len(digits) % 2) \o digits
    IN  [i \in 1 .. Len(even) \div 2 |-> (16 * even[(2 * i) - 1]) + even[2 * i]]

-----------------------------------------------------------------------------
(* IP addresses: numbers with points, or hexadecimal segments with colons, *)
(* where a segment may be empty.                                           *)

Empty == <<>>

Short(hex) == LET zeros == Cardinality({n \in 1 .. 3 : \A i \in 1 .. n : hex[i] = 0})
              IN  SubSeq(hex, zeros + 1, 4)

IsRun(segments, i, j) == \A k \in i .. j : segments[k] = <<0>>

(* The first of the longest runs of zeros.                                 *)
LongestRun(segments) ==
    LET runs == {r \in (1 .. 8) \X (1 .. 8) : r[1] =< r[2] /\ IsRun(segments, r[1], r[2])}
        length(r) == r[2] - r[1]
    IN  CHOOSE r \in runs : \A s \in runs \ {r} :
            length(s) < length(r) \/ (length(s) = length(r) /\ s[1] > r[1])

(* A run of two zeros at least is an empty segment.                        *)
bytesToIPv6(octets) ==
    LET segments == [i \in 1 .. 8 |-> Short(encodeHex(SubSeq(octets, (2 * i) - 1, 2 * i)))]
        run == LongestRun(segments)
    IN  IF \E i \in 1 .. 7 : IsRun(segments, i, i + 1)
        THEN SubSeq(<<Empty>>, 1, IF run[1] = 1 THEN 1 ELSE 0) \o SubSeq(segments, 1, run[1] - 1)
                \o <<Empty>> \o SubSeq(segments, run[2] + 1, 8)
                \o SubSeq(<<Empty>>, 1, IF run[2] = 8 THEN 1 ELSE 0)
        ELSE segments

(* Mutant: an empty segment counts as one of the eight. *)
bytesFromIPv6NoBlanks(segments) ==
    LET zeros == 2 * (8 - Len(segments))
        isBlank(i) == i > Len(segments) \/ segments[i] = Empty
        first(i) == \A j \in 1 .. i - 1 : ~ isBlank(j)
        octets(i) == LET o == decodeHex(segments[i])
                     IN  IF Len(o) < 2 THEN <<0>> \o o ELSE o
    IN  FlattenSeq([i \in 1 .. 8 |-> IF ~ isBlank(i) THEN octets(i)
                                     ELSE IF first(i) THEN Zeros(Max({0, zeros})) ELSE <<>>])

(* The first empty segment takes all the zeros, and one that is missing is *)
(* as an empty one.  Only eight segments are read.                         *)
bytesFromIPv6(segments) ==
    LET blanks == Cardinality({i \in DOMAIN segments : segments[i] = Empty})
        zeros == 2 * (8 - Len(segments) + blanks)
        isBlank(i) == i > Len(segments) \/ segments[i] = Empty
        first(i) == \A j \in 1 .. i - 1 : ~ isBlank(j)
        octets(i) == LET o == decodeHex(segments[i])
                     IN  IF Len(o) < 2 THEN <<0>> \o o ELSE o
    IN  FlattenSeq([i \in 1 .. 8 |-> IF ~ isBlank(i) THEN octets(i)
                                     ELSE IF first(i) THEN Zeros(Max({0, zeros})) ELSE <<>>])

(* The digits of a number, and the number of any digits, even above 255.   *)
Decimal(n) == IF n = 0 THEN <<0>> ELSE Reverse(Push(n, 10))

bytesToIPv4(octets) == [i \in DOMAIN octets |-> Decimal(octets[i])]

bytesFromIPv4(parts) ==
    IF Len(parts) # 4 \/ \E i \in DOMAIN parts : parts[i] = <<>> THEN None
    ELSE [i \in 1 .. 4 |-> FoldLeft(LAMBDA v, d : (10 * v) + d, 0, parts[i])]

bytesToIP(octets) ==
    IF Len(octets) = 4 THEN bytesToIPv4(octets)
    ELSE IF Len(octets) = 16 THEN bytesToIPv6(octets) ELSE None
=============================================================================

---------------------------- MODULE Conversions ----------------------------
(***************************************************************************)
(* PEM messages and their text, and a program that writes a value as       *)
(* octets or as text, and reads that again, or reads the text of a time    *)
(* that another program wrote.                                             *)
(*                                                                         *)
(* The text of messages is a sequence of lines, each a sequence of         *)
(* characters, or a marker of a message's beginning or end.  Letters are   *)
(* numbers of base 64's alphabet; the names of headers are abbreviated.    *)
(***************************************************************************)
EXTENDS Scalars

CONSTANT FoldLength   \* 65

Colon == 70
Space == 71
Comma == 72

ProcType == <<15, 19>>
ContentDomain == <<2, 3>>
DekInfo == <<3, 8>>

Request == 1      \* CERTIFICATE REQUEST
NewRequest == 2   \* NEW CERTIFICATE REQUEST

(* Letters of a marker, should it stand inside another message.            *)
Line(chars) == [kind |-> "line", chars |-> chars]
Begin(type) == [kind |-> "begin", type |-> type, chars |-> <<1, type>>]
End(type) == [kind |-> "end", type |-> type, chars |-> <<4, type>>]

BadMessage == [error |-> TRUE]

-----------------------------------------------------------------------------
(* Writing                                                                 *)

(* Mutant: a fold at a space leaves it out. *)
FoldedDropsSpace(line, candidate) ==
    LET before == SubSeq(line, 1, candidate - 1)
        after == SubSeq(line, candidate + 1, Len(line))
    IN  IF line[candidate] = Comma THEN before \o <<Comma, LineBreak, Space>> \o after
        ELSE before \o <<LineBreak>> \o after

(* A line goes on after a comma, or at a space, on one that has a space.   *)
Folded(line, candidate) ==
    LET before == SubSeq(line, 1, candidate - 1)
        after == SubSeq(line, candidate + 1, Len(line))
    IN  IF line[candidate] = Comma THEN before \o <<Comma, LineBreak, Space>> \o after
        ELSE before \o <<LineBreak, Space>> \o after

(* The two characters that end the header count, but are not looked at.    *)
RECURSIVE Fold(_, _, _, _)
Fold(line, index, length, candidate) ==
    IF index > Len(line) + 2 THEN line
    ELSE IF length > FoldLength /\ candidate # 0
    THEN Fold(Folded(line, candidate), index + 1,
              index - candidate - (IF line[candidate] = Comma THEN 1 ELSE 0), 0)
    ELSE Fold(line, index + 1, length + 1,
              IF index =< Len(line) /\ line[index] \in {Space, Comma} THEN index ELSE candidate)

Joined(values) ==
    FlattenSeq([i \in DOMAIN values |-> values[i] \o (IF i < Len(values) THEN <<Comma>> ELSE <<>>)])

RECURSIVE SplitAt(_, _)
SplitAt(chars, mark) ==
    LET at == SelectInSeq(chars, LAMBDA c : c = mark)
    IN  IF at = 0 THEN <<chars>>
        ELSE <<SubSeq(chars, 1, at - 1)>> \o SplitAt(SubSeq(chars, at + 1, Len(chars)), mark)

LinesOf(chars) == LET parts == SplitAt(chars, LineBreak) IN [i \in DOMAIN parts |-> Line(parts[i])]

foldHeader(header) ==
    LinesOf(Fold(header.name \o <<Colon, Space>> \o Joined(header.values), 1, 0, 0))

(* A field that is not set is an empty sequence.                           *)
Given(name, values) == IF values = <<>> THEN <<>> ELSE foldHeader([name |-> name, values |-> values])

(* Mutant: the empty line after the headers is left out. *)
encodeNoBlank(m, maxline) ==
    <<Begin(m.type)>> \o Given(ProcType, m.procType) \o Given(ContentDomain, m.contentDomain)
        \o Given(DekInfo, m.dekInfo) \o FlattenSeq([i \in DOMAIN m.headers |-> foldHeader(m.headers[i])])
        \o LinesOf(encode64(m.body, maxline)) \o <<End(m.type)>>

(* An empty line comes after the headers only if Proc-Type is one of them. *)
encode(m, maxline) ==
    <<Begin(m.type)>> \o Given(ProcType, m.procType) \o Given(ContentDomain, m.contentDomain)
        \o Given(DekInfo, m.dekInfo) \o FlattenSeq([i \in DOMAIN m.headers |-> foldHeader(m.headers[i])])
        \o (IF m.procType # <<>> THEN <<Line(<<>>)>> ELSE <<>>)
        \o LinesOf(encode64(m.body, maxline)) \o <<End(m.type)>>

-----------------------------------------------------------------------------
(* Reading                                                                 *)

RECURSIVE LeftTrim(_)
LeftTrim(chars) == IF chars # <<>> /\ chars[1] = Space THEN LeftTrim(Tail(chars)) ELSE chars

RightTrim(chars) == Reverse(LeftTrim(Reverse(chars)))

(* A line that begins with a space goes on the one before it.              *)
RECURSIVE Unfold(_)
Unfold(lines) ==
    IF lines = <<>> THEN <<>>
    ELSE LET more == Cardinality({n \in 1 .. Len(lines) - 1 :
                        \A i \in 1 .. n : lines[i + 1] # <<>> /\ lines[i + 1][1] = Space})
         IN  <<RightTrim(lines[1]) \o FlattenSeq(SubSeq(lines, 2, more + 1))>>
                \o Unfold(SubSeq(lines, more + 2, Len(lines)))

(* A name is what has no space, up to the last colon with a value after it.*)
ColonOf(line) ==
    LET ends == {i \in 2 .. Len(line) - 1 : line[i] = Colon /\ \A j \in 1 .. i : line[j] # Space}
    IN  IF ends = {} THEN 0 ELSE Max(ends)

ValuesOf(line) ==
    LET value == LeftTrim(SubSeq(line, ColonOf(line) + 1, Len(line)))
    IN  SplitAt(IF value = <<>> THEN <<Space>> ELSE value, Comma)

At(values, i) == IF Len(values) >= i /\ values[i] # <<>> THEN <<values[i]>> ELSE <<>>

(* One header.  Only of the other headers are all the values trimmed.      *)
ParseHeader(m, line) ==
    LET name == SubSeq(line, 1, ColonOf(line) - 1)
        values == ValuesOf(line)
    IN  IF m = BadMessage \/ ColonOf(line) = 0 THEN m
        ELSE IF m.procType = <<>>
        THEN IF name = ProcType /\ Len(values) = 2 THEN [m EXCEPT !.procType = values] ELSE BadMessage
        ELSE IF m.contentDomain = <<>> /\ name = ContentDomain
        THEN [m EXCEPT !.contentDomain = At(values, 1)]
        ELSE IF m.dekInfo = <<>> /\ name = DekInfo
        THEN [m EXCEPT !.dekInfo = <<values[1]>> \o At(values, 2)]
        ELSE [m EXCEPT !.headers = Append(@, [name |-> name,
                                              values |-> [i \in DOMAIN values |-> LeftTrim(values[i])]])]

(* The headers end at the first empty line that is not the first line.     *)
ReadMessage(type, content) ==
    LET chars == [i \in DOMAIN content |-> content[i].chars]
        blank == SelectInSubSeq(chars, 2, Len(chars), LAMBDA l : l = <<>>)
        head == SubSeq(chars, 1, blank - 1)
        body == SubSeq(chars, blank + 1, Len(chars))
        read == [type |-> IF type = NewRequest THEN Request ELSE type,
                 procType |-> <<>>, contentDomain |-> <<>>, dekInfo |-> <<>>, headers |-> <<>>,
                 body |-> decode64(FlattenSeq(body))]
    IN  FoldLeft(ParseHeader, read, Unfold(head))

(* Messages up to the first that is bad; lines between them do not matter. *)
RECURSIVE decodeFrom(_)
decodeFrom(text) ==
    LET begin == SelectInSeq(text, LAMBDA l : l.kind = "begin")
        end == SelectInSubSeq(text, begin + 1, Len(text), LAMBDA l : l = End(text[begin].type))
        more == decodeFrom(SubSeq(text, end + 1, Len(text)))
        first == ReadMessage(text[begin].type, SubSeq(text, begin + 1, end - 1))
    IN  IF begin = 0 THEN <<>>
        ELSE IF end = 0 \/ first = BadMessage \/ BadMessage \in Range(more) THEN <<BadMessage>>
        ELSE <<first>> \o more

decode(text) ==
    LET messages == decodeFrom(text) IN IF messages = <<>> THEN <<BadMessage>> ELSE messages

-----------------------------------------------------------------------------

CONSTANTS
    Oids, Ints, Dates,   \* the values written
    TimeTexts,           \* the times read: a text of the form of its type, what it
                         \* denotes, and the minutes of its zone
    Texts,               \* octets with the way they are written as text
    Messages, MaxLines   \* lists of PEM messages, and lengths of their lines

VARIABLES
    job,       \* what is converted
    written,   \* at most one value, what it was written as
    back       \* at most one value, what that was read as

conversionVars == <<job, written, back>>

Job(kind, values) == [kind : {kind}, value : values]

ConversionInit ==
    /\ job \in Job("oid", Oids) \cup Job("integer", Ints) \cup Job("date", Dates)
                \cup Job("text", Texts) \cup Job("pem", Messages \X MaxLines)
                \cup Job("time", TimeTexts)
    /\ written = IF job.kind = "time" THEN <<job.value>> ELSE <<>>
    /\ back = <<>>

Write(kind, result) ==
    /\ job.kind = kind /\ written = <<>>
    /\ written' = <<result>>
    /\ UNCHANGED <<job, back>>

Read(kinds, result) ==
    /\ job.kind \in kinds /\ written # <<>> /\ back = <<>>
    /\ back' = <<result>>
    /\ UNCHANGED <<job, written>>

WriteText(t) ==
    CASE t.as = "base 64" -> encode64(t.octets, t.maxline)
      [] t.as = "base n" -> encodeN(t.octets, t.base, t.maxline)
      [] t.as = "hex" -> encodeHex(t.octets)
      [] t.as = "ip" -> bytesToIP(t.octets)

ReadText(t, text) ==
    CASE t.as = "base 64" -> decode64(text)
      [] t.as = "base n" -> decodeN(text, t.base)
      [] t.as = "hex" -> decodeHex(text)
      [] t.as = "ip" -> IF Len(t.octets) = 4 THEN bytesFromIPv4(text) ELSE bytesFromIPv6(text)

ConversionNext ==
    \/ Write("oid", oidToDer(job.value))
    \/ Write("integer", integerToDer(job.value))
    \/ Write("date", dateToAsn1(job.value))
    \/ Write("text", WriteText(job.value))
    \/ Write("pem", FlattenSeq([i \in DOMAIN job.value[1] |-> encode(job.value[1][i], job.value[2])]))
    \/ Read({"oid"}, IF IsError(written[1]) THEN Error ELSE derToOid(written[1].octets))
    \/ Read({"integer"}, IF IsError(written[1]) THEN Error ELSE derToInteger(written[1].octets))
    \/ Read({"date", "time"}, asn1ToDate(written[1]))
    \/ Read({"text"}, ReadText(job.value, written[1]))
    \/ Read({"pem"}, decode(written[1]))

-----------------------------------------------------------------------------
(* Properties                                                              *)

Done(kind) == back # <<>> /\ job.kind = kind

(* An object identifier is read as it was written, or refused for an arc   *)
(* of more than 32 bits, if its second arc leaves the first as it is.      *)
OidComesBack ==
    job.value[2] < 40 =>
        IF \E i \in 3 .. Len(job.value) : job.value[i] > MaxArc THEN IsError(back[1])
        ELSE ~ IsError(back[1]) /\ back[1].parts = job.value /\ back[1].value = 0

(* An integer of 32 bits is read as it was written, in the fewest octets   *)
(* that keep its sign; others are refused.                                 *)
IntegerComesBack ==
    IF InRange(job.value, 4)
    THEN /\ back[1] = [integer |-> job.value]
         /\ ~ InRange(job.value, Len(written[1].octets) - 1)
    ELSE IsError(back[1])

(* A date is read as it was written, in either form, but for the parts of  *)
(* a second and for years of less than four digits.                        *)
DateComesBack == job.value.day >= Jan1(1000) => back[1] = [job.value EXCEPT !.ms = 0]

(* Octets come back from base 64, any base, hexadecimal and IP addresses,  *)
(* and the lines of base 64 are not too long.                              *)
TextComesBack ==
    /\ back[1] = job.value.octets
    /\ "maxline" \in DOMAIN job.value /\ job.value.maxline # 0 =>
        \A i \in DOMAIN SplitAt(written[1], LineBreak) :
            Len(SplitAt(written[1], LineBreak)[i]) =< job.value.maxline

(* The values after the first begin with words that fit on a line.  After  *)
(* a comma that is folded at the limit, a longer one would be folded once  *)
(* more and leave an empty line, which ends the headers.                   *)
WordsFit(header) ==
    \A i \in 2 .. Len(header.values) :
        LET space == SelectInSeq(header.values[i], LAMBDA c : c = Space)
        IN  (IF space = 0 THEN Len(header.values[i]) ELSE space - 1) < FoldLength

(* Messages in a row come back, with their folded headers, the old name of *)
(* a request as the new one.                                               *)
PemComesBack ==
    (\A i \in DOMAIN job.value[1] : \A header \in Range(job.value[1][i].headers) : WordsFit(header)) =>
        back[1] = [i \in DOMAIN job.value[1] |->
                [job.value[1][i] EXCEPT !.type = IF @ = NewRequest THEN Request ELSE @]]

(* What is written is read as it was: object identifiers up to arcs of 32  *)
(* bits, integers of 32 bits in the fewest octets, dates to the second in  *)
(* whichever of the two forms their year calls for, octets in every        *)
(* encoding and for every length of a line, and PEM messages in a row with *)
(* their folded headers, if the words of these fit on a line.              *)
ValuesComeBack ==
    /\ Done("oid") => OidComesBack
    /\ Done("integer") => IntegerComesBack
    /\ Done("date") => DateComesBack
    /\ Done("text") => TextComesBack
    /\ Done("pem") => PemComesBack

(* A text of a time in a form that the source lists is the instant that it *)
(* denotes, if its zone is off by whole hours or less than ten minutes     *)
(* more: of other minutes the code reads the second digit only.            *)
TimeIsDenoted ==
    Done("time") /\ job.value.zoneMinutes < 10 => back[1] = job.value.denotes

(* What the source says of the zone, which the code breaks: its four       *)
(* digits are the hours and the minutes of the offset from GMT.            *)
OffsetIsRead ==
    Done("time") => back[1] = job.value.denotes
=============================================================================

---------------------------- MODULE BlockCipher ----------------------------
(***************************************************************************)
(* A BlockCipher object: start, any number of updates with pieces of the   *)
(* message, finish, and start again.  The modes keep what is left over of  *)
(* a block between two updates, CBC the last block between two messages.   *)
(***************************************************************************)
EXTENDS CipherModes

CONSTANTS
    Modes,      \* the modes to try
    Directions, \* the values of decrypt to try
    Ivs,        \* the initialization vectors callers give, in bytes
    Chunks,     \* the pieces of messages callers give to update
    AADs,       \* the additional data callers give to GCM
    TagLengths, \* tagLength / 8
    Tags,       \* the tags callers give to GCM's decrypt
    Pads,       \* "mode": no pad function is given; "none": one that adds nothing
    MaxLen      \* bound: the bytes of the messages since the last new vector

ASSUME BlockCipherAssumption ==
    /\ Modes \subseteq Streams \cup Padded
    /\ Directions \subseteq BOOLEAN
    /\ Ivs \cup Chunks \cup AADs \cup Tags \subseteq Seq(Byte)
    /\ TagLengths \subseteq Nat \ {0}
    /\ Pads \subseteq {"mode", "none"}
    /\ Modes \cap Padded # {} => Block \in Byte
    /\ MaxLen \in Nat
    /\ \A iv \in Ivs : Lengths[0, Len(iv)] \in Blocks
    /\ \A aad \in AADs, n \in 0 .. MaxLen : Lengths[Len(aad), n] \in Blocks

VARIABLES
    mode,       \* the mode of the algorithm
    decrypt,    \* _decrypt
    s,          \* the mode's state with the input and output buffers
    given,      \* _j0 or _iv, additionalData, _tagLength, _tag
    pad,        \* mode.pad and mode.unpad: the mode's own or the caller's
    phase,      \* which call runs or ran: "new", "idle", "update", "done"
    result,     \* what finish returned
    tag         \* GCM's tag

(* Observations, read by the properties and by no action.                  *)
VARIABLES
    fed,        \* what update got since the start
    drained,    \* what the caller took out of the output buffer since then
    earlier     \* CBC: the blocks read and put out since the last new vector

vars == <<mode, decrypt, s, given, pad, phase, result, tag, fed, drained, earlier>>

-----------------------------------------------------------------------------
(* Start                                                                   *)

(* GCM takes 12 bytes as they are and hashes any other vector.             *)
J0(iv) ==
    IF Len(iv) = Block - CounterBytes
    THEN [i \in 1 .. Block |-> IF i =< Len(iv) THEN iv[i] ELSE IF i = Block THEN 1 ELSE 0]
    ELSE ghash(HashOf(Zeros, iv), Lengths[0, Len(iv)])

First(iv) == IF mode = "GCM" THEN J0(iv) ELSE BlockOf(iv)

Fresh(inBlock, aad) ==
    [input |-> <<>>, output |-> <<>>, inBlock |-> inBlock, partial |-> 0,
     acc |-> HashOf(Zeros, aad), length |-> 0, done |-> FALSE]

SameObject == mode' = mode /\ decrypt' = decrypt

Nothing == [read |-> <<>>, written |-> <<>>, iv |-> Zeros]

(* The vector has a block at least, and the tag the length that was given. *)
Start(iv, aad, tagLength, t) ==
    /\ phase # "update"
    /\ mode \notin {"ECB", "GCM"} => Len(iv) >= Block
    /\ IF mode = "GCM" /\ decrypt THEN Len(t) = tagLength ELSE t = <<>>
    /\ s' = Fresh(IF mode = "GCM" THEN inc32(J0(iv)) ELSE BlockOf(iv),
                  IF mode = "GCM" THEN aad ELSE <<>>)
    /\ given' = [iv |-> First(iv), aad |-> aad, tagLength |-> tagLength, tag |-> t]
    /\ phase' = "idle"
    /\ result' = FALSE
    /\ tag' = <<>>
    /\ fed' = <<>> /\ drained' = <<>>
    /\ earlier' = [Nothing EXCEPT !.iv = First(iv)]
    /\ SameObject /\ UNCHANGED <<pad>>

(* What the message so far, with its padding if it is finished, has in     *)
(* whole blocks.                                                           *)
BlocksRead ==
    Whole(IF phase = "idle" THEN fed
          ELSE IF decrypt \/ pad = "none" THEN Filled(fed)
          ELSE WithPadding(fed))

(* Mutant: going on from the first vector. *)
ContinueFromIv ==
    /\ phase \in {"idle", "done"} /\ mode = "CBC"
    /\ s' = Fresh(given.iv, <<>>)
    /\ phase' = "idle"
    /\ result' = FALSE
    /\ fed' = <<>> /\ drained' = <<>>
    /\ Len(earlier.read) + Len(BlocksRead) =< MaxLen
    /\ earlier' = [earlier EXCEPT
                    !.read = @ \o BlocksRead,
                    !.written = @ \o Standard(mode, decrypt, given.iv, BlocksRead)]
    /\ SameObject /\ UNCHANGED <<pad, tag, given>>

(* CBC: start with the vector null goes on from the last block.            *)
Continue ==
    /\ phase \in {"idle", "done"} /\ mode = "CBC"
    /\ s' = Fresh(s.inBlock, <<>>)
    /\ given' = [given EXCEPT !.iv = s.inBlock]
    /\ phase' = "idle"
    /\ result' = FALSE
    /\ fed' = <<>> /\ drained' = <<>>
    /\ Len(earlier.read) + Len(BlocksRead) =< MaxLen
    /\ earlier' = [earlier EXCEPT
                    !.read = @ \o BlocksRead,
                    !.written = @ \o Standard(mode, decrypt, given.iv, BlocksRead)]
    /\ SameObject /\ UNCHANGED <<pad, tag>>

-----------------------------------------------------------------------------
(* Update                                                                  *)

(* update puts the piece into the input, and calls the mode ...            *)
Update(chunk) ==
    /\ phase = "idle"
    /\ Len(earlier.read) + Len(fed) + Len(chunk) =< MaxLen
    /\ s' = [s EXCEPT !.input = @ \o chunk]
    /\ fed' = fed \o chunk
    /\ phase' = "update"
    /\ SameObject /\ UNCHANGED <<given, pad, result, tag, drained, earlier>>

(* ... until it says that it is done.                                      *)
Step ==
    /\ phase = "update"
    /\ s' = op(mode, decrypt, s, FALSE)
    /\ phase' = IF s'.done THEN "idle" ELSE "update"
    /\ SameObject /\ UNCHANGED <<given, pad, result, tag, fed, drained, earlier>>

(* A caller takes what there is out of the output buffer, between two      *)
(* updates.  Bound: once in a message, and not in one that continues one.  *)
Drain ==
    /\ phase = "idle" /\ s.output # <<>>
    /\ drained = <<>> /\ earlier.read = <<>>
    /\ drained' = s.output
    /\ s' = [s EXCEPT !.output = <<>>]
    /\ SameObject /\ UNCHANGED <<given, pad, phase, result, tag, fed, earlier>>

-----------------------------------------------------------------------------
(* Finish                                                                  *)

(* Mutant: a whole block of padding is left out. *)
PadOfShort(input) ==
    LET n == IF Len(input) = 0 THEN 0 ELSE Block - Len(input)
    IN  input \o [i \in 1 .. n |-> n]

(* The padding of ECB and CBC.                                             *)
PadOf(input) ==
    LET n == IF Len(input) = Block THEN Block ELSE Block - Len(input)
    IN  input \o [i \in 1 .. n |-> n]

(* Mutant: only the last byte is looked at. *)
ValidPaddingLast(m) ==
    /\ Len(m) # 0 /\ Len(m) % Block = 0
    /\ m[Len(m)] \in 1 .. Block

(* validatePkcs7Padding, and how many bytes it takes off.                  *)
ValidPadding(m) ==
    /\ Len(m) # 0 /\ Len(m) % Block = 0
    /\ m[Len(m)] \in 1 .. Block
    /\ \A i \in Len(m) - m[Len(m)] + 1 .. Len(m) : m[i] = m[Len(m)]

Truncate(m, n) == Take(m, Len(m) - n)

PaddedInput == IF ~decrypt /\ mode \in Padded /\ pad' = "mode" THEN PadOf(s.input) ELSE s.input

FinishPadded(t, overflow) ==
    /\ IF decrypt /\ pad' = "mode"
       THEN LET ok == overflow = 0 /\ ValidPadding(t.output)
            IN  /\ result' = ok
                /\ s' = IF ok THEN [t EXCEPT !.output = Truncate(@, @[Len(@)])] ELSE t
       ELSE result' = TRUE /\ s' = t
    /\ UNCHANGED tag

(* Mutant: the lengths are left out of the tag. *)
TagOfNoLengths(t, lengths) ==
    LET full == t.acc ^^ Cipher[given.iv]
    IN  Truncate(full, Block % given.tagLength)

(* GcmMode.afterFinish.  The tag is cut to the length wanted.              *)
TagOf(t, lengths) ==
    LET full == ghash(t.acc, lengths) ^^ Cipher[given.iv]
    IN  Truncate(full, Block % given.tagLength)

(* Mutant: the padding of the last block stays in the output. *)
FinishGcmUncut(t, overflow) ==
    LET lengths == Lengths[Len(given.aad), t.length]
        ok == decrypt => TagOf(t, lengths) = given.tag
    IN  /\ tag' = TagOf(t, lengths)
        /\ result' = ok
        /\ s' = [t EXCEPT !.output = IF ok THEN @ ELSE <<>>,
                          !.acc = ghash(t.acc, lengths)]

(* Mutant: a wrong tag is noticed, but the output stays. *)
FinishGcmKeepsOutput(t, overflow) ==
    LET lengths == Lengths[Len(given.aad), t.length]
        ok == decrypt => TagOf(t, lengths) = given.tag
        cut == IF decrypt /\ overflow # 0 THEN Truncate(t.output, Block - overflow) ELSE t.output
    IN  /\ tag' = TagOf(t, lengths)
        /\ result' = ok
        /\ s' = [t EXCEPT !.output = cut, !.acc = ghash(t.acc, lengths)]

FinishGcm(t, overflow) ==
    LET lengths == Lengths[Len(given.aad), t.length]
        ok == decrypt => TagOf(t, lengths) = given.tag
        cut == IF decrypt /\ overflow # 0 THEN Truncate(t.output, Block - overflow) ELSE t.output
    IN  /\ tag' = TagOf(t, lengths)
        /\ result' = ok
        /\ s' = [t EXCEPT !.output = IF ok THEN cut ELSE <<>>,
                          !.acc = ghash(t.acc, lengths)]

(* finish: pad, call the mode once more, unpad, compute the tag.  A pad    *)
(* function that was given stays in the mode.                              *)
Finish(p) ==
    /\ phase = "idle"
    /\ pad' = IF p # "mode" /\ mode \in Padded THEN p ELSE pad
    /\ LET t == op(mode, decrypt, [s EXCEPT !.input = PaddedInput], TRUE)
           overflow == Len(s.input) % Block
       IN  CASE mode = "GCM" -> FinishGcm(t, overflow)
             [] mode \in Padded -> FinishPadded(t, overflow)
             [] OTHER -> result' = TRUE /\ s' = t /\ UNCHANGED tag
    /\ phase' = "done"
    /\ SameObject /\ UNCHANGED <<given, fed, drained, earlier>>

-----------------------------------------------------------------------------

ObjectStart(m, direction) ==
    /\ mode = m /\ decrypt = direction
    /\ s = Fresh(Zeros, <<>>)
    /\ given = [iv |-> Zeros, aad |-> <<>>, tagLength |-> 0, tag |-> <<>>]
    /\ pad = "mode"
    /\ phase = "new"
    /\ result = FALSE
    /\ tag = <<>>
    /\ fed = <<>> /\ drained = <<>>
    /\ earlier = Nothing

Init == \E m \in Modes, direction \in Directions : ObjectStart(m, direction)

Next ==
    \/ \E iv \in Ivs, aad \in AADs, n \in TagLengths, t \in Tags : Start(iv, aad, n, t)
    \/ Continue
    \/ \E chunk \in Chunks : Update(chunk)
    \/ Step
    \/ Drain
    \/ \E p \in Pads : Finish(p)

(* update is one synchronous call: its loop runs on.                       *)
Spec == Init /\ [][Next]_vars /\ WF_vars(Step)

-----------------------------------------------------------------------------
(* Properties                                                              *)

AllOutput == drained \o s.output

(* However the message is cut into pieces, whenever its output is taken,   *)
(* and whatever the object did before, what is put out is what the         *)
(* standard says of the message so far: all of it with a stream mode, the  *)
(* whole blocks with the others.                                           *)
PiecesDoNotMatter ==
    phase = "idle" =>
        AllOutput = Standard(mode, decrypt, given.iv,
                             IF Buffers(mode, decrypt) THEN Whole(fed) ELSE fed)

(* What the standard says of the padded message, without the padding.      *)
Wanted ==
    CASE mode \notin Padded -> Standard(mode, decrypt, given.iv, fed)
      [] mode \in Padded /\ pad = "none" -> Standard(mode, decrypt, given.iv, Filled(fed))
      [] mode \in Padded /\ pad # "none" /\ ~decrypt ->
            Standard(mode, decrypt, given.iv, WithPadding(fed))
      [] OTHER -> LET m == Standard(mode, decrypt, given.iv, fed)
                  IN  CHOOSE p \in {Take(m, n) : n \in 0 .. Len(m)} : WithPadding(p) = m

(* finish returns false for what is not whole blocks, for padding that is  *)
(* none or was taken out before, and for a tag that is not the message's;  *)
(* nothing more comes out of a message with a wrong tag, and what it       *)
(* accepts is the whole message.                                           *)
FinishIsWhole ==
    phase = "done" =>
        /\ decrypt /\ mode \in Padded /\ pad = "mode" =>
            LET m == Standard(mode, TRUE, given.iv, fed)
            IN  result <=> Len(fed) % Block = 0 /\ IsPadded(m) /\ Len(drained) < Len(m)
        /\ decrypt /\ mode = "GCM" =>
            /\ result <=> given.tag = Take(StandardTag(given.iv, given.aad, fed), given.tagLength)
            /\ ~result => s.output = <<>>
        /\ result => AllOutput = Wanted

(* The tag that encrypting gives is the standard's, cut to its length.     *)
TagIsStandard ==
    phase = "done" /\ mode = "GCM" /\ ~decrypt =>
        tag = Take(StandardTag(given.iv, given.aad, AllOutput), given.tagLength)

(* CBC messages that continue one another are one message to the standard. *)
ContinuedIsOne ==
    mode = "CBC" => earlier.written = Standard(mode, decrypt, earlier.iv, earlier.read)

(* The loop of update ends.                                                *)
UpdateEnds == phase = "update" ~> phase = "idle"
=============================================================================

----------------------------- MODULE MCCiphers -----------------------------
(* Either one object that is used again and again, or a cipher and its     *)
(* decipher; both on a cipher, a multiplication and an encoding of lengths *)
(* on blocks of a few two-bit bytes.  A block is taken as a number.        *)
EXTENDS BlockCipher, TLC

CONSTANT Plain       \* the bytes that messages are made of

AsNumber(b) == FoldLeft(LAMBDA x, y : 4 * x + y, 0, b)
AsBlock(n) == [i \in 1 .. Block |-> (n \div (4 ^ (Block - i))) % 4]
Size == 4 ^ Block

(* An odd multiple and an even square make a permutation.                  *)
MCCipher == [b \in Blocks |-> AsBlock(((2 * (AsNumber(b) ^ 2)) + (5 * AsNumber(b)) + 7) % Size)]
MCDecipher == [c \in Blocks |-> CHOOSE b \in Blocks : MCCipher[b] = c]
MCTimesH == [b \in Blocks |-> AsBlock((11 * AsNumber(b)) % Size)]
MCLengths == [n, m \in 0 .. 15 |-> AsBlock((5 * n + 3 * m) % Size)]

Messages(from, to) == UNION {[1 .. k -> Plain] : k \in from .. to}
Pieces2 == Messages(1, 2)
SomePieces == {<<>>, <<3>>, <<3, 0>>, <<0, 3>>, <<0, 0, 3>>, <<3, 0, 3, 3>>}

TwoIvs == {[i \in 1 .. Block |-> (i * i) % 4], <<2, 3>>}
NoAAD == {<<>>}
TwoAADs == {<<>>, <<3, 0, 2, 1>>}
NoTag == {<<>>}
FewTags == NoTag \cup {<<0, 0>>, <<0, 2>>, <<1, 0>>, <<2, 3>>}

-----------------------------------------------------------------------------

VARIABLES opts, es, egiven, epad, ephase, eresult, etag, efed, edrained, eearlier,
          ds, dgiven, dpad, dphase, dresult, dtag, dfed, ddrained, dearlier, sent, pairMode

pairVars == <<opts, es, egiven, epad, ephase, eresult, etag, efed, edrained, eearlier,
              ds, dgiven, dpad, dphase, dresult, dtag, dfed, ddrained, dearlier, sent, pairMode>>

Pair == INSTANCE CipherPair WITH
            mode <- pairMode, Chunks <- Pieces2, TagLengths <- {2, 3}, Sizes <- {1, 4}

NoPair == Pair!PairStart("ECB", [iv |-> Zeros, aad |-> <<>>, tagLength |-> 0, pad |-> "mode"])

VARIABLE paired

MCInit ==
    \/ paired = FALSE /\ Init /\ NoPair
    \/ paired = TRUE /\ ObjectStart("ECB", FALSE) /\ Pair!Init

MCNext ==
    /\ UNCHANGED paired
    /\ \/ ~paired /\ Next /\ UNCHANGED pairVars
       \/ paired /\ Pair!Next /\ UNCHANGED vars

MCSpec == MCInit /\ [][MCNext]_<<paired, vars, pairVars>> /\ WF_vars(Step)

(* What arrives is what was sent, or is refused.                           *)
OnlyTheSentIsAccepted == Pair!OnlyTheSentIsAccepted

(* The tag of a cipher has the tagLength that it was started with, so that *)
(* a decipher accepts it (the check of GcmMode.ts:67-69).                  *)
TagHasTagLength == Pair!TagHasTagLength
=============================================================================

--------------------------- MODULE MessageDigest ---------------------------
(***************************************************************************)
(* A message digest object: start, update and digest of MD5, SHA-1, the    *)
(* SHA-256 and the SHA-512 families.  They differ in the size of a block   *)
(* and of the length, and in the order the length is written in.           *)
(*                                                                         *)
(* The compression function is free: the running state is the sequence of  *)
(* blocks compressed so far, so that two hashes are the same exactly when  *)
(* their blocks are.  Bytes of the message are told apart by their place.  *)
(***************************************************************************)
EXTENDS Powers, Sequences

CONSTANTS
    Algorithms, \* the algorithms to try, of the four below
    ShortBlock, \* 64
    LongBlock,  \* 128
    WordSize,   \* 2^32, at which the words of the length wrap
    ByteBits,   \* 8, the bits of a byte
    PieceSizes, \* the lengths of the pieces update is given
    MaxMessage  \* bound: the bytes of a message

Md5 == [name |-> "md5", block |-> ShortBlock, words |-> 2, littleEndian |-> TRUE]
Sha1 == [name |-> "sha1", block |-> ShortBlock, words |-> 2, littleEndian |-> FALSE]
Sha256 == [name |-> "sha256", block |-> ShortBlock, words |-> 2, littleEndian |-> FALSE]
Sha512 == [name |-> "sha512", block |-> LongBlock, words |-> 4, littleEndian |-> FALSE]

(* A word of the length fills one byte here: WordSize stands for the size  *)
(* of a word and of the field it is written to.  Blocks divide words, and  *)
(* bytes have a power of two bits.                                         *)
ASSUME DigestAssumption ==
    /\ Algorithms \subseteq {Md5, Sha1, Sha256, Sha512}
    /\ {ShortBlock, LongBlock, WordSize, ByteBits} \subseteq Nat \ {0}
    /\ 2 =< ShortBlock /\ 4 =< LongBlock
    /\ WordSize % ShortBlock = 0 /\ WordSize % LongBlock = 0
    /\ WordSize % ByteBits = 0
    /\ PieceSizes \subseteq 0 .. WordSize - 1
    /\ MaxMessage \in Nat

VARIABLES
    algorithm,         \* the object's algorithm
    fullMessageLength, \* the words of the length in bytes, the highest first
    input,             \* the bytes that do not fill a block yet
    chain,             \* the blocks that were compressed
    output,            \* what digest returned since the last update
    message            \* observation: what update got since the start

digestVars == <<algorithm, fullMessageLength, input, chain, output, message>>

-----------------------------------------------------------------------------
(* Blocks                                                                  *)

Blocks(size, bytes) ==
    [b \in 1 .. Len(bytes) \div size |-> SubSeq(bytes, ((b - 1) * size) + 1, b * size)]

Rest(size, bytes) == SubSeq(bytes, (Len(bytes) - (Len(bytes) % size)) + 1, Len(bytes))

-----------------------------------------------------------------------------
(* Lengths                                                                 *)

Words == 1 .. algorithm.words

(* Mutant: the carry is dropped. *)
LengthAfterNoCarry(n) ==
    [fullMessageLength EXCEPT ![algorithm.words] = (@ + n) % WordSize]

(* The length after n more bytes, with the carry from word to word.        *)
LengthAfter(n) ==
    LET into[w \in Words] ==
            IF w = algorithm.words THEN n
            ELSE (fullMessageLength[w + 1] + into[w + 1]) \div WordSize
    IN  [w \in Words |-> (fullMessageLength[w] + into[w]) % WordSize]

(* The length in bits, as the SHA family writes it: the bits that leave a  *)
(* word are added to the one before.                                       *)
LengthBigEndian ==
    [w \in Words |->
        (fullMessageLength[w] * ByteBits
            + IF w = algorithm.words THEN 0
              ELSE (fullMessageLength[w + 1] * ByteBits) \div WordSize) % WordSize]

(* The same as MD5 writes it, from the last word to the first.             *)
LengthLittleEndian ==
    LET bits[w \in Words] ==
            fullMessageLength[w] * ByteBits
                + IF w = algorithm.words THEN 0 ELSE bits[w + 1] \div WordSize
    IN  [w \in Words |-> bits[algorithm.words + 1 - w] % WordSize]

LengthField ==
    LET words == IF algorithm.littleEndian THEN LengthLittleEndian ELSE LengthBigEndian
    IN  [w \in Words |-> <<"length", words[w]>>]

-----------------------------------------------------------------------------
(* Padding                                                                 *)

(* As many bytes as bring the message and its length to whole blocks, one  *)
(* at least; from the lowest word of the length alone.                     *)
PaddingLength ==
    algorithm.block
        - ((fullMessageLength[algorithm.words] + algorithm.words) % algorithm.block)

Padding(n) == [i \in 1 .. n |-> IF i = 1 THEN <<"0x80">> ELSE <<"0x00">>]

FinalBlock == input \o Padding(PaddingLength) \o LengthField

-----------------------------------------------------------------------------
(* The object                                                              *)

DigestStart(a) ==
    /\ algorithm = a
    /\ fullMessageLength = [w \in Words |-> 0]
    /\ input = <<>>
    /\ chain = <<>>
    /\ output = <<>>
    /\ message = <<>>

DigestInit == \E a \in Algorithms : DigestStart(a)

Start ==
    /\ fullMessageLength' = [w \in Words |-> 0]
    /\ input' = <<>>
    /\ chain' = <<>>
    /\ output' = <<>>
    /\ message' = <<>>
    /\ UNCHANGED algorithm

(* The n bytes of a message after its first `from'. *)
Piece(from, n) == [i \in 1 .. n |-> <<"byte", from + i>>]

Update(n) ==
    /\ Len(message) + n =< MaxMessage
    /\ fullMessageLength' = LengthAfter(n)
    /\ LET bytes == input \o Piece(Len(message), n)
       IN  /\ chain' = chain \o Blocks(algorithm.block, bytes)
           /\ input' = Rest(algorithm.block, bytes)
    /\ output' = <<>>
    /\ message' = message \o Piece(Len(message), n)
    /\ UNCHANGED algorithm

(* The final blocks are compressed in a copy of the running state.         *)
Digest ==
    /\ output' = chain \o Blocks(algorithm.block, FinalBlock)
    /\ UNCHANGED <<algorithm, fullMessageLength, input, chain, message>>

DigestNext == Start \/ Digest \/ \E n \in PieceSizes : Update(n)

DigestSpec == DigestInit /\ [][DigestNext]_digestVars

-----------------------------------------------------------------------------
(* Reference: the hash of a message in one piece.  The padding is the      *)
(* shortest that gives whole blocks, the length a number in base WordSize. *)

StandardLength(a, n) ==
    LET digit(w) == ((n * ByteBits) \div PowersOf(WordSize)[w]) % WordSize
    IN  [w \in 1 .. a.words |->
            <<"length", digit(IF a.littleEndian THEN w - 1 ELSE a.words - w)>>]

StandardHash(a, m) ==
    LET shortest == CHOOSE k \in 1 .. a.block : (Len(m) + k + a.words) % a.block = 0
    IN  Blocks(a.block, m \o Padding(shortest) \o StandardLength(a, Len(m)))

-----------------------------------------------------------------------------
(* Properties                                                              *)

Concatenated ==
    [i \in 1 .. (Len(chain) * algorithm.block) + Len(input) |->
        IF i > Len(chain) * algorithm.block
        THEN input[i - (Len(chain) * algorithm.block)]
        ELSE chain[((i - 1) \div algorithm.block) + 1][((i - 1) % algorithm.block) + 1]]

HashOfMessage ==
    INSTANCE AbstractDigest WITH
        message <- Concatenated,
        Pieces <- LAMBDA from : {Piece(from, n) : n \in PieceSizes},
        Hash <- StandardHash

(* A digest object is a hash function: digest gives the standard's hash of *)
(* all that update got since the start, for any pieces, with the length of *)
(* the message wrapping as the standard says; and asking for it changes    *)
(* nothing.                                                                *)
RefinesHash == HashOfMessage!Spec
=============================================================================

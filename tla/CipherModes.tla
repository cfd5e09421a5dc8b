---------------------------- MODULE CipherModes ----------------------------
(***************************************************************************)
(* The modes of operation: what one call of a mode's encrypt or decrypt    *)
(* does to the input and output buffers and to the mode's own state, and   *)
(* what the standards say the mode computes.                               *)
(*                                                                         *)
(* Bytes have two bits and blocks few bytes, so that every message can be  *)
(* tried.  The cipher and the field multiplication are any functions on    *)
(* blocks.                                                                 *)
(***************************************************************************)
EXTENDS Powers, SequencesExt

CONSTANTS
    Block,        \* blockSize, in bytes
    CounterBytes, \* 4, the bytes that inc32 increments, the last ones
    Cipher,       \* Cipher[b]: block b encrypted
    Decipher,     \* Decipher[b]: block b decrypted
    TimesH,       \* TimesH[b]: b multiplied by the hash subkey
    Lengths       \* Lengths[a, c]: the block that gives two lengths

Byte == 0 .. 3
Blocks == [1 .. Block -> Byte]
Zeros == [i \in 1 .. Block |-> 0]

ASSUME CipherAssumption ==
    /\ Block \in Nat \ {0}
    /\ CounterBytes \in 1 .. Block
    /\ Cipher \in [Blocks -> Blocks] /\ Decipher \in [Blocks -> Blocks]
    /\ \A b \in Blocks : Decipher[Cipher[b]] = b
    /\ TimesH \in [Blocks -> Blocks]

Streams == {"CFB", "OFB", "CTR", "GCM"}
Padded == {"ECB", "CBC"}

XorByte(a, b) == ((((a \div 2) + (b \div 2)) % 2) * 2) + ((a + b) % 2)
a ^^ b == [i \in 1 .. Block |-> XorByte(a[i], b[i])]

Drop(s, n) == SubSeq(s, n + 1, Len(s))
Take(s, n) == IF n >= Len(s) THEN s ELSE SubSeq(s, 1, n)

(* A block read off a buffer; what is missing at its end reads as 0.       *)
BlockOf(s) == [i \in 1 .. Block |-> IF i =< Len(s) THEN s[i] ELSE 0]

(* inc32: the last bytes are a number that wraps.                          *)
Carry(b, i) == \A j \in i + 1 .. Block : b[j] = 3
inc32(b) == [i \in 1 .. Block |->
                IF i > Block - CounterBytes /\ Carry(b, i) THEN (b[i] + 1) % 4 ELSE b[i]]

ghash(acc, b) == TimesH[acc ^^ b]

-----------------------------------------------------------------------------
(* One call of encrypt or decrypt.  A mode's state s has                   *)
(*   input, output   the buffers                                           *)
(*   inBlock         _inBlock, for CBC _prev                               *)
(*   partial         _partialBytes: how much of input was already put out  *)
(*   acc, length     _ghashState and _cipherLength, for GCM                *)
(*   done            whether the call returned true                        *)

(* ECB and CBC, and GCM's decrypt, wait for a block, or for the rest at    *)
(* the finish.                                                             *)
Waits(s, finish) == Len(s.input) < Block /\ ~(finish /\ Len(s.input) > 0)

EcbStep(s, decrypt) ==
    LET in == BlockOf(s.input)
    IN  [s EXCEPT !.input = Drop(s.input, Block),
                  !.output = @ \o (IF decrypt THEN Decipher[in] ELSE Cipher[in])]

(* Mutant: decrypting chains the plaintext. *)
CbcStepChainsOutput(s, decrypt) ==
    LET in == BlockOf(s.input)
        out == IF decrypt THEN s.inBlock ^^ Decipher[in] ELSE Cipher[s.inBlock ^^ in]
    IN  [s EXCEPT !.input = Drop(s.input, Block), !.output = @ \o out, !.inBlock = out]

CbcStep(s, decrypt) ==
    LET in == BlockOf(s.input)
        out == IF decrypt THEN s.inBlock ^^ Decipher[in] ELSE Cipher[s.inBlock ^^ in]
    IN  [s EXCEPT !.input = Drop(s.input, Block),
                  !.output = @ \o out,
                  !.inBlock = IF decrypt THEN in ELSE out]

(* Mutant: the counter stays for the next block. *)
GcmDecryptStepOneKey(s) ==
    LET in == BlockOf(s.input)
    IN  [s EXCEPT !.input = Drop(s.input, Block),
                  !.output = @ \o (Cipher[s.inBlock] ^^ in),
                  !.acc = ghash(s.acc, in),
                  !.length = @ + (IF Len(s.input) < Block THEN Len(s.input) ELSE Block)]

GcmDecryptStep(s) ==
    LET in == BlockOf(s.input)
    IN  [s EXCEPT !.input = Drop(s.input, Block),
                  !.output = @ \o (Cipher[s.inBlock] ^^ in),
                  !.inBlock = inc32(s.inBlock),
                  !.acc = ghash(s.acc, in),
                  !.length = @ + (IF Len(s.input) < Block THEN Len(s.input) ELSE Block)]

(* Mutant: feedback of an input that was not encrypted. *)
FeedbackOfInput(mode, decrypt, s, in, out) ==
    IF mode = "OFB" THEN out ELSE IF mode = "CFB" THEN in ELSE inc32(s.inBlock)

(* CFB, OFB, CTR and GCM's encrypt: what the next block is made from.      *)
Feedback(mode, decrypt, s, in, out) ==
    CASE mode = "CFB" -> IF decrypt THEN in ELSE in ^^ out
      [] mode = "OFB" -> out
      [] OTHER -> inc32(s.inBlock)

(* With a whole block, and nothing of it put out before.                   *)
WholeBlock(mode, decrypt, s, in, out) ==
    [s EXCEPT !.input = Drop(s.input, Block),
              !.output = @ \o (in ^^ out),
              !.inBlock = Feedback(mode, decrypt, s, in, out),
              !.acc = IF mode = "GCM" THEN ghash(s.acc, in ^^ out) ELSE s.acc,
              !.length = IF mode = "GCM" THEN @ + Block ELSE @]

(* Mutant: the part put out before is put out again. *)
PartOfBlockAgain(s, in, out) ==
    [s EXCEPT !.output = @ \o SubSeq(in ^^ out, 1, Len(s.input)),
              !.partial = Len(s.input),
              !.done = TRUE]

(* Mutant: the loop of update is not told that the mode waits. *)
PartOfBlockLoops(s, in, out) ==
    [s EXCEPT !.output = @ \o SubSeq(in ^^ out, s.partial + 1, Len(s.input)),
              !.partial = Len(s.input)]

(* With less than a block, before the finish: what is new of it goes out,  *)
(* and all of it stays in the input.                                       *)
PartOfBlock(s, in, out) ==
    [s EXCEPT !.output = @ \o SubSeq(in ^^ out, s.partial + 1, Len(s.input)),
              !.partial = Len(s.input),
              !.done = TRUE]

(* Mutant: the rest of the block is not cut to the input. *)
NewBytesUncut(s, all) == Drop(all, s.partial)

(* What was not put out before of the block, as far as there is input.     *)
NewBytes(s, all) == Take(Drop(all, s.partial), Len(s.input) - s.partial)

(* The rest of a block that was begun, or what there is at the finish.     *)
RestOfBlock(mode, decrypt, s, in, out, finish) ==
    LET short == Len(s.input) < Block
        all == in ^^ out
        hashed == IF finish THEN Take(all, Len(s.input) % Block) ELSE all
    IN  [s EXCEPT !.input = IF short /\ mode # "GCM" THEN @ ELSE Drop(@, Block),
                  !.output = @ \o NewBytes(s, IF mode = "GCM" THEN hashed ELSE all),
                  !.partial = 0,
                  !.inBlock = IF short /\ mode \in {"CFB", "OFB"} THEN @
                              ELSE Feedback(mode, decrypt, s, in, out),
                  !.acc = IF mode = "GCM" THEN ghash(s.acc, BlockOf(hashed)) ELSE s.acc,
                  !.length = IF mode = "GCM" THEN @ + Len(hashed) ELSE @]

StreamStep(mode, decrypt, s, finish) ==
    LET in == BlockOf(s.input)
        out == Cipher[s.inBlock]
    IN  IF s.partial = 0 /\ Len(s.input) >= Block
        THEN WholeBlock(mode, decrypt, s, in, out)
        ELSE IF Len(s.input) < Block /\ ~finish
        THEN PartOfBlock(s, in, out)
        ELSE RestOfBlock(mode, decrypt, s, in, out, finish)

Buffers(mode, decrypt) == mode \in Padded \/ (mode = "GCM" /\ decrypt)

op(mode, decrypt, state, finish) ==
    LET s == [state EXCEPT !.done = FALSE]
    IN  IF IF Buffers(mode, decrypt) THEN Waits(s, finish) ELSE s.input = <<>>
        THEN [s EXCEPT !.done = TRUE]
        ELSE CASE mode = "ECB" -> EcbStep(s, decrypt)
               [] mode = "CBC" -> CbcStep(s, decrypt)
               [] mode = "GCM" /\ decrypt -> GcmDecryptStep(s)
               [] OTHER -> StreamStep(mode, decrypt, s, finish)

-----------------------------------------------------------------------------
(* What the standards say (FIPS 81, SP 800-38A and 38D, PKCS #7)           *)

Count(m) == (Len(m) + Block - 1) \div Block
Nth(m, k) == BlockOf(Drop(m, (k - 1) * Block))
Whole(m) == Take(m, Len(m) - (Len(m) % Block))
Joined(f, n) == [i \in 1 .. n |-> f[((i - 1) \div Block) + 1][((i - 1) % Block) + 1]]

(* Counters are added as numbers, of which each byte is a digit.           *)
Number(b) ==
    LET n[i \in 0 .. Block] ==
            IF i =< Block - CounterBytes THEN 0 ELSE (4 * n[i - 1]) + b[i]
    IN  n[Block]
Counter(iv, k) ==
    [i \in 1 .. Block |-> IF i =< Block - CounterBytes THEN iv[i]
                          ELSE ((Number(iv) + k) \div PowersOf(4)[Block - i]) % 4]

(* C_j of CBC and CFB, and O_j of OFB; the vector is C_0 and O_0.          *)
Chained(mode, decrypt, iv, m) ==
    LET chain[k \in 0 .. Count(m)] ==
            IF k = 0 THEN iv
            ELSE CASE mode = "OFB" -> Cipher[chain[k - 1]]
                   [] mode = "CBC" /\ ~decrypt -> Cipher[Nth(m, k) ^^ chain[k - 1]]
                   [] mode = "CFB" /\ ~decrypt -> Nth(m, k) ^^ Cipher[chain[k - 1]]
                   [] OTHER -> Nth(m, k)
    IN  chain

(* A block of the result, of which the last may be more than is wanted.    *)
StandardBlock(mode, decrypt, iv, m, k) ==
    LET in == Nth(m, k)
        before == Chained(mode, decrypt, iv, m)[k - 1]
    IN  CASE mode = "ECB" -> IF decrypt THEN Decipher[in] ELSE Cipher[in]
          [] mode = "CBC" -> IF decrypt THEN Decipher[in] ^^ before ELSE Cipher[in ^^ before]
          [] mode = "CTR" -> in ^^ Cipher[Counter(iv, k - 1)]
          [] mode = "GCM" -> in ^^ Cipher[Counter(iv, k)]
          [] OTHER -> in ^^ Cipher[before]

(* The standard's result for whole blocks m with ECB and CBC, and for any  *)
(* m with the others.                                                      *)
Standard(mode, decrypt, iv, m) ==
    Joined([k \in 1 .. Count(m) |-> StandardBlock(mode, decrypt, iv, m, k)], Len(m))

WithPadding(m) ==
    LET n == Block - (Len(m) % Block)
    IN  m \o [i \in 1 .. n |-> n]

(* m with zeros up to a whole block.                                       *)
Filled(m) == Joined([k \in 1 .. Count(m) |-> Nth(m, k)], Count(m) * Block)

EndsWith(m, n) == n =< Len(m) /\ \A i \in Len(m) - n + 1 .. Len(m) : m[i] = n
IsPadded(m) == Len(m) % Block = 0 /\ \E n \in 1 .. Block : EndsWith(m, n)

Hashes(acc, m) ==
    LET hash[k \in 0 .. Count(m)] == IF k = 0 THEN acc ELSE TimesH[hash[k - 1] ^^ Nth(m, k)]
    IN  hash
HashOf(acc, m) == Hashes(acc, m)[Count(m)]

StandardTag(j0, aad, c) ==
    TimesH[HashOf(HashOf(Zeros, aad), c) ^^ Lengths[Len(aad), Len(c)]] ^^ Cipher[j0]
=============================================================================

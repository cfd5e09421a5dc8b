----------------------------- MODULE CipherPair -----------------------------
(***************************************************************************)
(* A cipher and a decipher of the same key and options: the message goes   *)
(* into the one in pieces, and what comes out goes into the other in other *)
(* pieces, with GCM perhaps after a byte of it was changed.                 *)
(***************************************************************************)
EXTENDS CipherModes

CONSTANTS
    Modes, Ivs, Chunks, AADs, TagLengths, Pads, MaxLen, \* as in BlockCipher
    Sizes      \* the numbers of bytes that the decipher is given at once

VARIABLES
    mode,
    opts,      \* the options both objects are started with, and their pad function
    es, egiven, epad, ephase, eresult, etag, efed, edrained, eearlier,   \* the cipher
    ds, dgiven, dpad, dphase, dresult, dtag, dfed, ddrained, dearlier,   \* the decipher
    sent       \* what the decipher gets of the cipher's output

evars == <<es, egiven, epad, ephase, eresult, etag, efed, edrained, eearlier>>
dvars == <<ds, dgiven, dpad, dphase, dresult, dtag, dfed, ddrained, dearlier>>
vars == <<mode, opts, evars, dvars, sent>>

E == INSTANCE BlockCipher WITH
        Directions <- {FALSE}, Tags <- {<<>>}, decrypt <- FALSE,
        s <- es, given <- egiven, pad <- epad, phase <- ephase, result <- eresult,
        tag <- etag, fed <- efed, drained <- edrained, earlier <- eearlier

D == INSTANCE BlockCipher WITH
        Directions <- {TRUE}, Tags <- {<<>>}, decrypt <- TRUE,
        s <- ds, given <- dgiven, pad <- dpad, phase <- dphase, result <- dresult,
        tag <- dtag, fed <- dfed, drained <- ddrained, earlier <- dearlier

PairStart(m, options) ==
    /\ E!ObjectStart(m, FALSE) /\ D!ObjectStart(m, TRUE)
    /\ opts = options
    /\ sent = <<>>

Init ==
    \E m \in Modes, options \in [iv : Ivs, aad : AADs, tagLength : TagLengths, pad : Pads] :
        /\ m # "GCM" => options.aad = <<>>
        /\ PairStart(m, options)

StartCipher ==
    /\ ephase = "new"
    /\ E!Start(opts.iv, opts.aad, opts.tagLength, <<>>)
    /\ UNCHANGED <<opts, dvars, sent>>

Encrypt ==
    /\ \/ \E chunk \in Chunks : E!Update(chunk)
       \/ E!Step
       \/ E!Finish(opts.pad)
    /\ UNCHANGED <<opts, dvars, sent>>

OneByteChanged(c) ==
    UNION {{[c EXCEPT ![i] = b] : b \in Byte} : i \in 1 .. Len(c)}

(* The decipher is started with the tag that the cipher gave.              *)
Send ==
    /\ ephase = "done" /\ dphase = "new"
    /\ D!Start(opts.iv, opts.aad, opts.tagLength, etag)
    /\ sent' \in {es.output} \cup (IF mode = "GCM" THEN OneByteChanged(es.output) ELSE {})
    /\ UNCHANGED <<opts, evars>>

Unread == Drop(sent, Len(dfed))

Decrypt ==
    /\ \/ \E n \in Sizes : n =< Len(Unread) /\ D!Update(Take(Unread, n))
       \/ D!Step
       \/ Unread = <<>> /\ D!Finish(opts.pad)
    /\ UNCHANGED <<opts, evars, sent>>

Next == StartCipher \/ Encrypt \/ Send \/ Decrypt

Spec == Init /\ [][Next]_vars

-----------------------------------------------------------------------------
(* Properties                                                              *)

(* What was encrypted is decrypted again, and found valid, however the     *)
(* two objects were given it; and with a whole tag, GCM refuses a message  *)
(* of which one byte was changed, and keeps what it decrypted of it to     *)
(* itself.                                                                 *)
OnlyTheSentIsAccepted ==
    dphase = "done" =>
        /\ sent = es.output =>
            /\ dresult
            /\ ds.output = IF mode \in Padded /\ opts.pad = "none" THEN Filled(efed) ELSE efed
        /\ mode = "GCM" /\ opts.tagLength = Block /\ sent # es.output =>
            ~dresult /\ ds.output = <<>>

(* The tag of a cipher has the tagLength it was started with, so that a    *)
(* decipher accepts it (the check of GcmMode.ts:67-69).                    *)
TagHasTagLength ==
    ephase = "done" /\ mode = "GCM" => Len(etag) = opts.tagLength
=============================================================================

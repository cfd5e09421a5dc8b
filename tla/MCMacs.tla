------------------------------- MODULE MCMacs -------------------------------
(* One of three programs: one with a digest object, one with HMAC contexts *)
(* and one with key derivations.                                           *)
EXTENDS MessageDigest, Hmac, Pbkdf2, TLC

AllAlgorithms == {Md5, Sha1, Sha256, Sha512}

CONSTANTS o1, o2, c1, c2, b1, d1, d2

TwoObjects == {o1, o2}
MCAlgorithm == [o \in TwoObjects |-> IF o = o1 THEN "short" ELSE "long"]
MCBlockLength == [short |-> 2, long |-> 3]
MCDigestLength == [short |-> 1, long |-> 1]
MCdigestLength == [short |-> 2, long |-> 3]

-----------------------------------------------------------------------------
(* HMAC contexts                                                           *)

TwoContexts == {c1, c2}
OneBuffer == {b1}

(* A key that fits a block, and one that fits the longer block alone.      *)
MCStrings == {<<<<"k">>>>, <<<<"l">>, <<"l">>, <<"l">>>>}

MCMessages == {<<<<"x">>>>}

-----------------------------------------------------------------------------
(* Derivations                                                             *)

TwoDerivations == {d1, d2}

Call(o, password, count, length) ==
    [object |-> o, password |-> password, salt |-> <<<<"s">>>>,
     iterationCount |-> count, dkLen |-> length]

(* The password of three bytes is longer than a block of the first object's. *)
MCRequests ==
    {Call(o1, <<<<"q">>, <<"q">>, <<"q">>>>, count, length) :
            count \in {0, 1, 3}, length \in {0, 2, 3}}
        \cup {Call(o2, <<<<"p">>>>, 2, length) : length \in {1, 4}}

MCUses == {<<<<"x">>>>}

-----------------------------------------------------------------------------

VARIABLE program

vars == <<program, digestVars, hmacVars, derivationVars>>

NoKey == [b \in OneBuffer |-> <<<<"k">>>>]

Init ==
    /\ DerivationInit
    /\ \/ program = "digest" /\ DigestInit /\ HmacStart(NoKey)
       \/ program = "hmac" /\ DigestStart(Md5) /\ HmacInit
       \/ program = "derivation" /\ DigestStart(Md5) /\ HmacStart(NoKey)

(* Contexts and derivations are not mixed: another derivation, or a use of *)
(* the object, disturbs a context no differently than another context.     *)
Next ==
    /\ UNCHANGED program
    /\ \/ program = "digest" /\ DigestNext /\ UNCHANGED <<hmacVars, derivationVars>>
       \/ program = "hmac" /\ HmacNext /\ UNCHANGED <<digestVars, run, answer>>
       \/ /\ program = "derivation" /\ DerivationNext
          /\ UNCHANGED <<digestVars, buffers, md, key, opadding, mac, keyed, begun>>

Spec == Init /\ [][Next]_vars

ContextSymmetry == Permutations(TwoContexts)
=============================================================================

------------------------------- MODULE Pbkdf2 -------------------------------
(***************************************************************************)
(* Key derivation with PBKDF2, in the library's own code.  An asynchronous *)
(* derivation computes one HMAC per turn of the event loop, and a whole    *)
(* block's first two at its start; each has an HMAC context of its own,    *)
(* but the digest object may be the caller's, shared with other            *)
(* derivations and with the caller's own use between two turns.            *)
(***************************************************************************)
EXTENDS HmacTerms, FiniteSets

CONSTANTS
    Derivations, \* the asynchronous calls that can be pending at once
    digestLength,\* digestLength[a]: the bytes of a hash, that is one term here
    Requests,    \* what callers ask for: object, password, salt,
                 \* iterationCount and dkLen
    Uses         \* the messages callers leave in their digest objects

ASSUME Pbkdf2Assumption ==
    /\ \A req \in Requests :
        req.object \in Objects /\ {req.iterationCount, req.dkLen} \subseteq Nat
    /\ \A o \in Objects :
        /\ Algorithm[o] \in DOMAIN BlockLength
        /\ digestLength[Algorithm[o]] \in Nat \ {0}
        /\ DigestLength[Algorithm[o]] = 1

VARIABLES
    run,     \* run[d]: the variables of a derivation between two turns
    answer   \* what the last step, a callback, delivered and for what, or None

derivationVars == <<digests, run, answer>>

-----------------------------------------------------------------------------
(* A hash is one term here, of digestLength bytes.  A sum of hashes is the *)
(* set of its terms, added by symmetric difference.                        *)
xorBytes(x, u) == (x \ {u}) \cup ({u} \ x)

int32ToBytes(i) == <<<<"index", i>>>>

-----------------------------------------------------------------------------
(* A derivation                                                            *)

HLen(r) == digestLength[Algorithm[r.request.object]]

(* Rounded up.                                                             *)
BlockCount(r) == (r.request.dkLen + HLen(r) - 1) \div HLen(r)

FinalBlockLength(r) == r.request.dkLen - ((BlockCount(r) - 1) * HLen(r))

(* Mutant: prf.start is forgotten, the text goes to what the object has. *)
LeftByMacGoingOn(r, text) ==
    LET a == Algorithm[r.request.object]
    IN  OPad(a, r.key) \o Hash(a, r.message \o text)

(* prf.start(null, null), update and digest: the object starts again with  *)
(* the kept key, whatever it had, and is left with the outer message.      *)
LeftByMac(r, text) ==
    LET a == Algorithm[r.request.object]
        fitting == Fitting(a, r.key)
    IN  OPad(a, fitting) \o Hash(a, IPad(a, fitting) \o text)

Mac(r, text) == Hash(Algorithm[r.request.object], LeftByMac(r, text))[1]

(* The first HMAC of a block.                                              *)
FirstText(r) == r.request.salt \o int32ToBytes(r.index)

WithFirst(r) ==
    LET u == Mac(r, FirstText(r))
    IN  [r EXCEPT !.previousU = u,
                  !.xor = {u},
                  !.message = LeftByMac(r, FirstText(r)),
                  !.innerIndex = 2]

MoreToDo(r) == r.innerIndex =< r.request.iterationCount

WithNext(r) ==
    LET u == Mac(r, <<r.previousU>>)
    IN  [r EXCEPT !.previousU = u,
                  !.xor = xorBytes(@, u),
                  !.message = LeftByMac(r, <<r.previousU>>),
                  !.innerIndex = @ + 1]

(* The last block is cut.                                                  *)
WithBlock(r) ==
    [r EXCEPT !.derivedKeyBytes =
                  Append(@, [sum |-> r.xor,
                             bytes |-> IF r.index < BlockCount(r) THEN HLen(r)
                                       ELSE FinalBlockLength(r)]),
              !.index = @ + 1]

(* The derivation as inner finds it at a block and the blocks after it, if *)
(* outer and inner go from one to the next.                                *)
AtBlock(r) ==
    LET block[i \in r.index .. BlockCount(r)] ==
            IF i = r.index THEN r ELSE WithFirst(WithBlock(block[i - 1]))
    IN  block

(* outer and inner call each other until inner gives way to the event loop *)
(* in a block, or outer calls back after the last one.                     *)
Inner(r) ==
    LET block == AtBlock(r)
        last == CHOOSE i \in DOMAIN block :
                    /\ MoreToDo(block[i]) \/ i = BlockCount(r)
                    /\ \A j \in r.index .. i - 1 : ~ MoreToDo(block[j])
    IN  IF MoreToDo(block[last]) THEN [WithNext(block[last]) EXCEPT !.queued = TRUE]
        ELSE [WithBlock(block[last]) EXCEPT !.queued = FALSE]

(* prf.start with the password, then the first turn.                       *)
Begun(req) ==
    Inner(WithFirst(
        [request |-> req,
         key |-> Fitting(Algorithm[req.object], req.password), message |-> digests[req.object],
         index |-> 1, innerIndex |-> 2, xor |-> {}, previousU |-> <<>>,
         derivedKeyBytes |-> <<>>, queued |-> TRUE]))

Idle == [queued |-> FALSE]

DerivationInit ==
    /\ digests = [o \in Objects |-> <<>>]
    /\ run = [d \in Derivations |-> Idle]
    /\ answer = None

(* What a turn that leaves r behind does: it waits, or it calls back.      *)
After(d, r) ==
    /\ digests' = [digests EXCEPT ![r.request.object] = r.message]
    /\ run' = [run EXCEPT ![d] = IF r.queued THEN r ELSE Idle]
    /\ answer' = IF r.queued THEN None
                 ELSE [request |-> r.request, key |-> r.derivedKeyBytes]

Refused(req) == req.iterationCount < 1 \/ req.dkLen < 1

(* A call with a callback.                                                 *)
Derive(d, req) ==
    /\ ~ run[d].queued /\ ~ Refused(req)
    /\ After(d, Begun(req))

(* Counts below one are refused at once, before the object is touched.     *)
Refuse(d, req) ==
    /\ ~ run[d].queued /\ Refused(req)
    /\ answer' = [request |-> req, key |-> <<>>]
    /\ UNCHANGED <<digests, run>>

(* The turn that setImmediate queued.                                      *)
Turn(d) ==
    /\ run[d].queued
    /\ After(d, Inner([run[d] EXCEPT !.message = digests[run[d].request.object]]))

(* Callers start a message of their own on the object they passed.         *)
UseObject(o, m) ==
    /\ digests' = [digests EXCEPT ![o] = m]
    /\ answer' = None
    /\ UNCHANGED run

DerivationNext ==
    \/ \E d \in Derivations, req \in Requests : Derive(d, req) \/ Refuse(d, req)
    \/ \E d \in Derivations : Turn(d)
    \/ \E o \in Objects, m \in Uses : UseObject(o, m)

DerivationSpec == DerivationInit /\ [][DerivationNext]_derivationVars

-----------------------------------------------------------------------------
(* Properties                                                              *)

(* RFC 2898, 5.2: U_1 = PRF(P, S || INT(i)) and U_c = PRF(P, U_c-1),       *)
StandardHashes(req, i) ==
    LET U[c \in 1 .. req.iterationCount] ==
            StandardMac(Algorithm[req.object], req.password,
                IF c = 1 THEN req.salt \o int32ToBytes(i) ELSE U[c - 1])
    IN  U

(* T_i is the sum of them,                                                 *)
Sum(U, n) ==
    LET Times(term) == {c \in 1 .. n : U[c] = <<term>>}
    IN  {term \in {U[c][1] : c \in 1 .. n} : Cardinality(Times(term)) % 2 = 1}

StandardCount(req) ==
    LET hLen == digestLength[Algorithm[req.object]]
    IN  CHOOSE n \in 1 .. req.dkLen : (n - 1) * hLen < req.dkLen /\ n * hLen >= req.dkLen

(* and DK the first dkLen bytes of T_1 || T_2 || ...                       *)
StandardKey(req) ==
    LET hLen == digestLength[Algorithm[req.object]]
        blocks == StandardCount(req)
    IN  [i \in 1 .. blocks |->
            [sum |-> Sum(StandardHashes(req, i), req.iterationCount),
             bytes |-> IF i = blocks THEN req.dkLen - ((i - 1) * hLen) ELSE hLen]]

(* However derivations that share digest objects take turns, and whatever  *)
(* callers do on these objects between two turns, a derivation calls back  *)
(* with the key of the standard.                                           *)
KeyIsStandard ==
    answer # None =>
        answer.key = IF Refused(answer.request) THEN <<>> ELSE StandardKey(answer.request)
=============================================================================

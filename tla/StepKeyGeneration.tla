-------------------------- MODULE StepKeyGeneration --------------------------
(***************************************************************************)
(* RSA key generation in steps: stepKeyPairGenerationState runs the state  *)
(* machine until the keys are there or its time is over, and is called     *)
(* again with the same state.  Only the index into the wheel of candidates *)
(* is local to a call.                                                     *)
(*                                                                         *)
(* One action is one round of the loop, and Resume the end of a call and   *)
(* the next one.  Numbers are drawn at random.                             *)
(***************************************************************************)
EXTENDS RsaArithmetic

CONSTANTS
    Requests, \* the modulus lengths and exponents to try
    None

ASSUME RequestsAssumption ==
    /\ \A r \in Requests : r.bits \in Nat /\ r.e \in Nat \ {0} /\ QBits(r.bits) > 1
    /\ None \notin Int \cup KeyNumbers

VARIABLES
    request,  \* state.bits and state.e
    state,    \* state.state
    pqState,  \* state.pqState, what comes next in the search for a prime
    num,      \* state.num
    p, q,     \* state.p and state.q
    phi,      \* state.phi
    keys,     \* state.keys
    deltaIdx  \* the call's index into GCD_30_DELTA

vars == <<request, state, pqState, num, p, q, phi, keys, deltaIdx>>

-----------------------------------------------------------------------------
(* The search for a prime, in state 0                                      *)

bits == IF p = None THEN PBits(request.bits) ELSE QBits(request.bits)

Searching(s) == keys = None /\ state = 0 /\ pqState = s

Draw(start) ==
    /\ Searching(0)
    /\ num' = start
    /\ deltaIdx' = 0
    /\ pqState' = 1
    /\ UNCHANGED <<request, state, p, q, phi, keys>>

(* Mutant: the length of the candidate is not looked at. *)
TooLongNever == FALSE

TooLong == BitLength(num) > bits

RejectTooLong ==
    /\ Searching(1) /\ TooLong
    /\ pqState' = 0
    /\ UNCHANGED <<request, state, num, p, q, phi, keys, deltaIdx>>

AcceptPrime ==
    /\ Searching(1) /\ ~ TooLong /\ IsPrime(num)
    /\ pqState' = 2
    /\ UNCHANGED <<request, state, num, p, q, phi, keys, deltaIdx>>

NextCandidate ==
    /\ Searching(1) /\ ~ TooLong /\ ~ IsPrime(num)
    /\ num' = num + Delta(deltaIdx)
    /\ deltaIdx' = (deltaIdx + 1) % 8
    /\ UNCHANGED <<request, state, pqState, p, q, phi, keys>>

(* Mutant: the search goes on with the prime that was refused. *)
AfterExponentCheckAgain == IF Coprime(num - 1, request.e) THEN 3 ELSE 1

(* A prime that does not go with the exponent is dropped, and a new one    *)
(* drawn.                                                                  *)
AfterExponentCheck == IF Coprime(num - 1, request.e) THEN 3 ELSE 0

CheckExponent ==
    /\ Searching(2)
    /\ pqState' = AfterExponentCheck
    /\ UNCHANGED <<request, state, num, p, q, phi, keys, deltaIdx>>

StorePrime ==
    /\ Searching(3)
    /\ pqState' = 0
    /\ IF p = None THEN p' = num /\ q' = q ELSE q' = num /\ p' = p
    /\ state' = IF p' # None /\ q' # None THEN 1 ELSE 0
    /\ num' = None
    /\ UNCHANGED <<request, phi, keys, deltaIdx>>

-----------------------------------------------------------------------------
(* The rest, state by state                                                *)

InState(s) == keys = None /\ state = s

Order ==
    /\ InState(1)
    /\ IF p < q THEN num' = p /\ p' = q /\ q' = p ELSE UNCHANGED <<num, p, q>>
    /\ state' = 2
    /\ UNCHANGED <<request, pqState, phi, keys, deltaIdx>>

(* Mutant: phi is kept when a prime is drawn again. *)
PhiKept == IF phi = None THEN (p - 1) * (q - 1) ELSE phi

Phi == (p - 1) * (q - 1)

ComputePhi ==
    /\ InState(2)
    /\ phi' = Phi
    /\ state' = 3
    /\ UNCHANGED <<request, pqState, num, p, q, keys, deltaIdx>>

CheckPhi ==
    /\ InState(3)
    /\ IF Coprime(phi, request.e)
       THEN state' = 4 /\ UNCHANGED <<p, q>>
       ELSE state' = 0 /\ p' = None /\ q' = None
    /\ UNCHANGED <<request, pqState, num, phi, keys, deltaIdx>>

n == p * q

(* Mutant: a modulus that is too short passes. *)
RightLengthOrShort == BitLength(n) =< request.bits

RightLength == BitLength(n) = request.bits

(* Only the smaller prime is drawn again.                                  *)
CheckModulus ==
    /\ InState(4)
    /\ IF RightLength
       THEN state' = 5 /\ q' = q
       ELSE state' = 0 /\ q' = None
    /\ UNCHANGED <<request, pqState, num, p, phi, keys, deltaIdx>>

MakeKeys ==
    /\ InState(5)
    /\ keys' = KeyPair(n, request.e, phi, p, q)
    /\ UNCHANGED <<request, state, pqState, num, p, q, phi, deltaIdx>>

-----------------------------------------------------------------------------

Init ==
    /\ request \in Requests
    /\ state = 0 /\ pqState = 0
    /\ num = None /\ p = None /\ q = None /\ phi = None
    /\ keys = None
    /\ deltaIdx = 0

(* The call's time is over, and the next call begins.                      *)
Resume ==
    /\ keys = None
    /\ deltaIdx' = 0
    /\ UNCHANGED <<request, state, pqState, num, p, q, phi, keys>>

Round ==
    \/ \E start \in Starts(bits) : Draw(start)
    \/ RejectTooLong \/ AcceptPrime \/ NextCandidate \/ CheckExponent \/ StorePrime
    \/ Order \/ ComputePhi \/ CheckPhi \/ CheckModulus \/ MakeKeys

Next == Round \/ Resume

Spec == Init /\ [][Next]_vars

-----------------------------------------------------------------------------
(* Properties                                                              *)

(* The primes in a state machine have the lengths that were asked for,     *)
(* whether they were swapped, drawn again or searched over several calls,  *)
(* and the one that is searched next is the one that is missing.           *)
PrimesFit ==
    /\ p = None => q = None
    /\ \A prime \in {p, q} \ {None} :
        /\ IsPrime(prime) /\ Coprime(prime - 1, request.e)
        /\ BitLength(prime) \in {PBits(request.bits), QBits(request.bits)}
    /\ state \in 2 .. 5 => q =< p

Keys == INSTANCE KeyPairs

(* stepKeyPairGenerationState, over any number of calls, gives what key    *)
(* generation promises: numbers that all belong to the final two primes,   *)
(* though these were searched, swapped and drawn again in between.         *)
RefinesKeys == Keys!Spec

(* The exponents of a key pair undo each other, and modulo each prime too, *)
(* and qInv is the inverse of q, unless the same prime was drawn twice.    *)
KeysAreInverse ==
    keys # None =>
        /\ (keys.e * keys.d) % ((keys.p - 1) * (keys.q - 1)) = 1
        /\ (keys.e * keys.dP) % (keys.p - 1) = 1
        /\ (keys.e * keys.dQ) % (keys.q - 1) = 1
        /\ keys.p # keys.q => (keys.q * keys.qInv) % keys.p = 1
=============================================================================

------------------------- MODULE AsyncKeyGeneration -------------------------
(***************************************************************************)
(* RSA key generation with a callback: two searches for a prime one after  *)
(* the other, each by PrimeService, and finish, which looks at what was    *)
(* found and searches again for what does not fit.                         *)
(*                                                                         *)
(* A search gives way to the event loop between two candidates and passes  *)
(* all it has to the next turn, so that one action is one candidate and    *)
(* turns do not show.  Numbers are drawn at random.                        *)
(***************************************************************************)
EXTENDS RsaArithmetic

CONSTANTS
    Requests, \* the modulus lengths and exponents to try
    None

VARIABLES
    request,  \* state.bits and state.e
    p, q,     \* state.p and state.q
    wanted,   \* the prime that is searched, "p" or "q"
    num,      \* the candidate, None before one was drawn
    deltaIdx, \* its place in GCD_30_DELTA
    keys      \* what the callback got, None before

vars == <<request, p, q, wanted, num, deltaIdx, keys>>

-----------------------------------------------------------------------------
(* What the search calls back with c                                       *)

bits == IF wanted = "p" THEN PBits(request.bits) ELSE QBits(request.bits)

GetPrime(prime) == wanted' = prime /\ num' = None /\ deltaIdx' = 0 /\ keys' = None

Fits(prime) == Coprime(prime - 1, request.e)

Phi(a, b) == (a - 1) * (b - 1)

(* Mutant: the primes stay as they were found. *)
OrderedNever(a, b) == <<a, b>>

(* The larger one first.                                                   *)
Ordered(a, b) == IF a < b THEN <<b, a>> ELSE <<a, b>>

RightLength(a, b) == BitLength(a * b) = request.bits

(* Mutant: p is dropped and q searched. *)
AgainQ == "q"

Again == "p"

(* finish, with a as p and b as q.  A larger prime that does not go with   *)
(* the exponent is drawn again and the smaller one kept, whichever of the  *)
(* two searches they came from.                                            *)
Finish(a, b) ==
    \/ /\ ~ Fits(a) \/ (Fits(b) /\ ~ Coprime(Phi(a, b), request.e))
       /\ p' = None
       /\ q' = IF Fits(a) THEN None ELSE b
       /\ GetPrime(Again)
    \/ /\ Fits(a)
       /\ ~ Fits(b) \/ (Coprime(Phi(a, b), request.e) /\ ~ RightLength(a, b))
       /\ p' = a
       /\ q' = None
       /\ GetPrime("q")
    \/ /\ Fits(a) /\ Fits(b) /\ Coprime(Phi(a, b), request.e) /\ RightLength(a, b)
       /\ p' = a /\ q' = b
       /\ keys' = KeyPair(a * b, request.e, Phi(a, b), a, b)
       /\ UNCHANGED <<wanted, num, deltaIdx>>

FinishOrdered(a, b) == Finish(Ordered(a, b)[1], Ordered(a, b)[2])

FoundP(c) ==
    /\ wanted = "p"
    /\ IF q # None
       THEN FinishOrdered(c, q)
       ELSE p' = c /\ q' = None /\ GetPrime("q")

FoundQ(c) == wanted = "q" /\ FinishOrdered(p, c)

-----------------------------------------------------------------------------
(* The search                                                              *)

Searching == keys = None

Draw(start) ==
    /\ Searching /\ num = None
    /\ num' = start
    /\ UNCHANGED <<request, p, q, wanted, deltaIdx, keys>>

(* Mutant: the same candidate is tried again. *)
NotRaised(c) == c

RaisedOn(c) == c + Delta(deltaIdx)

(* A candidate that is no prime is raised on the wheel, where it stands.   *)
Try(c) ==
    /\ IF IsPrime(c)
       THEN FoundP(c) \/ FoundQ(c)
       ELSE /\ num' = RaisedOn(c)
            /\ deltaIdx' = (deltaIdx + 1) % 8
            /\ UNCHANGED <<p, q, wanted, keys>>
    /\ UNCHANGED request

TooLong == BitLength(num) > bits

Candidate ==
    /\ Searching /\ num # None /\ ~ TooLong
    /\ Try(num)

(* A candidate that is too long is drawn again, and tried as it is, even   *)
(* if it is too long as well.                                              *)
Redraw(start) ==
    /\ Searching /\ num # None /\ TooLong
    /\ Try(start)

-----------------------------------------------------------------------------

Init ==
    /\ request \in Requests
    /\ p = None /\ q = None
    /\ wanted = "p"
    /\ num = None
    /\ deltaIdx = 0
    /\ keys = None

Next == Candidate \/ \E start \in Starts(bits) : Draw(start) \/ Redraw(start)

Spec == Init /\ [][Next]_vars

-----------------------------------------------------------------------------
(* Properties                                                              *)

Keys == INSTANCE KeyPairs

(* The callback gets what key generation promises, though the primes trade *)
(* places, and one of them is searched again while the other one stays.    *)
RefinesKeys == Keys!Spec

(* What is kept while the other prime is searched is a prime, of the length*)
(* that was asked for or, where a number was drawn twice because of its    *)
(* length, a bit more; and it is the one that is not searched.             *)
KeptPrimeFits ==
    /\ \A prime \in {p, q} \ {None} :
        /\ IsPrime(prime)
        /\ BitLength(prime) \in QBits(request.bits) .. PBits(request.bits) + 1
    /\ keys = None => IF wanted = "p" THEN p = None ELSE p # None /\ q = None
=============================================================================

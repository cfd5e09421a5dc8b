--------------------------- MODULE KeyGeneration ---------------------------
(***************************************************************************)
(* generateKeyPair without native code: a new state, and with a callback   *)
(* the search over turns of the event loop, without one the state machine; *)
(* or a caller that steps the state machine itself.                        *)
(***************************************************************************)
EXTENDS StepKeyGeneration

VARIABLES
    wanted,     \* the prime that the search with a callback is at
    hasCallback \* whether a callback was given

generationVars == <<vars, wanted, hasCallback>>

(* Both run on one state object, its request, num, p, q and keys.          *)
Async == INSTANCE AsyncKeyGeneration

Step == ~ hasCallback /\ Next /\ UNCHANGED <<wanted, hasCallback>>

Turn == hasCallback /\ Async!Next /\ UNCHANGED <<state, pqState, phi, hasCallback>>

GenerationInit == Init /\ Async!Init /\ hasCallback \in BOOLEAN

GenerationNext == Step \/ Turn

(* A round of the state machine or a turn of the event loop.               *)
Progress == Turn \/ (Step /\ Round)

Drawn(start) ==
    /\ start \in Starts(bits) \cup Starts(Async!bits)
    /\ \/ Step /\ Draw(start)
       \/ Turn /\ (Async!Draw(start) \/ Async!Redraw(start))

(* A call without a callback, and callers that step, go on until the keys  *)
(* are there, and each call goes a round at least; the event loop runs the *)
(* turns of the search.  A number that can be drawn again and again is     *)
(* drawn at last.                                                          *)
Fairness ==
    /\ WF_generationVars(Progress)
    /\ \A start \in UNION {Starts(PBits(r.bits)) \cup Starts(QBits(r.bits)) : r \in Requests} :
        SF_generationVars(Drawn(start))

GenerationSpec == GenerationInit /\ [][GenerationNext]_generationVars /\ Fairness

-----------------------------------------------------------------------------
(* Properties                                                              *)

(* The primes of a state machine fit, through all of its rounds and calls; *)
(* of a search with a callback, so does the prime that is kept meanwhile.  *)
PrimesInPlayFit == IF hasCallback THEN Async!KeptPrimeFits ELSE PrimesFit

(* The callback is called, and callers that call on get their keys,        *)
(* wherever the calls end and whatever is searched again.                  *)
GenerationEnds == <>(keys # None)
=============================================================================

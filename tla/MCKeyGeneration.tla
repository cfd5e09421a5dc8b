-------------------------- MODULE MCKeyGeneration --------------------------
EXTENDS KeyGeneration

Ask(bitCount, exponent) == [bits |-> bitCount, e |-> exponent]

(* Primes of 7 and 8 bits: the first candidates are refused for their      *)
(* length, for being composite and for the exponent, and moduli for being  *)
(* short.                                                                  *)
(* At these sizes every prime has a partner that makes a modulus of the    *)
(* right length.  With 15 bits and 7 there is none for 151, and as only q  *)
(* is drawn again for a short modulus, generation never ends.              *)
MCRequests == {Ask(14, 5), Ask(15, 11), Ask(15, 13), Ask(16, 7), Ask(16, 11)}
=============================================================================

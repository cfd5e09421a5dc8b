--------------------------- MODULE RsaArithmetic ---------------------------
(***************************************************************************)
(* The numbers of RSA key generation: what the library computes with its   *)
(* big integers, on integers.                                              *)
(***************************************************************************)
EXTENDS Integers, FiniteSetsExt, Powers

Divides(d, n) == n % d = 0

(* isProbablePrime never refuses a prime; that it lets a composite pass is *)
(* left out.                                                               *)
IsPrime(n) == n > 1 /\ \A d \in 2 .. n - 1 : d * d =< n => ~ Divides(d, n)

Coprime(a, b) == \A d \in 2 .. b : ~ (Divides(d, a) /\ Divides(d, b))

BitLength(n) == CHOOSE l \in 0 .. n : n < PowersOf(2)[l] /\ (l > 0 => n >= PowersOf(2)[l - 1])

(* Zero when there is no inverse.                                          *)
ModInverse(a, m) ==
    LET factors == {k \in 0 .. a - 1 : Divides(a, 1 + (k * m))}
    IN  IF a = 0 \/ factors = {} THEN 0 ELSE (1 + (Min(factors) * m)) \div a

-----------------------------------------------------------------------------
(* Candidates for primes of a length in bits.  num is of this length, the  *)
(* top bit set, and is raised to the next number that is 1 modulo 30;      *)
(* which may be longer by a bit.                                           *)

Raised(num) == num + (31 - (num % 30))

Starts(bits) == {Raised(num) : num \in PowersOf(2)[bits - 1] .. PowersOf(2)[bits] - 1}

(* GCD_30_DELTA, from one number that is coprime with 30 to the next;      *)
(* the index is taken modulo 8.                                            *)
Delta(deltaIdx) == <<6, 4, 2, 4, 2, 4, 6, 2>>[deltaIdx + 1]

-----------------------------------------------------------------------------
(* Keys                                                                    *)

PBits(bits) == bits - (bits \div 2)
QBits(bits) == bits \div 2

(* The key pair that is made of two primes, with Chinese remainders.       *)
KeyPair(n, e, phi, p, q) ==
    LET d == ModInverse(e, phi)
    IN  [n |-> n, e |-> e, d |-> d, p |-> p, q |-> q,
         dP |-> d % (p - 1), dQ |-> d % (q - 1), qInv |-> ModInverse(q, p)]

KeyNumbers == [n : Int, e : Int, d : Int, p : Int, q : Int, dP : Int, dQ : Int, qInv : Int]

(* What is asked of key generation: two primes, the larger one first, that *)
(* go with the exponent and make a modulus of the right length, and of     *)
(* which all the numbers of the key pair are made.                         *)
IsKeyPairFor(k, r) ==
    \E p \in {k.p}, q \in {k.q} :
        /\ IsPrime(p) /\ IsPrime(q) /\ q =< p
        /\ BitLength(p * q) = r.bits
        /\ Coprime(p - 1, r.e) /\ Coprime(q - 1, r.e)
        /\ k = KeyPair(p * q, r.e, (p - 1) * (q - 1), p, q)
=============================================================================

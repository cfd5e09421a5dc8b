------------------------ MODULE KeyGeneration_proofs ------------------------
(***************************************************************************)
(* Both ways of generating an RSA key pair deliver one that was asked for, *)
(* for any requests, wherever the calls end and whatever is drawn.         *)
(*                                                                         *)
(* Of the step by step generation the inductive invariant says what each   *)
(* state has established: of the candidate, of the primes that are there   *)
(* and, after the search, of their order, of phi and of the length of the  *)
(* modulus. Of the search with a callback it says that the primes that are *)
(* kept are primes. The rest is arithmetic: that modInverse inverts, also  *)
(* modulo the primes, that such exponents undo each other, and how long a  *)
(* prime is that was found at a distance from the number drawn.            *)
(***************************************************************************)
EXTENDS KeyGeneration, RsaNumbers_proofs

-----------------------------------------------------------------------------
(* What is asked and what is drawn                                         *)

(* Both primes have two bits at least.                                     *)
LEMMA RequestNumbers ==
    ASSUME NEW r \in Requests
    PROVE  /\ r.e \in Nat \ {0}
           /\ PBits(r.bits) \in Nat /\ QBits(r.bits) \in Nat
           /\ QBits(r.bits) > 1 /\ QBits(r.bits) =< PBits(r.bits)
  BY RequestsAssumption DEF PBits, QBits

(* A number that is drawn has the length at least, and where that is four  *)
(* bits or more, one bit more at most.                                     *)
LEMMA StartIs ==
    ASSUME NEW b \in Nat, b > 1, NEW start \in Starts(b)
    PROVE  /\ start \in Nat /\ start > 2 /\ start >= PowersOf(2)[b - 1]
           /\ b >= 4 => BitLength(start) =< b + 1
  <1>. DEFINE P == PowersOf(2)
  <1>1. PICK drawn \in P[b - 1] .. P[b] - 1 : start = Raised(drawn)
    BY DEF Starts
  <1>2. b - 1 \in Nat /\ P[b - 1] \in Nat \ {0} /\ P[b] \in Nat \ {0}
    BY PowersOfTwo
  <1>3. P[b + 1] = 2 * P[b]
    BY PowersGrow
  <1>4. b >= 5 => P[b] >= 32
    <2>1. P[0] = 1 /\ P[0 + 1] = 2 * P[0] /\ P[1 + 1] = 2 * P[1] /\ P[2 + 1] = 2 * P[2]
          /\ P[3 + 1] = 2 * P[3] /\ P[4 + 1] = 2 * P[4]
      BY PowersGrow
    <2>2. P[5] = 32
      BY <2>1
    <2>3. b >= 5 => P[5] =< P[b]
      BY PowersGrow
    <2>. QED
      BY <1>2, <2>2, <2>3
  <1>5. P[4] = 16
    <2>1. P[0] = 1 /\ P[0 + 1] = 2 * P[0] /\ P[1 + 1] = 2 * P[1] /\ P[2 + 1] = 2 * P[2]
          /\ P[3 + 1] = 2 * P[3]
      BY PowersGrow
    <2>. QED
      BY <2>1
  <1>. HIDE DEF P
  <1>6. drawn \in Nat /\ drawn >= P[b - 1] /\ drawn < P[b] /\ drawn % 30 \in 0 .. 29
    BY <1>1, <1>2
  <1>7. start = drawn + (31 - (drawn % 30))
    BY <1>1 DEF Raised
  <1>8. start \in Nat /\ start > 2 /\ start >= P[b - 1]
    BY <1>2, <1>6, <1>7
  <1>9. ASSUME b >= 4
        PROVE  BitLength(start) =< b + 1
    <2>1. CASE b >= 5
      BY <1>2, <1>3, <1>4, <1>6, <1>7, <1>8, <2>1, BitLengthBounds DEF P
    <2>2. CASE b = 4
      <3>1. drawn < 16 /\ drawn % 30 = drawn
        BY <1>5, <1>6, <2>2
      <3>2. start < P[b + 1]
        BY <1>3, <1>5, <1>6, <1>7, <2>2, <3>1
      <3>. QED
        BY <1>8, <3>2, BitLengthBounds DEF P
    <2>. QED
      BY <1>9, <2>1, <2>2
  <1>. QED
    BY <1>8, <1>9 DEF P

(* Raising a candidate.                                                    *)
LEMMA DeltaIsPositive ==
    ASSUME NEW i \in 0 .. 7
    PROVE  Delta(i) \in Nat \ {0} /\ (i + 1) % 8 \in 0 .. 7
  BY DEF Delta

-----------------------------------------------------------------------------
(* Keys                                                                    *)

(* What the keys that are delivered are made of.                           *)
MadeOfPrimes(k) ==
    /\ k.p \in Nat /\ k.q \in Nat /\ k.p > 2 /\ k.q > 2 /\ k.q =< k.p
    /\ IsPrime(k.p) /\ IsPrime(k.q)
    /\ Coprime((k.p - 1) * (k.q - 1), request.e)
    /\ k = KeyPair(k.p * k.q, request.e, (k.p - 1) * (k.q - 1), k.p, k.q)

(* The numbers of a key pair that is made of primes are inverses,          *)
LEMMA MadeKeysAreInverse ==
    ASSUME request \in Requests, keys # None => MadeOfPrimes(keys)
    PROVE  KeysAreInverse
  <1>. SUFFICES ASSUME MadeOfPrimes(keys)
                PROVE  /\ (keys.e * keys.d) % ((keys.p - 1) * (keys.q - 1)) = 1
                       /\ (keys.e * keys.dP) % (keys.p - 1) = 1
                       /\ (keys.e * keys.dQ) % (keys.q - 1) = 1
                       /\ keys.p # keys.q => (keys.q * keys.qInv) % keys.p = 1
    BY DEF KeysAreInverse
  <1>. DEFINE a == keys.p
              b == keys.q
              e == request.e
              m == (a - 1) * (b - 1)
              d == ModInverse(e, m)
  <1>1. /\ a \in Nat /\ b \in Nat /\ a > 2 /\ b > 2 /\ b =< a
        /\ IsPrime(a) /\ IsPrime(b) /\ Coprime(m, e) /\ e \in Nat \ {0}
    BY RequestNumbers DEF MadeOfPrimes
  <1>2. /\ keys.e = e /\ keys.d = d /\ keys.dP = d % (a - 1) /\ keys.dQ = d % (b - 1)
        /\ keys.qInv = ModInverse(b, a)
    <2>1. keys = KeyPair(a * b, e, m, a, b)
      BY DEF MadeOfPrimes
    <2>. HIDE DEF a, b, m, d
    <2>2. /\ KeyPair(a * b, e, m, a, b).e = e
          /\ KeyPair(a * b, e, m, a, b).d = ModInverse(e, m)
          /\ KeyPair(a * b, e, m, a, b).dP = ModInverse(e, m) % (a - 1)
          /\ KeyPair(a * b, e, m, a, b).dQ = ModInverse(e, m) % (b - 1)
          /\ KeyPair(a * b, e, m, a, b).qInv = ModInverse(b, a)
      BY DEF KeyPair
    <2>. QED
      BY <2>1, <2>2 DEF d
  <1>. HIDE DEF a, b, e, d
  <1>3. a - 1 \in Nat /\ b - 1 \in Nat /\ a - 1 > 1 /\ b - 1 > 1
    BY <1>1
  <1>4. m \in Nat /\ m > 1 /\ m \in Nat \ {0} /\ e \in Nat
    BY <1>1, <1>3
  <1>5. PICK k \in Nat : d \in Nat /\ e * d = 1 + (k * m)
    <2>. HIDE DEF m
    <2>. QED
      BY <1>1, <1>4, InverseIs, Zenon DEF d
  <1>6. (e * d) % m = 1
    <2>. HIDE DEF m
    <2>. QED
      BY <1>4, <1>5, InverseLeavesOne, Zenon
  <1>7. (e * (d % (a - 1))) % (a - 1) = 1
    <2>1. e * d = 1 + ((k * (b - 1)) * (a - 1)) /\ k * (b - 1) \in Nat
      BY <1>3, <1>5
    <2>2. PICK j \in Nat, w \in Nat : w = a - 1 /\ w > 1 /\ e * d = 1 + (j * w)
      BY <1>3, <2>1, Zenon
    <2>3. e \in Nat /\ d \in Nat /\ w > 1 /\ e * d = 1 + (j * w)
      BY <1>4, <1>5, <2>2
    <2>4. (e * (d % w)) % w = 1
      BY <2>3, ReducedInverse, ZenonT(60)
    <2>. QED
      BY <2>2, <2>4
  <1>8. (e * (d % (b - 1))) % (b - 1) = 1
    <2>1. e * d = 1 + ((k * (a - 1)) * (b - 1)) /\ k * (a - 1) \in Nat
      BY <1>3, <1>5
    <2>2. PICK j \in Nat, w \in Nat : w = b - 1 /\ w > 1 /\ e * d = 1 + (j * w)
      BY <1>3, <2>1, Zenon
    <2>3. e \in Nat /\ d \in Nat /\ w > 1 /\ e * d = 1 + (j * w)
      BY <1>4, <1>5, <2>2
    <2>4. (e * (d % w)) % w = 1
      BY <2>3, ReducedInverse, ZenonT(60)
    <2>. QED
      BY <2>2, <2>4
  <1>9. a # b => (b * ModInverse(b, a)) % a = 1
    <2>. SUFFICES ASSUME a # b
                  PROVE  (b * ModInverse(b, a)) % a = 1
      OBVIOUS
    <2>1. Coprime(a, b)
      BY <1>1, PrimesCoprime
    <2>2. a \in Nat \ {0} /\ b \in Nat \ {0} /\ a > 1
      BY <1>1
    <2>3. PICK j \in Nat : ModInverse(b, a) \in Nat /\ b * ModInverse(b, a) = 1 + (j * a)
      BY <2>1, <2>2, InverseIs, Zenon
    <2>. DEFINE i == ModInverse(b, a)
    <2>4. b \in Nat /\ a \in Nat
      BY <2>2
    <2>5. i \in Nat /\ b * i = 1 + (j * a)
      BY <2>3
    <2>. HIDE DEF i, m
    <2>6. (b * i) % a = 1
      BY <2>2, <2>4, <2>5, InverseLeavesOne, Zenon
    <2>. QED
      BY <2>6 DEF i
  <1>. QED
    BY <1>2, <1>6, <1>7, <1>8, <1>9 DEF a, b, e, d

(* and its exponents are inverses for both of its primes.                  *)
LEMMA MadeExponents ==
    ASSUME NEW k, request \in Requests, MadeOfPrimes(k), k.p # k.q
    PROVE  Inverses(k.e, k.d, k.p, k.q) /\ k.n = k.p * k.q
  <1>. DEFINE a == k.p
              b == k.q
              e == request.e
              m == (a - 1) * (b - 1)
              d == ModInverse(e, m)
  <1>1. /\ a \in Nat /\ b \in Nat /\ a > 2 /\ b > 2 /\ a # b
        /\ IsPrime(a) /\ IsPrime(b) /\ Coprime(m, e) /\ e \in Nat \ {0}
    BY RequestNumbers DEF MadeOfPrimes
  <1>2. k.e = e /\ k.d = d /\ k.n = a * b
    <2>1. k = KeyPair(a * b, e, m, a, b)
      BY DEF MadeOfPrimes
    <2>. HIDE DEF a, b, m, d
    <2>2. /\ KeyPair(a * b, e, m, a, b).e = e /\ KeyPair(a * b, e, m, a, b).n = a * b
          /\ KeyPair(a * b, e, m, a, b).d = ModInverse(e, m)
      BY DEF KeyPair
    <2>. QED
      BY <2>1, <2>2 DEF d
  <1>. HIDE DEF a, b, e, d
  <1>3. a - 1 \in Nat /\ b - 1 \in Nat /\ a - 1 > 1 /\ b - 1 > 1
    BY <1>1
  <1>4. m \in Nat \ {0} /\ e \in Nat
    BY <1>1, <1>3
  <1>5. PICK i \in Nat : d \in Nat /\ e * d = 1 + (i * m)
    <2>. HIDE DEF m
    <2>. QED
      BY <1>1, <1>4, InverseIs, Zenon DEF d
  <1>6. (e * d) % (a - 1) = 1
    <2>1. e * d = 1 + ((i * (b - 1)) * (a - 1)) /\ i * (b - 1) \in Nat
      BY <1>3, <1>5
    <2>2. PICK j \in Nat, w \in Nat : w = a - 1 /\ w > 1 /\ e * d = 1 + (j * w)
      BY <1>3, <2>1, Zenon
    <2>3. e \in Nat /\ d \in Nat /\ w > 1 /\ e * d = 1 + (j * w)
      BY <1>4, <1>5, <2>2
    <2>4. (e * d) % w = 1
      BY <2>3, InverseLeavesOne, ZenonT(60)
    <2>. QED
      BY <2>2, <2>4
  <1>7. (e * d) % (b - 1) = 1
    <2>1. e * d = 1 + ((i * (a - 1)) * (b - 1)) /\ i * (a - 1) \in Nat
      BY <1>3, <1>5
    <2>2. PICK j \in Nat, w \in Nat : w = b - 1 /\ w > 1 /\ e * d = 1 + (j * w)
      BY <1>3, <2>1, Zenon
    <2>3. e \in Nat /\ d \in Nat /\ w > 1 /\ e * d = 1 + (j * w)
      BY <1>4, <1>5, <2>2
    <2>4. (e * d) % w = 1
      BY <2>3, InverseLeavesOne, ZenonT(60)
    <2>. QED
      BY <2>2, <2>4
  <1>8. Inverses(e, d, a, b)
    BY <1>1, <1>4, <1>5, <1>6, <1>7 DEF Inverses
  <1>. QED
    BY <1>2, <1>8, Zenon DEF a, b

-----------------------------------------------------------------------------
(* The state machine                                                       *)

(* A prime that was kept.                                                  *)
Right(prime) ==
    /\ prime \in Nat /\ prime > 2 /\ IsPrime(prime)
    /\ Coprime(prime - 1, request.e)
    /\ BitLength(prime) \in {PBits(request.bits), QBits(request.bits)}

(* What is known of the candidate in each step of a search.                *)
CandidateInv ==
    state = 0 /\ pqState > 0 =>
        /\ num \in Nat /\ num > 2 /\ num >= PowersOf(2)[bits - 1]
        /\ pqState > 1 => IsPrime(num) /\ BitLength(num) = bits
        /\ pqState > 2 => Coprime(num - 1, request.e)

(* Which primes are there, and what they are.                              *)
PrimesInv ==
    /\ p # None => Right(p)
    /\ q # None => Right(q)
    /\ p = None => q = None
    /\ state = 0 => q = None
    /\ state > 0 => p # None /\ q # None

(* What each state after the search has done for the primes as they are;   *)
(* the search is at its beginning, where it goes on when a prime is        *)
(* dropped.                                                                *)
ProgressInv ==
    /\ state > 0 => pqState = 0
    /\ state > 1 => q =< p
    /\ state > 2 => phi = (p - 1) * (q - 1)
    /\ state > 3 => Coprime(phi, request.e)
    /\ state > 4 => BitLength(p * q) = request.bits

(* The inductive invariant of the step by step generation.                 *)
StepInv ==
    /\ request \in Requests
    /\ state \in 0 .. 5 /\ pqState \in 0 .. 3 /\ deltaIdx \in 0 .. 7
    /\ CandidateInv
    /\ PrimesInv
    /\ ProgressInv
    /\ keys # None => MadeOfPrimes(keys)

(* The length of the prime that is searched for.                           *)
LEMMA BitsAreNumbers ==
    ASSUME request \in Requests
    PROVE  /\ bits \in Nat /\ bits > 1 /\ bits \in {PBits(request.bits), QBits(request.bits)}
           /\ bits - 1 \in Nat /\ PowersOf(2)[bits - 1] \in Nat
  <1>1. /\ PBits(request.bits) \in Nat /\ QBits(request.bits) \in Nat
        /\ QBits(request.bits) > 1 /\ QBits(request.bits) =< PBits(request.bits)
    BY RequestNumbers
  <1>2. bits \in Nat /\ bits > 1 /\ bits \in {PBits(request.bits), QBits(request.bits)}
    BY <1>1 DEF bits
  <1>3. bits - 1 \in Nat
    BY <1>2
  <1>. QED
    BY <1>2, <1>3, PowersOfTwo

(* The keys are made of the primes, whatever the order they are named in.  *)
LEMMA KeyPairIsMade ==
    ASSUME NEW a \in Nat, NEW b \in Nat, a > 2, b > 2, b =< a, IsPrime(a), IsPrime(b),
           Coprime((a - 1) * (b - 1), request.e), request' = request,
           keys' = KeyPair(a * b, request.e, (a - 1) * (b - 1), a, b)
    PROVE  MadeOfPrimes(keys)'
  <1>1. keys'.p = a /\ keys'.q = b
    BY DEF KeyPair
  <1>. QED
    BY <1>1 DEF MadeOfPrimes

(* Every round of the search keeps the invariant.                          *)
LEMMA SearchStep ==
    ASSUME StepInv,
           \/ \E start \in Starts(bits) : Draw(start)
           \/ RejectTooLong \/ AcceptPrime \/ NextCandidate \/ CheckExponent \/ StorePrime
    PROVE  StepInv'
  <1>. USE RequestsAssumption
  <1>1. keys = None /\ keys' = None /\ request' = request /\ request \in Requests /\ state = 0
    BY DEF Draw, RejectTooLong, AcceptPrime, NextCandidate, CheckExponent, StorePrime, Searching, StepInv
  <1>2. bits \in Nat /\ bits > 1 /\ bits \in {PBits(request.bits), QBits(request.bits)}
        /\ bits - 1 \in Nat /\ PowersOf(2)[bits - 1] \in Nat
    BY <1>1, BitsAreNumbers
  <1>3. ASSUME NEW start \in Starts(bits), Draw(start)
        PROVE  StepInv'
    <2>1. start \in Nat /\ start > 2 /\ start >= PowersOf(2)[bits - 1]
      BY <1>2, StartIs
    <2>2. bits' = bits
      BY <1>3 DEF Draw, bits
    <2>. QED
      BY <1>1, <1>3, <2>1, <2>2 DEF Draw, Searching, StepInv, CandidateInv, PrimesInv, ProgressInv, Right
  <1>4. CASE RejectTooLong
    BY <1>1, <1>4 DEF RejectTooLong, Searching, StepInv, CandidateInv, PrimesInv, ProgressInv, Right
  <1>5. CASE AcceptPrime
    <2>1. bits' = bits
      BY <1>5 DEF AcceptPrime, bits
    <2>2. num \in Nat /\ num >= PowersOf(2)[bits - 1] /\ ~ BitLength(num) > bits
      BY <1>5 DEF AcceptPrime, Searching, TooLong, StepInv, CandidateInv
    <2>3. BitLength(num) = bits
      <3>1. BitLength(num) \in Nat /\ BitLength(num) >= bits
        BY <1>2, <2>2, BitLengthFits, BitLengthBounds
      <3>. QED
        BY <1>2, <2>2, <3>1
    <2>. QED
      BY <1>1, <1>5, <2>1, <2>3 DEF AcceptPrime, Searching, StepInv, CandidateInv, PrimesInv, ProgressInv, Right
  <1>6. CASE NextCandidate
    <2>1. bits' = bits
      BY <1>6 DEF NextCandidate, bits
    <2>2. Delta(deltaIdx) \in Nat \ {0} /\ (deltaIdx + 1) % 8 \in 0 .. 7
      BY DeltaIsPositive DEF StepInv
    <2>3. num \in Nat /\ num > 2 /\ num >= PowersOf(2)[bits - 1]
      BY <1>6 DEF NextCandidate, Searching, StepInv, CandidateInv
    <2>4. num' \in Nat /\ num' > 2 /\ num' >= PowersOf(2)[bits - 1]
      BY <1>2, <1>6, <2>2, <2>3 DEF NextCandidate
    <2>. QED
      BY <1>1, <1>6, <2>1, <2>2, <2>4 DEF NextCandidate, Searching, StepInv, CandidateInv, PrimesInv, ProgressInv, Right
  <1>7. CASE CheckExponent
    <2>1. bits' = bits
      BY <1>7 DEF CheckExponent, bits
    <2>. QED
      BY <1>1, <1>7, <2>1
      DEF CheckExponent, AfterExponentCheck, Searching, StepInv, CandidateInv, PrimesInv, ProgressInv, Right
  <1>8. CASE StorePrime
    <2>1. /\ num \in Nat /\ num > 2 /\ IsPrime(num) /\ Coprime(num - 1, request.e)
          /\ BitLength(num) \in {PBits(request.bits), QBits(request.bits)}
      BY <1>2, <1>8 DEF StorePrime, Searching, StepInv, CandidateInv
    <2>2. Right(num)
      BY <2>1 DEF Right
    <2>3. q = None /\ (p # None => Right(p))
      BY <1>1 DEF StepInv, PrimesInv
    <2>4. num # None
      BY <2>1
    <2>5. pqState' = 0 /\ deltaIdx' = deltaIdx /\ IF p = None THEN p' = num /\ q' = q ELSE q' = num /\ p' = p
      BY <1>8 DEF StorePrime
    <2>6. state' = IF p' # None /\ q' # None THEN 1 ELSE 0
      BY <1>8 DEF StorePrime
    <2>7. \A prime : Right(prime)' <=> Right(prime)
      BY <1>1 DEF Right
    <2>8. (p' # None => Right(p')) /\ (q' # None => Right(q')) /\ p' # None
      BY <2>2, <2>3, <2>4, <2>5
    <2>9. PrimesInv'
      BY <2>6, <2>7, <2>8 DEF PrimesInv
    <2>. QED
      BY <1>1, <2>5, <2>6, <2>9 DEF StepInv, CandidateInv, ProgressInv
  <1>. QED
    BY <1>3, <1>4, <1>5, <1>6, <1>7, <1>8

(* So do the states after it, and the end of a call.                       *)
LEMMA StateStep ==
    ASSUME StepInv,
           Order \/ ComputePhi \/ CheckPhi \/ CheckModulus \/ MakeKeys \/ Resume \/ UNCHANGED vars
    PROVE  StepInv'
  <1>. USE RequestsAssumption
  <1>1. request' = request /\ request \in Requests
    BY DEF Order, ComputePhi, CheckPhi, CheckModulus, MakeKeys, Resume, vars, StepInv
  <1>2. \A prime : Right(prime)' <=> Right(prime)
    BY <1>1 DEF Right
  <1>3. p \in Nat \/ p = None
    BY DEF StepInv, PrimesInv, Right
  <1>4. CASE Order
    <2>1. Right(p) /\ Right(q) /\ p \in Nat /\ q \in Nat /\ p # None /\ q # None
      BY <1>4 DEF Order, InState, StepInv, PrimesInv, Right
    <2>2. Right(p') /\ Right(q') /\ p' # None /\ q' # None /\ q' =< p'
      BY <1>4, <2>1 DEF Order
    <2>3. PrimesInv'
      BY <1>2, <1>4, <2>2 DEF Order, PrimesInv
    <2>. QED
      BY <1>1, <1>4, <2>2, <2>3 DEF Order, InState, StepInv, CandidateInv, ProgressInv
  <1>5. CASE ComputePhi
    BY <1>1, <1>2, <1>5 DEF ComputePhi, InState, Phi, StepInv, CandidateInv, PrimesInv, ProgressInv
  <1>6. CASE CheckPhi
    BY <1>1, <1>2, <1>6 DEF CheckPhi, InState, StepInv, CandidateInv, PrimesInv, ProgressInv
  <1>7. CASE CheckModulus
    BY <1>1, <1>2, <1>7 DEF CheckModulus, InState, RightLength, n, StepInv, CandidateInv, PrimesInv, ProgressInv
  <1>8. CASE MakeKeys
    <2>1. /\ p \in Nat /\ q \in Nat /\ p > 2 /\ q > 2 /\ q =< p /\ IsPrime(p) /\ IsPrime(q)
          /\ phi = (p - 1) * (q - 1) /\ Coprime(phi, request.e)
      BY <1>8 DEF MakeKeys, InState, StepInv, PrimesInv, ProgressInv, Right
    <2>2. keys' = KeyPair(p * q, request.e, (p - 1) * (q - 1), p, q)
      BY <1>8, <2>1 DEF MakeKeys, n
    <2>3. MadeOfPrimes(keys)'
      BY <1>1, <2>1, <2>2, KeyPairIsMade
    <2>. QED
      BY <1>1, <1>2, <1>8, <2>3 DEF MakeKeys, InState, StepInv, CandidateInv, PrimesInv, ProgressInv
  <1>9. CASE Resume
    <2>1. bits' = bits
      BY <1>9 DEF Resume, bits
    <2>. QED
      BY <1>1, <1>2, <1>9, <2>1 DEF Resume, StepInv, CandidateInv, PrimesInv, ProgressInv
  <1>10. CASE UNCHANGED vars
    <2>1. bits' = bits /\ (MadeOfPrimes(keys)' <=> MadeOfPrimes(keys))
      BY <1>10 DEF vars, bits, MadeOfPrimes
    <2>. QED
      BY <1>1, <1>2, <1>10, <2>1 DEF vars, StepInv, CandidateInv, PrimesInv, ProgressInv
  <1>. QED
    BY <1>4, <1>5, <1>6, <1>7, <1>8, <1>9, <1>10

-----------------------------------------------------------------------------
(* The search with a callback                                              *)

(* No modulus under 8 bits is asked for.  A prime of less than four bits   *)
(* would be raised to 31 or more.                                          *)
Ample == \A r \in Requests : QBits(r.bits) >= 4

(* A prime that is kept.                                                   *)
Kept(prime) ==
    /\ prime \in Nat /\ prime > 2 /\ IsPrime(prime)
    /\ Ample => BitLength(prime) \in QBits(request.bits) .. PBits(request.bits) + 1

(* The inductive invariant of the search with a callback.                  *)
SearchInv ==
    /\ request \in Requests /\ wanted \in {"p", "q"} /\ deltaIdx \in 0 .. 7
    /\ num # None => num \in Nat /\ num > 2
    /\ keys = None /\ num # None => num >= PowersOf(2)[Async!bits - 1]
    /\ p # None => Kept(p)
    /\ q # None => Kept(q)
    /\ keys = None => IF wanted = "p" THEN p = None ELSE p # None /\ q = None
    /\ keys # None => MadeOfPrimes(keys)

(* The search with a callback uses the same arithmetic.                    *)
LEMMA SameArithmetic ==
    /\ \A b : Async!PBits(b) = PBits(b) /\ Async!QBits(b) = QBits(b)
    /\ \A a : Async!IsPrime(a) <=> IsPrime(a)
    /\ \A a, b : Async!Coprime(a, b) <=> Coprime(a, b)
    /\ \A a : Async!BitLength(a) = BitLength(a)
    /\ \A b : Async!Starts(b) = Starts(b)
    /\ \A i : Async!Delta(i) = Delta(i)
    /\ \A m, e, f, a, b : Async!KeyPair(m, e, f, a, b) = KeyPair(m, e, f, a, b)
  <1>1. \A b : Async!PBits(b) = PBits(b) /\ Async!QBits(b) = QBits(b)
    BY DEF Async!PBits, PBits, Async!QBits, QBits
  <1>2. /\ \A a : Async!IsPrime(a) <=> IsPrime(a)
        /\ \A a, b : Async!Coprime(a, b) <=> Coprime(a, b)
    BY DEF Async!IsPrime, IsPrime, Async!Coprime, Coprime, Async!Divides, Divides
  <1>3. \A b : Async!PowersOf(b) = PowersOf(b)
    BY Zenon DEF Async!PowersOf, PowersOf
  <1>4. \A a : Async!BitLength(a) = BitLength(a)
    BY <1>3, Zenon DEF Async!BitLength, BitLength
  <1>5. \A b : Async!Starts(b) = Starts(b)
    BY <1>3 DEF Async!Starts, Starts, Async!Raised, Raised
  <1>6. \A i : Async!Delta(i) = Delta(i)
    BY DEF Async!Delta, Delta
  <1>7. \A s : Async!Min(s) = Min(s)
    BY Zenon DEF Async!Min, Min
  <1>8. \A a, m : Async!ModInverse(a, m) = ModInverse(a, m)
    BY <1>7, Zenon DEF Async!ModInverse, ModInverse, Async!Divides, Divides
  <1>9. \A m, e, f, a, b : Async!KeyPair(m, e, f, a, b) = KeyPair(m, e, f, a, b)
    BY <1>8, ZenonT(60) DEF Async!KeyPair, KeyPair
  <1>. QED
    BY <1>1, <1>2, <1>4, <1>5, <1>6, <1>9

(* The length of the prime that is searched for.                           *)
LEMMA AsyncBits ==
    ASSUME request \in Requests
    PROVE  /\ Async!bits \in Nat /\ Async!bits > 1
           /\ Async!bits >= QBits(request.bits) /\ Async!bits =< PBits(request.bits)
           /\ Ample => Async!bits >= 4
           /\ Async!bits - 1 \in Nat /\ PowersOf(2)[Async!bits - 1] \in Nat
  <1>1. /\ PBits(request.bits) \in Nat /\ QBits(request.bits) \in Nat
        /\ QBits(request.bits) > 1 /\ QBits(request.bits) =< PBits(request.bits)
    BY RequestNumbers
  <1>2. Ample => QBits(request.bits) >= 4
    BY DEF Ample
  <1>3. Async!bits = PBits(request.bits) \/ Async!bits = QBits(request.bits)
    BY SameArithmetic DEF Async!bits
  <1>4. /\ Async!bits \in Nat /\ Async!bits > 1
        /\ Async!bits >= QBits(request.bits) /\ Async!bits =< PBits(request.bits)
        /\ Ample => Async!bits >= 4
    BY <1>1, <1>2, <1>3
  <1>5. Async!bits - 1 \in Nat
    BY <1>4
  <1>. QED
    BY <1>4, <1>5, PowersOfTwo

(* modInverse gives a number.                                              *)
LEMMA InverseIsNumber ==
    ASSUME NEW a \in Nat, NEW m \in Nat
    PROVE  ModInverse(a, m) \in Int
  <1>. DEFINE factors == {k \in 0 .. a - 1 : Divides(a, 1 + (k * m))}
  <1>1. CASE a = 0 \/ factors = {}
    BY <1>1 DEF ModInverse
  <1>2. CASE a # 0 /\ factors # {}
    <2>1. factors \in SUBSET Nat
      <3>1. factors \subseteq 0 .. a - 1
        OBVIOUS
      <3>. HIDE DEF factors
      <3>. QED
        BY <3>1
    <2>2. ModInverse(a, m) = (1 + (Min(factors) * m)) \div a
      BY <1>2 DEF ModInverse
    <2>. HIDE DEF factors
    <2>3. \E x \in factors : \A y \in factors : x =< y
      BY <1>2, <2>1, LeastNatural
    <2>4. Min(factors) \in Nat
      BY <2>1, <2>3 DEF Min
    <2>5. 1 + (Min(factors) * m) \in Nat
      BY <2>4
    <2>. QED
      BY <1>2, <2>2, <2>5
  <1>. QED
    BY <1>1, <1>2

(* A key pair is told from None.                                           *)
LEMMA KeyPairIsNumbers ==
    ASSUME request \in Requests, NEW a \in Nat, NEW b \in Nat, a > 2, b > 2
    PROVE  KeyPair(a * b, request.e, (a - 1) * (b - 1), a, b) # None
  <1>. DEFINE m == (a - 1) * (b - 1)
              d == ModInverse(request.e, m)
              i == ModInverse(b, a)
  <1>1. request.e \in Nat /\ a - 1 \in Nat \ {0} /\ b - 1 \in Nat \ {0}
    BY RequestNumbers
  <1>2. m \in Nat /\ a * b \in Int
    BY <1>1
  <1>. HIDE DEF m
  <1>3. d \in Int /\ i \in Int
    BY <1>1, <1>2, InverseIsNumber
  <1>. HIDE DEF d, i
  <1>4. d % (a - 1) \in Int /\ d % (b - 1) \in Int
    BY <1>1, <1>3
  <1>5. KeyPair(a * b, request.e, m, a, b) =
          [n |-> a * b, e |-> request.e, d |-> d, p |-> a, q |-> b,
           dP |-> d % (a - 1), dQ |-> d % (b - 1), qInv |-> i]
    BY DEF KeyPair, d, i
  <1>6. KeyPair(a * b, request.e, m, a, b) \in KeyNumbers
    BY <1>1, <1>2, <1>3, <1>4, <1>5 DEF KeyNumbers
  <1>. QED
    BY <1>6, RequestsAssumption DEF m

(* finish keeps primes, or makes the keys of them.                         *)
LEMMA FinishStep ==
    ASSUME request \in Requests, request' = request, num # None => num \in Nat /\ num > 2,
           wanted \in {"p", "q"}, deltaIdx \in 0 .. 7,
           NEW a, NEW b, Kept(a), Kept(b), b =< a, Async!Finish(a, b)
    PROVE  SearchInv'
  <1>. USE RequestsAssumption
  <1>1. \A prime : Kept(prime)' <=> Kept(prime)
    BY DEF Kept, Ample
  <1>2. /\ a \in Nat /\ b \in Nat /\ a > 2 /\ b > 2 /\ IsPrime(a) /\ IsPrime(b)
        /\ a # None /\ b # None
    BY DEF Kept
  <1>3. ASSUME p' = None, q' = None \/ q' = b, Async!GetPrime("p")
        PROVE  SearchInv'
    BY <1>1, <1>2, <1>3 DEF Async!GetPrime, SearchInv
  <1>4. ASSUME p' = a, q' = None, Async!GetPrime("q")
        PROVE  SearchInv'
    BY <1>1, <1>2, <1>4 DEF Async!GetPrime, SearchInv
  <1>5. ASSUME Coprime(Async!Phi(a, b), request.e), p' = a, q' = b,
               keys' = KeyPair(a * b, request.e, Async!Phi(a, b), a, b),
               UNCHANGED <<wanted, num, deltaIdx>>
        PROVE  SearchInv'
    <2>1. Async!Phi(a, b) = (a - 1) * (b - 1)
      BY DEF Async!Phi
    <2>2. MadeOfPrimes(keys)'
      BY <1>2, <1>5, <2>1, KeyPairIsMade
    <2>3. keys' # None
      BY <1>2, <1>5, <2>1, KeyPairIsNumbers
    <2>. QED
      BY <1>1, <1>2, <1>5, <2>2, <2>3 DEF SearchInv
  <1>6. \/ p' = None /\ (q' = None \/ q' = b) /\ Async!GetPrime("p")
        \/ p' = a /\ q' = None /\ Async!GetPrime("q")
        \/ /\ Coprime(Async!Phi(a, b), request.e) /\ p' = a /\ q' = b
           /\ keys' = KeyPair(a * b, request.e, Async!Phi(a, b), a, b)
           /\ UNCHANGED <<wanted, num, deltaIdx>>
    <2>1. Async!Coprime(Async!Phi(a, b), request.e) => Coprime(Async!Phi(a, b), request.e)
      BY SameArithmetic
    <2>2. Async!KeyPair(a * b, request.e, Async!Phi(a, b), a, b) = KeyPair(a * b, request.e, Async!Phi(a, b), a, b)
      BY SameArithmetic
    <2>. QED
      BY <2>1, <2>2 DEF Async!Finish, Async!Again
  <1>. QED
    BY <1>3, <1>4, <1>5, <1>6

(* A prime that was found is kept, or brings the search to its end.        *)
LEMMA TryStep ==
    ASSUME SearchInv, keys = None, NEW c \in Nat, c > 2, c >= PowersOf(2)[Async!bits - 1],
           Ample /\ IsPrime(c) => BitLength(c) \in QBits(request.bits) .. PBits(request.bits) + 1,
           num # None, Async!Try(c)
    PROVE  SearchInv'
  <1>. USE RequestsAssumption
  <1>1. request' = request /\ request \in Requests /\ wanted \in {"p", "q"} /\ deltaIdx \in 0 .. 7
        /\ num \in Nat /\ num > 2
    BY DEF Async!Try, SearchInv
  <1>2. \A prime : Kept(prime)' <=> Kept(prime)
    BY <1>1 DEF Kept, Ample
  <1>3. CASE IsPrime(c)
    <2>1. Kept(c) /\ c # None
      BY <1>3 DEF Kept
    <2>2. Async!FoundP(c) \/ Async!FoundQ(c)
      BY <1>3, SameArithmetic DEF Async!Try
    <2>3. ASSUME NEW a, NEW b, Kept(a), Kept(b), Async!FinishOrdered(a, b)
          PROVE  SearchInv'
      <3>1. a \in Nat /\ b \in Nat
        BY <2>3 DEF Kept
      <3>2. CASE a < b
        <4>1. Async!Finish(b, a)
          BY <2>3, <3>2 DEF Async!FinishOrdered, Async!Ordered
        <4>2. a =< b
          BY <3>1, <3>2
        <4>. QED
          BY <1>1, <2>3, <4>1, <4>2, FinishStep
      <3>3. CASE ~ a < b
        <4>1. Async!Finish(a, b)
          BY <2>3, <3>3 DEF Async!FinishOrdered, Async!Ordered
        <4>2. b =< a
          BY <3>1, <3>3
        <4>. QED
          BY <1>1, <2>3, <4>1, <4>2, FinishStep
      <3>. QED
        BY <3>2, <3>3
    <2>4. CASE wanted = "p" /\ q # None
      <3>1. Kept(q) /\ Async!FinishOrdered(c, q)
        BY <2>2, <2>4 DEF Async!FoundP, Async!FoundQ, SearchInv
      <3>. QED
        BY <2>1, <2>3, <3>1
    <2>5. CASE wanted = "p" /\ q = None
      <3>1. p' = c /\ q' = None /\ Async!GetPrime("q")
        BY <2>2, <2>5 DEF Async!FoundP, Async!FoundQ
      <3>. QED
        BY <1>1, <1>2, <2>1, <3>1 DEF Async!GetPrime, SearchInv
    <2>6. CASE wanted = "q"
      <3>1. Kept(p) /\ Async!FinishOrdered(p, c)
        BY <2>2, <2>6 DEF Async!FoundP, Async!FoundQ, SearchInv
      <3>. QED
        BY <2>1, <2>3, <3>1
    <2>. QED
      BY <1>1, <2>4, <2>5, <2>6
  <1>4. CASE ~ IsPrime(c)
    <2>1. /\ num' = c + Delta(deltaIdx) /\ deltaIdx' = (deltaIdx + 1) % 8
          /\ UNCHANGED <<p, q, wanted, keys>>
      BY <1>4, SameArithmetic DEF Async!Try, Async!RaisedOn
    <2>2. Delta(deltaIdx) \in Nat \ {0} /\ (deltaIdx + 1) % 8 \in 0 .. 7
      BY <1>1, DeltaIsPositive
    <2>3. Async!bits' = Async!bits
      BY <1>1, <2>1, SameArithmetic DEF Async!bits
    <2>4. PowersOf(2)[Async!bits - 1] \in Nat
      BY <1>1, AsyncBits
    <2>5. num' \in Nat /\ num' > 2 /\ num' >= PowersOf(2)[Async!bits - 1]
      BY <2>1, <2>2, <2>4
    <2>. QED
      BY <1>1, <1>2, <2>1, <2>2, <2>3, <2>5 DEF SearchInv
  <1>. QED
    BY <1>3, <1>4

(* A turn tries a number that fits, or draws one.                          *)
LEMMA TurnTries ==
    ASSUME SearchInv, Async!Next
    PROVE  /\ keys = None
           /\ \/ \E c \in Nat :
                  /\ c > 2 /\ c >= PowersOf(2)[Async!bits - 1]
                  /\ Ample => BitLength(c) \in QBits(request.bits) .. PBits(request.bits) + 1
                  /\ num # None /\ Async!Try(c)
              \/ \E start \in Nat :
                  start > 2 /\ start >= PowersOf(2)[Async!bits - 1] /\ Async!Draw(start)
  <1>. USE RequestsAssumption
  <1>1. request \in Requests /\ wanted \in {"p", "q"}
    BY DEF SearchInv
  <1>2. /\ Async!bits \in Nat /\ Async!bits > 1
        /\ Async!bits >= QBits(request.bits) /\ Async!bits =< PBits(request.bits)
        /\ Ample => Async!bits >= 4
        /\ Async!bits - 1 \in Nat /\ PowersOf(2)[Async!bits - 1] \in Nat
        /\ PBits(request.bits) \in Nat /\ QBits(request.bits) \in Nat
    BY <1>1, AsyncBits, RequestNumbers
  <1>3. \A start \in Async!Starts(Async!bits) :
            /\ start \in Nat /\ start > 2 /\ start >= PowersOf(2)[Async!bits - 1]
            /\ Ample => BitLength(start) =< Async!bits + 1
    BY <1>2, StartIs, SameArithmetic
  <1>4. ASSUME NEW c \in Nat, c >= PowersOf(2)[Async!bits - 1], Ample => BitLength(c) =< Async!bits + 1
        PROVE  Ample => BitLength(c) \in QBits(request.bits) .. PBits(request.bits) + 1
    <2>1. BitLength(c) \in Nat /\ BitLength(c) >= Async!bits
      BY <1>2, <1>4, BitLengthFits, BitLengthBounds
    <2>. QED
      BY <1>2, <1>4, <2>1
  <1>5. CASE Async!Candidate
    <2>1. keys = None /\ num # None /\ ~ BitLength(num) > Async!bits /\ Async!Try(num)
      BY <1>5, SameArithmetic DEF Async!Candidate, Async!Searching, Async!TooLong
    <2>2. num \in Nat /\ num > 2 /\ num >= PowersOf(2)[Async!bits - 1]
      BY <2>1 DEF SearchInv
    <2>3. BitLength(num) =< Async!bits + 1
      BY <1>2, <2>1, <2>2, BitLengthFits
    <2>. QED
      BY <1>4, <2>1, <2>2, <2>3
  <1>6. ASSUME NEW start \in Async!Starts(Async!bits), Async!Draw(start)
        PROVE  keys = None /\ start \in Nat /\ start > 2 /\ start >= PowersOf(2)[Async!bits - 1]
    BY <1>3, <1>6 DEF Async!Draw, Async!Searching
  <1>7. ASSUME NEW start \in Async!Starts(Async!bits), Async!Redraw(start)
        PROVE  /\ keys = None /\ num # None /\ Async!Try(start)
               /\ start \in Nat /\ start > 2 /\ start >= PowersOf(2)[Async!bits - 1]
               /\ Ample => BitLength(start) \in QBits(request.bits) .. PBits(request.bits) + 1
    BY <1>3, <1>4, <1>7 DEF Async!Redraw, Async!Searching
  <1>. QED
    BY <1>5, <1>6, <1>7 DEF Async!Next

(* Every turn of the event loop keeps the invariant.                       *)
LEMMA SearchInvStep ==
    ASSUME SearchInv, Async!Next
    PROVE  SearchInv'
  <1>1. ASSUME NEW start \in Nat, start > 2, start >= PowersOf(2)[Async!bits - 1],
               keys = None, Async!Draw(start)
        PROVE  SearchInv'
    <2>1. num' = start /\ UNCHANGED <<request, p, q, wanted, deltaIdx, keys>>
      BY <1>1 DEF Async!Draw
    <2>2. Async!bits' = Async!bits
      BY <2>1, SameArithmetic DEF Async!bits
    <2>3. \A prime : Kept(prime)' <=> Kept(prime)
      BY <2>1 DEF Kept, Ample
    <2>. QED
      BY <1>1, <2>1, <2>2, <2>3 DEF SearchInv
  <1>. QED
    BY <1>1, TurnTries, TryStep

-----------------------------------------------------------------------------
(* Both together                                                           *)

(* The invariant of the one that runs.                                     *)
GenerationInv ==
    /\ hasCallback \in BOOLEAN
    /\ IF hasCallback THEN SearchInv ELSE StepInv

(* Whichever of the two runs keeps its invariant.                          *)
THEOREM GenerationInvariant == GenerationSpec => []GenerationInv
  <1>1. GenerationInit => GenerationInv
    <2>. SUFFICES ASSUME GenerationInit
                  PROVE  GenerationInv
      OBVIOUS
    <2>1. StepInv
      BY RequestsAssumption DEF GenerationInit, Init, StepInv, CandidateInv, PrimesInv, ProgressInv
    <2>2. SearchInv
      BY RequestsAssumption DEF GenerationInit, Init, Async!Init, SearchInv
    <2>. QED
      BY <2>1, <2>2 DEF GenerationInit, GenerationInv
  <1>2. GenerationInv /\ [GenerationNext]_generationVars => GenerationInv'
    <2>. SUFFICES ASSUME GenerationInv, [GenerationNext]_generationVars
                  PROVE  GenerationInv'
      OBVIOUS
    <2>1. CASE Step
      <3>1. StepInv /\ Next /\ ~ hasCallback /\ hasCallback' = hasCallback
        BY <2>1 DEF Step, GenerationInv
      <3>2. StepInv'
        BY <3>1, SearchStep, StateStep DEF Next, Round
      <3>. QED
        BY <3>1, <3>2 DEF GenerationInv
    <2>2. CASE Turn
      <3>1. SearchInv /\ Async!Next /\ hasCallback /\ hasCallback' = hasCallback
        BY <2>2 DEF Turn, GenerationInv
      <3>. QED
        BY <3>1, SearchInvStep DEF GenerationInv
    <2>3. CASE UNCHANGED generationVars
      <3>1. UNCHANGED vars /\ wanted' = wanted /\ hasCallback' = hasCallback
        BY <2>3 DEF generationVars
      <3>2. StepInv => StepInv'
        BY <3>1, StateStep
      <3>3. SearchInv => SearchInv'
        <4>1. /\ Async!bits' = Async!bits
              /\ MadeOfPrimes(keys)' <=> MadeOfPrimes(keys)
              /\ \A prime : Kept(prime)' <=> Kept(prime)
          BY <3>1, SameArithmetic DEF vars, Async!bits, MadeOfPrimes, Kept, Ample
        <4>. QED
          BY <3>1, <4>1 DEF vars, SearchInv
      <3>. QED
        BY <3>1, <3>2, <3>3 DEF GenerationInv
    <2>. QED
      BY <2>1, <2>2, <2>3 DEF GenerationNext
  <1>. QED
    BY <1>1, <1>2, PTL DEF GenerationSpec

(* The primes in play have the lengths asked for, in a state machine       *)
(* exactly and, where a search with a callback drew twice, a bit more at   *)
(* most, for all requests of 8 bits or more (rsaKeyGeneration).            *)
THEOREM PrimesAreInPlay ==
    ASSUME Ample
    PROVE  GenerationSpec => []PrimesInPlayFit
  <1>1. GenerationInv => PrimesInPlayFit
    <2>. SUFFICES ASSUME GenerationInv
                  PROVE  PrimesInPlayFit
      OBVIOUS
    <2>1. CASE hasCallback
      <3>1. SearchInv
        BY <2>1 DEF GenerationInv
      <3>2. Async!KeptPrimeFits
        <4>1. \A prime \in {p, q} \ {None} :
                  /\ IsPrime(prime)
                  /\ BitLength(prime) \in QBits(request.bits) .. PBits(request.bits) + 1
          BY <3>1 DEF SearchInv, Kept
        <4>2. keys = None => IF wanted = "p" THEN p = None ELSE p # None /\ q = None
          BY <3>1 DEF SearchInv
        <4>. QED
          BY <4>1, <4>2, SameArithmetic DEF Async!KeptPrimeFits
      <3>. QED
        BY <2>1, <3>2 DEF PrimesInPlayFit
    <2>2. CASE ~ hasCallback
      <3>1. StepInv
        BY <2>2 DEF GenerationInv
      <3>2. PrimesFit
        BY <3>1 DEF StepInv, PrimesInv, ProgressInv, Right, PrimesFit
      <3>. QED
        BY <2>2, <3>2 DEF PrimesInPlayFit
    <2>. QED
      BY <2>1, <2>2
  <1>. QED
    BY <1>1, GenerationInvariant, PTL

(* For all requests, the exponents of a key pair undo each other, modulo   *)
(* each prime too, and qInv is the inverse of q.                           *)
THEOREM KeysAreInverses == GenerationSpec => []KeysAreInverse
  <1>1. GenerationInv => KeysAreInverse
    BY MadeKeysAreInverse DEF GenerationInv, SearchInv, StepInv
  <1>. QED
    BY <1>1, GenerationInvariant, PTL

(* Of a key pair whose primes differ, one operation undoes the other:      *)
(* every number below n is what it was after both exponents.               *)
KeysUndo ==
    keys # None /\ keys.p # keys.q =>
        \A a \in 0 .. keys.n - 1 : PowersOf(a)[keys.e * keys.d] % keys.n = a

(* For all requests, a key pair that is delivered, by either generation,   *)
(* opens what it closed.                                                   *)
THEOREM KeysUndoEachOther == GenerationSpec => []KeysUndo
  <1>1. GenerationInv => KeysUndo
    <2>. SUFFICES ASSUME GenerationInv, keys # None, keys.p # keys.q,
                         NEW a \in 0 .. keys.n - 1
                  PROVE  PowersOf(a)[keys.e * keys.d] % keys.n = a
      BY DEF KeysUndo
    <2>1. request \in Requests /\ MadeOfPrimes(keys)
      BY DEF GenerationInv, SearchInv, StepInv
    <2>2. Inverses(keys.e, keys.d, keys.p, keys.q) /\ keys.n = keys.p * keys.q
      BY <2>1, MadeExponents
    <2>3. keys.n \in Nat /\ keys.e * keys.d \in Nat
      BY <2>2 DEF Inverses
    <2>4. a \in Nat /\ a \in Int /\ a < keys.n /\ keys.n \in Nat \ {0}
      BY <2>3
    <2>5. Congruent(PowersOf(a)[keys.e * keys.d], a, keys.n)
      BY <2>2, <2>4, ExponentsUndo
    <2>6. PowersOf(a)[keys.e * keys.d] \in Int
      BY <2>3, <2>4, PowersType
    <2>7. PowersOf(a)[keys.e * keys.d] % keys.n = a % keys.n
      BY <2>4, <2>5, <2>6, CongruentIs
    <2>. QED
      BY <2>4, <2>7
  <1>. QED
    BY <1>1, GenerationInvariant, PTL

-----------------------------------------------------------------------------
(* Refinement                                                              *)

(* A key pair that is made of two primes is as it was asked for.           *)
LEMMA DeliversPair ==
    ASSUME keys = None, request \in Requests, request' = request, NEW a \in Nat, NEW b \in Nat,
           a > 2, b > 2, b =< a, IsPrime(a), IsPrime(b),
           Coprime(a - 1, request.e), Coprime(b - 1, request.e),
           BitLength(a * b) = request.bits,
           keys' = KeyPair(a * b, request.e, (a - 1) * (b - 1), a, b)
    PROVE  Keys!Deliver
  <1>1. keys'.p = a /\ keys'.q = b
    BY DEF KeyPair
  <1>2. IsKeyPairFor(keys', request)
    BY <1>1 DEF IsKeyPairFor
  <1>3. keys' # None
    BY KeyPairIsNumbers
  <1>. QED
    BY <1>2, <1>3 DEF Keys!Deliver

(* A step delivers what was asked for, or delivers nothing.                *)
LEMMA StepDelivers ==
    ASSUME StepInv, Next
    PROVE  [Keys!Deliver]_<<request, keys>>
  <1>1. CASE MakeKeys
    <2>1. /\ p \in Nat /\ q \in Nat /\ p > 2 /\ q > 2 /\ q =< p /\ IsPrime(p) /\ IsPrime(q)
          /\ BitLength(p * q) = request.bits
          /\ Coprime(p - 1, request.e) /\ Coprime(q - 1, request.e)
          /\ phi = (p - 1) * (q - 1) /\ request \in Requests
      BY <1>1, RequestsAssumption DEF MakeKeys, InState, StepInv, PrimesInv, ProgressInv, Right
    <2>2. keys' = KeyPair(p * q, request.e, (p - 1) * (q - 1), p, q)
      BY <1>1, <2>1 DEF MakeKeys, n
    <2>. QED
      BY <1>1, <2>1, <2>2, DeliversPair DEF MakeKeys, InState
  <1>2. CASE ~ MakeKeys
    <2>. SUFFICES UNCHANGED <<request, keys>>
      OBVIOUS
    <2>1. ASSUME NEW start \in Starts(bits), Draw(start)
          PROVE  UNCHANGED <<request, keys>>
      BY <2>1 DEF Draw
    <2>2. CASE RejectTooLong \/ AcceptPrime \/ NextCandidate \/ CheckExponent \/ StorePrime
      BY <2>2 DEF RejectTooLong, AcceptPrime, NextCandidate, CheckExponent, StorePrime
    <2>3. CASE Order \/ ComputePhi \/ CheckPhi \/ CheckModulus \/ Resume
      BY <2>3 DEF Order, ComputePhi, CheckPhi, CheckModulus, Resume
    <2>. QED
      BY <1>2, <2>1, <2>2, <2>3 DEF Next, Round
  <1>. QED
    BY <1>1, <1>2

(* finish delivers, or the search goes on.                                 *)
LEMMA FinishDelivers ==
    ASSUME request \in Requests, keys = None, request' = request,
           NEW a, NEW b, Kept(a), Kept(b), b =< a, Async!Finish(a, b)
    PROVE  Keys!Deliver \/ keys' = keys
  <1>1. CASE Async!GetPrime("p") \/ Async!GetPrime("q")
    BY <1>1 DEF Async!GetPrime
  <1>2. CASE /\ Async!Fits(a) /\ Async!Fits(b) /\ Async!RightLength(a, b)
             /\ keys' = Async!KeyPair(a * b, request.e, Async!Phi(a, b), a, b)
    <2>1. /\ Coprime(a - 1, request.e) /\ Coprime(b - 1, request.e)
          /\ BitLength(a * b) = request.bits
      BY <1>2, SameArithmetic DEF Async!Fits, Async!RightLength
    <2>2. keys' = KeyPair(a * b, request.e, (a - 1) * (b - 1), a, b)
      BY <1>2, SameArithmetic DEF Async!Phi
    <2>. QED
      BY <2>1, <2>2, DeliversPair DEF Kept
  <1>. QED
    BY <1>1, <1>2 DEF Async!Finish, Async!Again

(* A prime that was found ends in a delivery, or the search goes on.       *)
LEMMA TryDelivers ==
    ASSUME SearchInv, keys = None, NEW c \in Nat, c > 2,
           Ample /\ IsPrime(c) => BitLength(c) \in QBits(request.bits) .. PBits(request.bits) + 1,
           Async!Try(c)
    PROVE  [Keys!Deliver]_<<request, keys>>
  <1>1. request' = request /\ request \in Requests /\ wanted \in {"p", "q"}
    BY DEF Async!Try, SearchInv
  <1>2. CASE IsPrime(c)
    <2>1. Kept(c)
      BY <1>2 DEF Kept
    <2>2. Async!FoundP(c) \/ Async!FoundQ(c)
      BY <1>2, SameArithmetic DEF Async!Try
    <2>3. ASSUME NEW a, NEW b, Kept(a), Kept(b), Async!FinishOrdered(a, b)
          PROVE  Keys!Deliver \/ keys' = keys
      <3>1. a \in Nat /\ b \in Nat
        BY <2>3 DEF Kept
      <3>2. CASE a < b
        <4>1. Async!Finish(b, a)
          BY <2>3, <3>2 DEF Async!FinishOrdered, Async!Ordered
        <4>2. a =< b
          BY <3>1, <3>2
        <4>. QED
          BY <1>1, <2>3, <4>1, <4>2, FinishDelivers
      <3>3. CASE ~ a < b
        <4>1. Async!Finish(a, b)
          BY <2>3, <3>3 DEF Async!FinishOrdered, Async!Ordered
        <4>2. b =< a
          BY <3>1, <3>3
        <4>. QED
          BY <1>1, <2>3, <4>1, <4>2, FinishDelivers
      <3>. QED
        BY <3>2, <3>3
    <2>4. CASE wanted = "p" /\ q # None
      <3>1. Kept(q) /\ Async!FinishOrdered(c, q)
        BY <2>2, <2>4 DEF Async!FoundP, Async!FoundQ, SearchInv
      <3>. QED
        BY <1>1, <2>1, <2>3, <3>1
    <2>5. CASE wanted = "p" /\ q = None
      BY <1>1, <2>2, <2>5 DEF Async!FoundP, Async!FoundQ, Async!GetPrime
    <2>6. CASE wanted = "q"
      <3>1. Kept(p) /\ Async!FinishOrdered(p, c)
        BY <2>2, <2>6 DEF Async!FoundP, Async!FoundQ, SearchInv
      <3>. QED
        BY <1>1, <2>1, <2>3, <3>1
    <2>. QED
      BY <1>1, <2>4, <2>5, <2>6
  <1>3. CASE ~ IsPrime(c)
    BY <1>1, <1>3, SameArithmetic DEF Async!Try, Async!RaisedOn
  <1>. QED
    BY <1>2, <1>3

(* A turn of the event loop delivers a key pair, or shows nothing.         *)
LEMMA SearchDelivers ==
    ASSUME SearchInv, Async!Next
    PROVE  [Keys!Deliver]_<<request, keys>>
  <1>1. ASSUME NEW start \in Nat, Async!Draw(start)
        PROVE  UNCHANGED <<request, keys>>
    BY <1>1 DEF Async!Draw
  <1>. QED
    BY <1>1, TurnTries, TryDelivers

(* For all requests, with a callback or in steps, and wherever the calls   *)
(* end, key generation gives one key pair of the modulus length and        *)
(* exponent that were asked for, all numbers of which belong to its two    *)
(* primes (generateKeyPair, stepKeyPairGenerationState).                   *)
THEOREM KeysRefined == GenerationSpec => RefinesKeys
  <1>1. GenerationInit => Keys!Init
    BY DEF GenerationInit, Init, Keys!Init
  <1>2. GenerationInv /\ [GenerationNext]_generationVars => [Keys!Deliver]_<<request, keys>>
    BY StepDelivers, SearchDelivers
    DEF GenerationNext, GenerationInv, Step, Turn, generationVars, vars
  <1>. QED
    BY <1>1, <1>2, GenerationInvariant, PTL DEF GenerationSpec, RefinesKeys, Keys!Spec
=============================================================================

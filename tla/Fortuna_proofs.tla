-------------------------- MODULE Fortuna_proofs --------------------------
(***************************************************************************)
(* The generator's type, the limit on a key, the freshness of its output,  *)
(* the use of its pools and the entropy of its reseeds, for any number of  *)
(* requests, pools and bytes.                                              *)
(*                                                                         *)
(* FortunaInv is inductive: a key that is there was seeded since every     *)
(* caller began that still draws on it. For the pools the count of reseeds *)
(* tells the age of each; for reseeds, what the seed file was asked for is *)
(* enough until it answers, unless another reseed came before.             *)
(***************************************************************************)
EXTENDS Fortuna, FiniteSetTheorems, TLAPS

(* A key in place was seeded since every caller that now draws on it came. *)
KeyIsFresh == keyed => {c \in Callers : turn[c] # "idle"} \subseteq seeded

(* What a pool gets of collected bytes is a number of bytes.               *)
LEMMA ShareType ==
    ASSUME NEW k \in Pools, NEW from \in Nat, NEW n \in Nat
    PROVE  Share(k, from, n) \in Nat
  <1> DEFINE S == {j \in 0 .. n - 1 : (from + j) % NumPools = k}
  <1>1. IsFiniteSet(0 .. n - 1)
    BY FS_Interval
  <1>2. IsFiniteSet(S)
    BY <1>1, FS_Subset
  <1> QED
    BY <1>2, FS_CardinalityType DEF Share

(* So is what is in it afterwards ...                                      *)
LEMMA PoolAfterType ==
    ASSUME TypeOK, NEW n \in Nat
    PROVE  PoolAfter(n) \in Pools
  BY FortunaAssumption DEF TypeOK, PoolAfter, Pools

(* ... in every pool.                                                      *)
LEMMA CollectedType ==
    ASSUME TypeOK, NEW n \in Nat
    PROVE  Collected(n) \in [Pools -> Nat]
  <1>1. pool \in Nat
    BY FortunaAssumption DEF TypeOK, Pools
  <1>2. \A k \in Pools : pools[k] \in Nat /\ Share(k, pool, n) \in Nat
    BY <1>1, ShareType DEF TypeOK
  <1> QED
    BY <1>2 DEF Collected

(* There is a first pool.                                                  *)
LEMMA ZeroIsAPool == 0 \in Pools
  BY FortunaAssumption DEF Pools

(* The seed file is asked for a number of bytes.                           *)
LEMMA NeededType ==
    ASSUME TypeOK
    PROVE  Needed \in Nat
  <1>2. pools[0] \in Nat /\ MinPool \in Nat /\ NumPools \in Nat
    BY ZeroIsAPool, FortunaAssumption DEF TypeOK
  <1>3. CASE pools[0] >= MinPool
    BY <1>3 DEF Needed
  <1>4. CASE ~(pools[0] >= MinPool)
    <2> DEFINE d == MinPool - pools[0]
    <2>1. d \in Nat
      BY <1>2, <1>4
    <2>2. d * NumPools \in Nat
      BY <2>1, <1>2
    <2> QED
      BY <2>2, <1>4 DEF Needed
  <1> QED
    BY <1>3, <1>4

(* What a reseed leaves in the pools, the counters and the observations.   *)
LEMMA SeedType ==
    ASSUME TypeOK, NEW c \in Callers, NEW n \in Nat, Seed(c, n)
    PROVE  /\ reseeds' \in 0 .. MaxReseeds
           /\ pools' \in [Pools -> Nat]
           /\ pool' \in Pools
           /\ keyed' = TRUE
           /\ seeded' = {d \in Callers : turn[d] # "idle"}
           /\ overtaken' \subseteq Requests
           /\ fill' \in Nat
           /\ since' \in [Pools -> Nat]
  <1>1. Collected(n) \in [Pools -> Nat]
    BY CollectedType
  <1>2. pool' \in Pools
    BY PoolAfterType DEF Seed
  <1>3. reseeds' \in 0 .. MaxReseeds
    BY FortunaAssumption DEF Seed, NextReseeds, TypeOK
  <1>4. pools' \in [Pools -> Nat] /\ fill' \in Nat
    BY <1>1, ZeroIsAPool DEF Seed
  <1>5. since' \in [Pools -> Nat]
    BY DEF Seed, TypeOK
  <1>6. overtaken' \subseteq Requests
    BY DEF Seed, TypeOK
  <1> QED
    BY <1>2, <1>3, <1>4, <1>5, <1>6 DEF Seed

(* A block leaves a caller a number of bytes to want.                      *)
LEMMA ProduceType ==
    ASSUME TypeOK, NEW c \in Callers, NEW from \in Nat, Produce(c, from)
    PROVE  generated' \in Nat /\ left' \in [Callers -> Nat]
  <1>1. LeftAfterBlock(c) \in Nat
    BY FortunaAssumption DEF LeftAfterBlock, TypeOK
  <1> QED
    BY <1>1, FortunaAssumption DEF Produce, TypeOK

(* The strengthening: type, limit and freshness are inductive together.    *)
FortunaInv == TypeOK /\ LimitRespected /\ KeyIsFresh

(* A new generator satisfies the invariant.                                *)
LEMMA InitEstablishes == Init => FortunaInv
  <1> SUFFICES ASSUME Init PROVE FortunaInv
    OBVIOUS
  <1>1. TypeOK
    <2>1. pools \in [Pools -> Nat] /\ since \in [Pools -> Nat] /\ pool \in Pools
      BY ZeroIsAPool DEF Init
    <2>2. turn \in [Callers -> {"idle", "tick", "seedfile", "immediate", "loop"}]
      BY DEF Init
    <2>3. left \in [Callers -> Nat] /\ needed \in [Requests -> Nat]
      BY DEF Init
    <2>4. keyed \in BOOLEAN /\ generated \in Nat /\ fill \in Nat
      BY FortunaAssumption DEF Init
    <2>6. reseeds \in 0 .. MaxReseeds
      BY FortunaAssumption DEF Init
    <2>5. seeded \subseteq Callers /\ overtaken \subseteq Requests
      BY DEF Init
    <2> QED
      BY <2>1, <2>2, <2>3, <2>4, <2>5, <2>6 DEF TypeOK
  <1>2. LimitRespected /\ KeyIsFresh
    BY FortunaAssumption DEF Init, LimitRespected, KeyIsFresh
  <1> QED
    BY <1>1, <1>2 DEF FortunaInv

(* A block keeps the limit: it is made with a fresh key or a usable one.   *)
LEMMA BlockKeepsLimit ==
    ASSUME TypeOK, NEW c \in Callers, NEW from \in Nat, Produce(c, from), from =< Limit
    PROVE  LimitRespected'
  BY FortunaAssumption DEF Produce, LimitRespected

(* A reseed followed by a block, of any caller.                            *)
LEMMA SeededBlockKeepsInv ==
    ASSUME FortunaInv, NEW c \in Callers, NEW n \in Nat, Seed(c, n), Produce(c, 0),
           needed' \in [Requests -> Nat],
           NEW t \in {"idle", "immediate", "loop"}, turn[c] # "idle",
           turn' = [turn EXCEPT ![c] = t]
    PROVE  FortunaInv'
  <1>1. TypeOK
    BY DEF FortunaInv
  <1>2. turn' \in [Callers -> {"idle", "tick", "seedfile", "immediate", "loop"}]
    BY <1>1 DEF TypeOK
  <1>3. TypeOK'
    <2>1. generated' \in Nat /\ left' \in [Callers -> Nat]
      BY <1>1, ProduceType
    <2>2. /\ reseeds' \in 0 .. MaxReseeds
          /\ pools' \in [Pools -> Nat]
          /\ pool' \in Pools
          /\ keyed' = TRUE
          /\ seeded' \subseteq Callers
          /\ overtaken' \subseteq Requests
          /\ fill' \in Nat
          /\ since' \in [Pools -> Nat]
      BY <1>1, SeedType
    <2> QED
      BY <1>2, <2>1, <2>2 DEF TypeOK
  <1>4. LimitRespected'
    BY <1>1, BlockKeepsLimit, FortunaAssumption
  <1>5. KeyIsFresh'
    <2>1. seeded' = {d \in Callers : turn[d] # "idle"}
      BY <1>1, SeedType
    <2>2. \A d \in Callers : turn'[d] # "idle" => turn[d] # "idle"
      BY <1>1 DEF TypeOK
    <2> QED
      BY <2>1, <2>2 DEF KeyIsFresh
  <1> QED
    BY <1>3, <1>4, <1>5 DEF FortunaInv

(* A block with the key in place, of any caller.                           *)
LEMMA BlockKeepsInv ==
    ASSUME FortunaInv, NEW c \in Callers, KeyUsable, Produce(c, generated), NoSeed,
           keyed' = keyed, needed' = needed,
           NEW t \in {"idle", "immediate", "loop"}, turn[c] # "idle",
           turn' = [turn EXCEPT ![c] = t]
    PROVE  FortunaInv'
  <1>1. TypeOK
    BY DEF FortunaInv
  <1>2. turn' \in [Callers -> {"idle", "tick", "seedfile", "immediate", "loop"}]
    BY <1>1 DEF TypeOK
  <1>3. generated \in Nat
    BY <1>1 DEF TypeOK
  <1>4. generated' \in Nat /\ left' \in [Callers -> Nat]
    BY <1>1, <1>3, ProduceType
  <1>5. TypeOK'
    BY <1>1, <1>2, <1>4 DEF TypeOK, NoSeed
  <1>6. LimitRespected'
    BY <1>1, <1>3, BlockKeepsLimit DEF KeyUsable
  <1>7. KeyIsFresh'
    <2>1. \A d \in Callers : turn'[d] # "idle" => turn[d] # "idle"
      BY <1>1 DEF TypeOK
    <2> QED
      BY <2>1 DEF FortunaInv, KeyIsFresh, NoSeed
  <1> QED
    BY <1>5, <1>6, <1>7 DEF FortunaInv

(* A step that throws the key away, or only takes callers off it.          *)
LEMMA QuietStepKeepsInv ==
    ASSUME FortunaInv, TypeOK', generated' = generated,
           keyed' = FALSE \/ /\ keyed' = keyed
                             /\ \A d \in Callers : turn'[d] # "idle" => turn[d] # "idle"
                             /\ \A d \in seeded : d \in seeded' \/ turn'[d] = "idle"
    PROVE  FortunaInv'
  <1>1. LimitRespected'
    BY DEF FortunaInv, LimitRespected
  <1>2. KeyIsFresh'
    BY DEF FortunaInv, KeyIsFresh
  <1> QED
    BY <1>1, <1>2 DEF FortunaInv

(* The invariant is kept by each step of an asynchronous request ...       *)
LEMMA RequestStepPreserves ==
    ASSUME FortunaInv, NEW r \in Requests, RequestStep(r)
    PROVE  FortunaInv'
  <1>1. TypeOK /\ r \in Callers
    BY DEF FortunaInv, Callers
  <1>2. ASSUME NEW n \in Sizes, Generate(r, n)
        PROVE  FortunaInv'
    <2>1. n \in Nat
      BY FortunaAssumption
    <2>2. TypeOK'
      BY <1>1, <1>2, <2>1 DEF TypeOK, Generate
    <2> QED
      BY <1>2, <2>2, QuietStepKeepsInv DEF Generate
  <1>3. CASE ReseedFromPools(r)
    <2>1. needed' \in [Requests -> Nat] /\ turn[r] # "idle"
      BY <1>1, <1>3 DEF TypeOK, ReseedFromPools
    <2> QED
      BY <1>1, <1>3, <2>1, SeededBlockKeepsInv DEF ReseedFromPools
  <1>4. CASE AskSeedFile(r)
    <2>1. needed' \in [Requests -> Nat]
      BY <1>1, <1>4, NeededType DEF TypeOK, AskSeedFile
    <2>2. TypeOK'
      BY <1>1, <1>4, <2>1 DEF TypeOK, AskSeedFile, NoSeed
    <2>3. \A d \in Callers : turn'[d] # "idle" => turn[d] # "idle"
      BY <1>1, <1>4 DEF TypeOK, AskSeedFile
    <2> QED
      BY <1>4, <2>2, <2>3, QuietStepKeepsInv DEF AskSeedFile, NoSeed
  <1>5. CASE SeedFileAnswers(r)
    <2>1. needed' \in [Requests -> Nat] /\ turn[r] # "idle" /\ needed[r] \in Nat
      BY <1>1, <1>5 DEF TypeOK, SeedFileAnswers
    <2> QED
      BY <1>1, <1>5, <2>1, SeededBlockKeepsInv DEF SeedFileAnswers
  <1>6. CASE SeedFileFails(r)
    <2>1. TypeOK'
      BY <1>1, <1>6 DEF TypeOK, SeedFileFails
    <2>2. \A d \in Callers : turn'[d] # "idle" => turn[d] # "idle"
      BY <1>1, <1>6 DEF TypeOK, SeedFileFails
    <2>3. \A d \in seeded : d \in seeded' \/ turn'[d] = "idle"
      BY <1>1, <1>6 DEF TypeOK, SeedFileFails
    <2> QED
      BY <1>6, <2>1, <2>2, <2>3, QuietStepKeepsInv DEF SeedFileFails
  <1>7. CASE Answer(r)
    <2>1. TypeOK'
      BY <1>1, <1>7 DEF TypeOK, Answer
    <2>2. \A d \in Callers : turn'[d] # "idle" => turn[d] # "idle"
      BY <1>1, <1>7 DEF TypeOK, Answer
    <2>3. \A d \in seeded : d \in seeded' \/ turn'[d] = "idle"
      BY <1>1, <1>7 DEF TypeOK, Answer
    <2> QED
      BY <1>7, <2>1, <2>2, <2>3, QuietStepKeepsInv DEF Answer
  <1>8. CASE KeySpent(r)
    <2>1. TypeOK'
      BY <1>1, <1>8 DEF TypeOK, KeySpent, NoSeed
    <2> QED
      BY <1>8, <2>1, QuietStepKeepsInv DEF KeySpent
  <1>9. CASE NextBlock(r)
    <2>1. turn' = [turn EXCEPT ![r] = "immediate"] /\ turn[r] # "idle"
      BY <1>1, <1>9 DEF NextBlock, TypeOK
    <2>2. KeyUsable /\ Produce(r, generated) /\ NoSeed /\ keyed' = keyed /\ needed' = needed
      BY <1>9 DEF NextBlock
    <2> QED
      BY <1>1, <2>1, <2>2, BlockKeepsInv
  <1> QED
    BY <1>2, <1>3, <1>4, <1>5, <1>6, <1>7, <1>8, <1>9 DEF RequestStep

(* ... of a synchronous one ...                                            *)
LEMMA SyncStepPreserves ==
    ASSUME FortunaInv, SyncBlock \/ SyncFails \/ \E n \in Sizes : GenerateSync(n)
    PROVE  FortunaInv'
  <1>1. TypeOK /\ "sync" \in Callers
    BY DEF FortunaInv, Callers
  <1>2. ASSUME NEW n \in Sizes, GenerateSync(n)
        PROVE  FortunaInv'
    <2>1. n \in Nat
      BY FortunaAssumption
    <2>2. TypeOK'
      BY <1>1, <1>2, <2>1 DEF TypeOK, GenerateSync
    <2> QED
      BY <1>2, <2>2, QuietStepKeepsInv DEF GenerateSync
  <1>3. CASE SyncBlock
    <2> DEFINE t == IF LeftAfterBlock("sync") = 0 THEN "idle" ELSE "loop"
    <2>1. t \in {"idle", "immediate", "loop"} /\ turn' = [turn EXCEPT !["sync"] = t] /\ turn["sync"] # "idle"
      BY <1>3 DEF SyncBlock
    <2>2. needed' \in [Requests -> Nat] /\ needed' = needed /\ Needed \in Nat
      BY <1>1, <1>3, NeededType DEF SyncBlock, TypeOK
    <2> HIDE DEF t
    <2>3. CASE KeyUsable /\ Produce("sync", generated) /\ keyed' = keyed /\ NoSeed
      BY <1>1, <2>1, <2>2, <2>3, BlockKeepsInv
    <2>4. CASE ~KeyUsable /\ Seed("sync", Needed) /\ Produce("sync", 0)
      BY <1>1, <2>1, <2>2, <2>4, SeededBlockKeepsInv
    <2> QED
      BY <1>3, <2>3, <2>4 DEF SyncBlock
  <1>4. CASE SyncFails
    <2>1. TypeOK'
      BY <1>1, <1>4 DEF TypeOK, SyncFails
    <2> QED
      BY <1>4, <2>1, QuietStepKeepsInv DEF SyncFails
  <1> QED
    BY <1>2, <1>3, <1>4

(* ... by collecting ...                                                   *)
LEMMA CollectPreserves ==
    ASSUME FortunaInv, NEW n \in Chunks, Collect(n)
    PROVE  FortunaInv'
  <1>1. TypeOK /\ n \in Nat
    BY FortunaAssumption DEF FortunaInv
  <1>2. pools' \in [Pools -> Nat] /\ pool' \in Pools
    BY <1>1, CollectedType, PoolAfterType DEF Collect
  <1>3. TypeOK'
    BY <1>1, <1>2 DEF TypeOK, Collect, observed
  <1> QED
    BY <1>3, QuietStepKeepsInv DEF Collect, observed

(* ... and so by every step.                                               *)
LEMMA StepPreserves == FortunaInv /\ [Next]_vars => FortunaInv'
  <1> SUFFICES ASSUME FortunaInv, [Next]_vars
               PROVE  FortunaInv'
    OBVIOUS
  <1>1. CASE UNCHANGED vars
    BY <1>1 DEF vars, core, observed, FortunaInv, TypeOK, LimitRespected, KeyIsFresh
  <1> QED
    BY <1>1, RequestStepPreserves, SyncStepPreserves, CollectPreserves DEF Next

(* The generator's state keeps its type in every behaviour.                *)
THEOREM FortunaTypeCorrect == SafetySpec => []TypeOK
  <1>1. FortunaInv => TypeOK
    BY DEF FortunaInv
  <1> QED
    BY <1>1, InitEstablishes, StepPreserves, PTL DEF SafetySpec

(* No key serves more than the limit and the block that crosses it,        *)
(* whichever requests share it (Fortuna.ts:59 and :92).                    *)
THEOREM KeyLimit == SafetySpec => []LimitRespected
  <1>1. FortunaInv => LimitRespected
    BY DEF FortunaInv
  <1> QED
    BY <1>1, InitEstablishes, StepPreserves, PTL DEF SafetySpec

(* Only a block of its own takes bytes off what a caller wants, other than *)
(* the failure of its request.                                             *)
LEMMA BlockIsFresh ==
    ASSUME FortunaInv, [Next]_vars, NEW c \in Callers,
           left'[c] < left[c], generated' # generated \/ reseeds' # reseeds
    PROVE  c \in seeded'
  <1>1. TypeOK
    BY DEF FortunaInv
  <1>2. left[c] \in Nat /\ ~(left[c] < left[c])
    BY <1>1 DEF TypeOK
  <1>3. ASSUME NEW d \in Callers, turn[d] # "idle", Produce(d, generated), KeyUsable, NoSeed
        PROVE  c \in seeded'
    <2>1. c = d
      BY <1>1, <1>2, <1>3 DEF Produce, TypeOK
    <2> QED
      BY <1>3, <2>1 DEF KeyUsable, NoSeed, FortunaInv, KeyIsFresh
  <1>4. ASSUME NEW d \in Callers, turn[d] # "idle", Produce(d, 0), NEW n, Seed(d, n)
        PROVE  c \in seeded'
    <2>1. c = d
      BY <1>1, <1>2, <1>4 DEF Produce, TypeOK
    <2> QED
      BY <1>4, <2>1 DEF Seed
  <1>5. generated \in Nat /\ "sync" \in Callers
    BY <1>1 DEF TypeOK, Callers
  <1>6. ASSUME NEW r \in Requests, RequestStep(r)
        PROVE  c \in seeded'
    <2>1. r \in Callers
      BY DEF Callers
    <2>2. CASE ReseedFromPools(r)
      BY <1>4, <2>1, <2>2 DEF ReseedFromPools
    <2>4. CASE SeedFileAnswers(r)
      BY <1>4, <2>1, <2>4 DEF SeedFileAnswers
    <2>5. CASE NextBlock(r)
      BY <1>3, <2>1, <2>5 DEF NextBlock
    <2>3. CASE \/ \E n \in Sizes : Generate(r, n)
               \/ AskSeedFile(r) \/ SeedFileFails(r) \/ Answer(r) \/ KeySpent(r)
      <3>1. generated' = generated /\ reseeds' = reseeds
        BY <2>3 DEF Generate, AskSeedFile, SeedFileFails, Answer, KeySpent, NoSeed
      <3> QED
        BY <3>1
    <2> QED
      BY <1>6, <2>2, <2>3, <2>4, <2>5 DEF RequestStep
  <1>7. CASE SyncBlock
    <2>1. turn["sync"] # "idle"
      BY <1>7 DEF SyncBlock
    <2>2. CASE KeyUsable /\ Produce("sync", generated) /\ NoSeed
      BY <1>3, <1>5, <2>1, <2>2
    <2>3. CASE Seed("sync", Needed) /\ Produce("sync", 0)
      BY <1>4, <1>5, <2>1, <2>3
    <2> QED
      BY <1>7, <2>2, <2>3 DEF SyncBlock
  <1>8. CASE \/ UNCHANGED vars \/ SyncFails
             \/ \E n \in Sizes : GenerateSync(n)
             \/ \E n \in Chunks : Collect(n)
    <2>1. generated' = generated /\ reseeds' = reseeds
      BY <1>8 DEF vars, core, SyncFails, GenerateSync, Collect
    <2> QED
      BY <2>1
  <1> QED
    BY <1>6, <1>7, <1>8 DEF Next

(* No block a caller gets comes from a seed older than its request, though *)
(* every request throws away the key the others draw on (Fortuna.ts:45).   *)
THEOREM OutputIsFresh == SafetySpec => FreshOutput
  <1>1. FortunaInv /\ [Next]_vars =>
          [\A c \in Callers :
            left'[c] < left[c] /\ (generated' # generated \/ reseeds' # reseeds)
                => c \in seeded']_vars
    BY BlockIsFresh
  <1> QED
    BY <1>1, InitEstablishes, StepPreserves, PTL DEF SafetySpec, FreshOutput

-----------------------------------------------------------------------------
(* The higher pools                                                        *)

(* A pool's age is what the counter of reseeds says it is.                 *)
AgeIsCounted == \A k \in Pools : since[k] = reseeds % PowersOf(2)[k]

(* Remainders count up to the divisor and start again.                     *)
LEMMA NextRemainder ==
    ASSUME NEW n \in Nat, NEW d \in Nat \ {0}
    PROVE  (n + 1) % d = IF (n + 1) % d = 0 THEN 0 ELSE (n % d) + 1
  <1> DEFINE q == n \div d
             m == n % d
  <1>1. q \in Nat /\ m \in 0 .. d - 1 /\ n = (q * d) + m
    OBVIOUS
  <1> HIDE DEF q, m
  <1>2. \A k \in 0 .. d - 1, p \in Nat : ((p * d) + k) % d = k
    OBVIOUS
  <1>3. CASE m + 1 < d
    <2>1. m + 1 \in 0 .. d - 1 /\ n + 1 = (q * d) + (m + 1)
      BY <1>1, <1>3
    <2>2. (n + 1) % d = m + 1
      BY <1>1, <1>2, <2>1
    <2>3. m + 1 # 0
      BY <1>1
    <2> QED
      BY <2>2, <2>3 DEF m
  <1>4. CASE m + 1 = d
    <2>1. q + 1 \in Nat /\ 0 \in 0 .. d - 1 /\ n + 1 = ((q + 1) * d) + 0
      BY <1>1, <1>4
    <2>2. (n + 1) % d = 0
      BY <1>2, <2>1
    <2> QED
      BY <2>2
  <1> QED
    BY <1>1, <1>3, <1>4

(* The count of reseeds tells the age of each pool, also over its wrap.    *)
LEMMA AgeStep ==
    ASSUME TypeOK, AgeIsCounted, [Next]_vars
    PROVE  AgeIsCounted'
  <1>1. ASSUME NEW c, NEW n, Seed(c, n)
        PROVE  AgeIsCounted'
    <2> SUFFICES ASSUME NEW k \in Pools
                 PROVE  since'[k] = reseeds' % PowersOf(2)[k]
      BY DEF AgeIsCounted
    <2> DEFINE p == PowersOf(2)[k]
    <2>1. p \in Nat \ {0}
      BY PowersOfTwo, FortunaAssumption DEF Pools
    <2>2. since[k] = reseeds % p
      BY DEF AgeIsCounted
    <2>3. reseeds' = NextReseeds /\ reseeds \in Nat
      BY <1>1, FortunaAssumption DEF Seed, TypeOK
    <2>4. since'[k] = IF reseeds' % p = 0 THEN 0 ELSE since[k] + 1
      BY <1>1 DEF Seed, Used
    <2> HIDE DEF p
    <2>5. reseeds' = 0 => since'[k] = reseeds' % p
      BY <2>1, <2>4
    <2>6. reseeds' = reseeds + 1 => since'[k] = reseeds' % p
      <3>1. (reseeds + 1) % p = IF (reseeds + 1) % p = 0 THEN 0 ELSE (reseeds % p) + 1
        BY <2>1, <2>3, NextRemainder
      <3> QED
        BY <2>2, <2>4, <3>1
    <2> QED
      BY <2>3, <2>5, <2>6 DEF NextReseeds, p
  <1>2. CASE since' = since /\ reseeds' = reseeds
    BY <1>2 DEF AgeIsCounted
  <1>3. ASSUME NEW r \in Requests, RequestStep(r)
        PROVE  AgeIsCounted'
    <2>1. CASE ReseedFromPools(r) \/ SeedFileAnswers(r)
      BY <1>1, <2>1 DEF ReseedFromPools, SeedFileAnswers
    <2>2. CASE \/ \E n \in Sizes : Generate(r, n)
               \/ AskSeedFile(r) \/ SeedFileFails(r) \/ Answer(r) \/ KeySpent(r) \/ NextBlock(r)
      BY <1>2, <2>2 DEF Generate, AskSeedFile, SeedFileFails, Answer, KeySpent, NextBlock, NoSeed
    <2> QED
      BY <1>3, <2>1, <2>2 DEF RequestStep
  <1>4. CASE SyncBlock
    <2>1. CASE NoSeed
      BY <1>2, <2>1 DEF NoSeed
    <2> QED
      BY <1>1, <1>4, <2>1 DEF SyncBlock
  <1>5. CASE \/ UNCHANGED vars \/ SyncFails
             \/ \E n \in Sizes : GenerateSync(n)
             \/ \E n \in Chunks : Collect(n)
    BY <1>2, <1>5 DEF vars, core, observed, SyncFails, GenerateSync, Collect
  <1> QED
    BY <1>3, <1>4, <1>5 DEF Next

(* Every pool is used within the number of reseeds its index allows, for   *)
(* any number of pools and whatever the counter's last value before it is  *)
(* 0 again (Fortuna.ts:134 and :145-150): its age is the counter modulo    *)
(* that number, and at the wrap every pool is used.                        *)
THEOREM PoolsAreUsed == SafetySpec => []PoolsUsedOnTime
  <1>1. Init => AgeIsCounted
    <2>1. \A k \in Pools : PowersOf(2)[k] \in Nat \ {0}
      BY PowersOfTwo, FortunaAssumption DEF Pools
    <2> QED
      BY <2>1 DEF Init, AgeIsCounted
  <1>2. FortunaInv => TypeOK
    BY DEF FortunaInv
  <1>3. TypeOK /\ AgeIsCounted => PoolsUsedOnTime
    <2> SUFFICES ASSUME TypeOK, AgeIsCounted, NEW k \in Pools
                 PROVE  since[k] < PowersOf(2)[k]
      BY DEF PoolsUsedOnTime
    <2>1. PowersOf(2)[k] \in Nat \ {0}
      BY PowersOfTwo, FortunaAssumption DEF Pools
    <2>2. reseeds \in Nat /\ since[k] = reseeds % PowersOf(2)[k]
      BY FortunaAssumption DEF TypeOK, AgeIsCounted
    <2> QED
      BY <2>1, <2>2
  <1> QED
    BY <1>1, <1>2, <1>3, InitEstablishes, StepPreserves, AgeStep, PTL DEF SafetySpec

-----------------------------------------------------------------------------
(* Full reseeds                                                            *)

(* A whole number of rounds gives every pool its share.                    *)
LEMMA RoundsShared ==
    ASSUME NEW k \in Pools, NEW from \in Nat
    PROVE  \A d \in Nat : Share(k, from, d * NumPools) >= d
  <1> DEFINE Given(n) == {j \in 0 .. n - 1 : (from + j) % NumPools = k}
             S == {d \in Nat : Share(k, from, d * NumPools) >= d}
  <1>0. \A n \in Nat : IsFiniteSet(Given(n)) /\ Share(k, from, n) = Cardinality(Given(n)) /\ Share(k, from, n) \in Nat
    <2> SUFFICES ASSUME NEW n \in Nat
                 PROVE  IsFiniteSet(Given(n)) /\ Share(k, from, n) = Cardinality(Given(n)) /\ Share(k, from, n) \in Nat
      OBVIOUS
    <2>1. IsFiniteSet(0 .. n - 1)
      BY FS_Interval
    <2>2. IsFiniteSet(Given(n))
      BY <2>1, FS_Subset
    <2> QED
      BY <2>2, ShareType DEF Share
  <1>1. 0 \in S
    <2>1. 0 * NumPools = 0
      BY FortunaAssumption
    <2>2. Share(k, from, 0) \in Nat
      BY ShareType
    <2> QED
      BY <2>1, <2>2
  <1>2. ASSUME NEW d \in Nat, d \in S
        PROVE  d + 1 \in S
    <2> DEFINE n == d * NumPools
               m == (d + 1) * NumPools
    <2>1. n \in Nat /\ m = n + NumPools /\ m \in Nat
      BY FortunaAssumption
    <2>2. PICK j \in n .. m - 1 : (from + j) % NumPools = k
      <3> DEFINE a == (from + n) % NumPools
                 q == (from + n) \div NumPools
                 x == IF k >= a THEN k - a ELSE (k + NumPools) - a
      <3>1. q \in Nat /\ a \in 0 .. NumPools - 1 /\ from + n = (q * NumPools) + a
        BY <2>1, FortunaAssumption
      <3>2. k \in 0 .. NumPools - 1
        BY DEF Pools
      <3>3. \A p \in Nat : ((p * NumPools) + k) % NumPools = k
        BY <3>2, FortunaAssumption
      <3> HIDE DEF a, q, n, m
      <3>4. x \in 0 .. NumPools - 1
        BY <3>1, <3>2, FortunaAssumption
      <3>5. from + (n + x) = (q * NumPools) + k \/ from + (n + x) = ((q + 1) * NumPools) + k
        BY <2>1, <3>1, <3>2, FortunaAssumption
      <3>6. (from + (n + x)) % NumPools = k
        BY <3>1, <3>3, <3>5
      <3>7. n + x \in n .. m - 1
        BY <2>1, <3>4, FortunaAssumption
      <3> QED
        BY <3>6, <3>7
    <2> HIDE DEF n, m
    <2>3. Given(n) \cup {j} \subseteq Given(m) /\ j \notin Given(n)
      BY <2>1, <2>2, FortunaAssumption
    <2>4. Cardinality(Given(n) \cup {j}) = Cardinality(Given(n)) + 1
      BY <1>0, <2>1, <2>3, FS_AddElement
    <2>5. Cardinality(Given(n) \cup {j}) =< Cardinality(Given(m))
      BY <1>0, <2>1, <2>3, FS_Subset
    <2>6. Cardinality(Given(n)) \in Nat /\ Cardinality(Given(m)) \in Nat
      BY <1>0, <2>1
    <2>7. Cardinality(Given(n)) >= d
      BY <1>0, <1>2, <2>1 DEF n
    <2>8. Share(k, from, m) = Cardinality(Given(m))
      BY <1>0, <2>1
    <2>9. Share(k, from, m) >= d + 1
      BY <2>4, <2>5, <2>6, <2>7, <2>8
    <2> QED
      BY <2>9 DEF m
  <1>3. Nat \subseteq S
    <2> HIDE DEF S
    <2> QED
      BY <1>1, <1>2, Induction
  <1> QED
    BY <1>3

(* What a request asked the seed file for is a positive number of rounds,  *)
(* enough for pool 0 unless a reseed has emptied it since.                 *)
Enough(r) ==
    \E d \in Nat \ {0} :
        /\ needed[r] = d * NumPools
        /\ r \notin overtaken => pools[0] + d >= MinPool

(* This is so of all requests that wait for the seed file.                 *)
AskedEnough == \A r \in Requests : turn[r] = "seedfile" => Enough(r)

(* What is asked for is what pool 0 lacks, in rounds over all the pools.   *)
LEMMA NeededIsRounds ==
    ASSUME TypeOK, ~(pools[0] >= MinPool)
    PROVE  /\ MinPool - pools[0] \in Nat \ {0}
           /\ Needed = (MinPool - pools[0]) * NumPools
  <1>1. pools[0] \in Nat /\ MinPool \in Nat
    BY ZeroIsAPool, FortunaAssumption DEF TypeOK
  <1> QED
    BY <1>1 DEF Needed

(* It is so until the answer comes, whatever the other callers do.         *)
LEMMA EnoughStep ==
    ASSUME TypeOK, AskedEnough, [Next]_vars
    PROVE  AskedEnough'
  <1> SUFFICES ASSUME NEW r \in Requests, turn'[r] = "seedfile"
               PROVE  Enough(r)'
    BY DEF AskedEnough
  <1>1. r \in Callers /\ pools[0] \in Nat /\ r # "sync"
    BY ZeroIsAPool, FortunaAssumption DEF TypeOK, Callers
  <1>2. ASSUME turn[r] = "seedfile", needed'[r] = needed[r],
               \/ r \in overtaken'
               \/ r \notin overtaken /\ pools'[0] \in Nat /\ pools'[0] >= pools[0]
        PROVE  Enough(r)'
    <2>1. PICK d \in Nat \ {0} : needed[r] = d * NumPools /\ (r \notin overtaken => pools[0] + d >= MinPool)
      BY <1>2 DEF AskedEnough, Enough
    <2>2. r \notin overtaken' => pools'[0] + d >= MinPool
      BY <1>1, <1>2, <2>1, FortunaAssumption
    <2> QED
      BY <1>2, <2>1, <2>2 DEF Enough
  <1>3. ASSUME NEW s \in Requests, RequestStep(s)
        PROVE  Enough(r)'
    <2>1. ASSUME s = r
          PROVE  Enough(r)'
      <3>1. AskSeedFile(r)
        BY <1>1, <1>3, <2>1 DEF RequestStep, Generate, ReseedFromPools, SeedFileAnswers,
                                SeedFileFails, Answer, KeySpent, NextBlock, TypeOK
      <3>2. needed'[r] = Needed /\ pools' = pools /\ ~(pools[0] >= MinPool)
        BY <1>1, <3>1, FortunaAssumption DEF AskSeedFile, NoSeed, TypeOK
      <3>3. pools[0] + (MinPool - pools[0]) >= MinPool
        BY <1>1, FortunaAssumption
      <3> QED
        BY <3>2, <3>3, NeededIsRounds DEF Enough
    <2>2. ASSUME s # r
          PROVE  Enough(r)'
      <3>1. turn[r] = "seedfile"
        BY <1>1, <1>3, <2>2 DEF RequestStep, Generate, ReseedFromPools, SeedFileAnswers, AskSeedFile,
                                SeedFileFails, Answer, KeySpent, NextBlock, TypeOK
      <3>2. needed'[r] = needed[r]
        BY <1>1, <1>3, <2>2 DEF RequestStep, Generate, ReseedFromPools, SeedFileAnswers, AskSeedFile,
                                SeedFileFails, Answer, KeySpent, NextBlock, TypeOK
      <3>3. CASE ReseedFromPools(s) \/ SeedFileAnswers(s)
        <4>1. r \in overtaken'
          BY <2>2, <3>1, <3>3 DEF ReseedFromPools, SeedFileAnswers, Seed
        <4> QED
          BY <1>2, <3>1, <3>2, <4>1
      <3>4. CASE \/ \E n \in Sizes : Generate(s, n)
                 \/ AskSeedFile(s) \/ SeedFileFails(s) \/ Answer(s) \/ KeySpent(s) \/ NextBlock(s)
        <4>1. pools' = pools
          BY <3>4 DEF Generate, AskSeedFile, SeedFileFails, Answer, KeySpent, NextBlock, NoSeed
        <4>2. overtaken' = overtaken \/ overtaken' = overtaken \ {s}
          BY <3>4 DEF Generate, AskSeedFile, SeedFileFails, Answer, KeySpent, NextBlock, NoSeed
        <4> QED
          BY <1>1, <1>2, <2>2, <3>1, <3>2, <4>1, <4>2
      <3> QED
        BY <1>3, <3>3, <3>4 DEF RequestStep
    <2> QED
      BY <2>1, <2>2
  <1>4. CASE SyncBlock
    <2>1. turn[r] = "seedfile" /\ needed' = needed
      BY <1>1, <1>4 DEF SyncBlock, TypeOK
    <2>2. CASE NoSeed
      BY <1>1, <1>2, <2>1, <2>2 DEF NoSeed
    <2>3. CASE Seed("sync", Needed)
      <3>1. r \in overtaken'
        BY <1>1, <2>1, <2>3 DEF Seed
      <3> QED
        BY <1>2, <2>1, <3>1
    <2> QED
      BY <1>4, <2>2, <2>3 DEF SyncBlock
  <1>5. ASSUME NEW n \in Chunks, Collect(n)
        PROVE  Enough(r)'
    <2>1. turn' = turn /\ needed' = needed /\ overtaken' = overtaken /\ n \in Nat /\ pool \in Nat
      BY <1>5, FortunaAssumption DEF Collect, observed, TypeOK, Pools
    <2>2. pools'[0] = pools[0] + Share(0, pool, n)
      BY <1>5, ZeroIsAPool DEF Collect, Collected
    <2>3. Share(0, pool, n) \in Nat
      BY <2>1, ZeroIsAPool, ShareType
    <2> QED
      BY <1>1, <1>2, <2>1, <2>2, <2>3
  <1>6. CASE \/ UNCHANGED vars \/ SyncFails
             \/ \E n \in Sizes : GenerateSync(n)
    <2>1. pools' = pools /\ needed' = needed /\ overtaken' = overtaken
      BY <1>6 DEF vars, core, observed, SyncFails, GenerateSync
    <2>2. turn[r] = "seedfile"
      BY <1>1, <1>6 DEF vars, core, SyncFails, GenerateSync, TypeOK
    <2> QED
      BY <1>1, <1>2, <2>1, <2>2
  <1> QED
    BY <1>3, <1>4, <1>5, <1>6 DEF Next

(* What a reseed of each kind finds in pool 0.                             *)
LEMMA ReseedFill ==
    ASSUME TypeOK, NEW d \in Nat, NEW c, Seed(c, d * NumPools)
    PROVE  fill' \in Nat /\ fill' >= pools[0] + d
  <1>1. fill' = pools[0] + Share(0, pool, d * NumPools)
    BY ZeroIsAPool DEF Seed, Collected
  <1>2. pool \in Nat /\ pools[0] \in Nat /\ d * NumPools \in Nat
    BY ZeroIsAPool, FortunaAssumption DEF TypeOK, Pools
  <1>3. Share(0, pool, d * NumPools) \in Nat /\ Share(0, pool, d * NumPools) >= d
    BY <1>2, ZeroIsAPool, ShareType, RoundsShared
  <1> QED
    BY <1>1, <1>2, <1>3

(* Every step that reseeds finds pool 0 as ReseedIsFull says.              *)
LEMMA FullStep ==
    ASSUME TypeOK, AskedEnough, [Next]_vars, reseeds' # reseeds
    PROVE  fill' >= IF \E r \in overtaken : turn[r] = "seedfile" /\ turn'[r] = "immediate"
                    THEN 1 ELSE MinPool
  <1> DEFINE Late == \E r \in overtaken : turn[r] = "seedfile" /\ turn'[r] = "immediate"
  <1>1. pools[0] \in Nat /\ MinPool \in Nat \ {0} /\ NumPools \in Nat /\ 0 * NumPools = 0
    BY ZeroIsAPool, FortunaAssumption DEF TypeOK
  <1>2. ASSUME fill' \in Nat, fill' >= MinPool
        PROVE  fill' >= IF Late THEN 1 ELSE MinPool
    BY <1>1, <1>2
  <1>3. ASSUME NEW r \in Requests, ReseedFromPools(r)
        PROVE  fill' \in Nat /\ fill' >= MinPool
    <2>1. Seed(r, 0 * NumPools) /\ pools[0] >= MinPool
      BY <1>1, <1>3 DEF ReseedFromPools
    <2>2. fill' \in Nat /\ fill' >= pools[0] + 0
      BY <2>1, ReseedFill
    <2> QED
      BY <1>1, <2>1, <2>2
  <1>4. ASSUME NEW r \in Requests, SeedFileAnswers(r)
        PROVE  fill' >= IF Late THEN 1 ELSE MinPool
    <2>1. turn[r] = "seedfile" /\ turn'[r] = "immediate" /\ Seed(r, needed[r])
      BY <1>4 DEF SeedFileAnswers, TypeOK, Callers
    <2>2. PICK d \in Nat \ {0} : needed[r] = d * NumPools /\ (r \notin overtaken => pools[0] + d >= MinPool)
      BY <2>1 DEF AskedEnough, Enough
    <2>3. fill' \in Nat /\ fill' >= pools[0] + d
      BY <2>1, <2>2, ReseedFill
    <2>4. fill' >= 1
      BY <1>1, <2>2, <2>3
    <2>5. r \notin overtaken => fill' >= MinPool
      BY <1>1, <2>2, <2>3
    <2>6. r \in overtaken => Late
      BY <2>1
    <2> QED
      BY <2>4, <2>5, <2>6
  <1>5. CASE SyncBlock
    <2>1. Seed("sync", Needed)
      BY <1>5 DEF SyncBlock, NoSeed
    <2>2. CASE pools[0] >= MinPool
      <3>1. Seed("sync", 0 * NumPools)
        BY <1>1, <2>1, <2>2 DEF Needed
      <3>2. fill' \in Nat /\ fill' >= pools[0] + 0
        BY <3>1, ReseedFill
      <3> QED
        BY <1>1, <1>2, <2>2, <3>2
    <2>3. CASE ~(pools[0] >= MinPool)
      <3>1. fill' \in Nat /\ fill' >= pools[0] + (MinPool - pools[0])
        BY <2>1, <2>3, NeededIsRounds, ReseedFill
      <3> QED
        BY <1>1, <1>2, <3>1
    <2> QED
      BY <2>2, <2>3
  <1>6. ASSUME NEW r \in Requests, RequestStep(r)
        PROVE  ReseedFromPools(r) \/ SeedFileAnswers(r)
    BY <1>6 DEF RequestStep, Generate, AskSeedFile, SeedFileFails, Answer, KeySpent, NextBlock, NoSeed
  <1>7. ~ \/ UNCHANGED vars \/ SyncFails
          \/ \E n \in Sizes : GenerateSync(n)
          \/ \E n \in Chunks : Collect(n)
    BY DEF vars, core, SyncFails, GenerateSync, Collect
  <1> QED
    BY <1>2, <1>3, <1>4, <1>5, <1>6, <1>7 DEF Next

(* Every reseed finds pool 0 full, whatever was collected and answered     *)
(* while the seed file was asked (Fortuna.ts:103 and :124); one that       *)
(* another overtook finds at least a byte of its own.                      *)
THEOREM ReseedsAreFull == SafetySpec => ReseedIsFull
  <1>1. Init => AskedEnough
    BY DEF Init, AskedEnough, Callers
  <1>2. FortunaInv => TypeOK
    BY DEF FortunaInv
  <1>3. TypeOK /\ AskedEnough /\ [Next]_vars =>
          [reseeds' # reseeds =>
            fill' >= IF \E r \in overtaken : turn[r] = "seedfile" /\ turn'[r] = "immediate"
                     THEN 1 ELSE MinPool]_vars
    BY FullStep
  <1> QED
    BY <1>1, <1>2, <1>3, InitEstablishes, StepPreserves, EnoughStep, PTL DEF SafetySpec, ReseedIsFull

=============================================================================

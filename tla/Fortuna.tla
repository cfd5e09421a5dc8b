------------------------------ MODULE Fortuna ------------------------------
(***************************************************************************)
(* The Fortuna random generator, prng.create, shared by every caller of    *)
(* certkit.random.                                                         *)
(*                                                                         *)
(* A request for bytes throws the key away, reseeds, and produces one      *)
(* block per turn of the event loop; in between, other requests, calls of  *)
(* collect and synchronous requests run on the same key, pools and         *)
(* counters.  A synchronous request does the same without giving way.      *)
(*                                                                         *)
(* Contents are left out: a pool is the number of bytes it digested since  *)
(* its last use, a request the number of bytes it still wants, and the key *)
(* is there or null.                                                       *)
(***************************************************************************)
EXTENDS Naturals, FiniteSets, Powers

CONSTANTS
    Requests,   \* the asynchronous requests that can be pending at once
    Sizes,      \* the numbers of bytes callers ask for
    NumPools,   \* 32 pools
    MinPool,    \* 32, the bytes pool 0 must have for a reseed
    Block,      \* 16, the bytes one cipher call gives
    Limit,      \* 0xfffff, the bytes after which the key is thrown away
    MaxReseeds, \* 0xffffffff, after which the reseed counter is 0
    Chunks,     \* the numbers of bytes applications collect at once
    MaxPool     \* bound: no application collects into a pool that is longer

ASSUME FortunaAssumption ==
    /\ Sizes \subseteq Nat
    /\ NumPools \in Nat \ {0}
    /\ MinPool \in Nat \ {0}
    /\ Block \in Nat \ {0}
    /\ Limit \in Nat
    /\ MaxReseeds \in Nat
    /\ Chunks \subseteq Nat
    /\ MaxPool \in Nat
    /\ "sync" \notin Requests

Pools == 0 .. NumPools - 1
Callers == Requests \cup {"sync"}

VARIABLES
    keyed,      \* ctx.key # null
    generated,  \* ctx.generated
    reseeds,    \* ctx.reseeds
    pools,      \* pools[k]: ctx.pools[k].messageLength
    pool,       \* ctx.pool, the next pool to collect into
    turn,       \* turn[c]: where caller c's next step is queued
    left,       \* left[c]: count - outputBuffer.length(), the bytes c still wants
    needed      \* needed[r]: the bytes r asked the seed file for

(* Observations, read by the properties and by no action.                  *)
VARIABLES
    seeded,     \* the callers since whose start a reseed happened
    overtaken,  \* the requests that another reseed overtook at the seed file
    fill,       \* the bytes pool 0 gave to the last reseed
    since       \* since[k]: reseeds since pool k was last used

core == <<keyed, generated, reseeds, pools, pool, turn, left, needed>>
observed == <<seeded, overtaken, fill, since>>
vars == <<core, observed>>

-----------------------------------------------------------------------------
(* Pools                                                                   *)

(* The bytes pool k gets of n bytes collected round-robin from pool `from'.*)
Share(k, from, n) == Cardinality({j \in 0 .. n - 1 : (from + j) % NumPools = k})

Collected(n) == [k \in Pools |-> pools[k] + Share(k, pool, n)]
PoolAfter(n) == (pool + n) % NumPools

(* Mutant: the bytes that pool 0 lacks, without the other pools' share. *)
NeededForOnePool == IF pools[0] >= MinPool THEN 0 ELSE MinPool - pools[0]

(* (32 - messageLength) << 5: the shift is the number of pools.            *)
Needed == IF pools[0] >= MinPool THEN 0 ELSE (MinPool - pools[0]) * NumPools

(* Mutant: the counter goes back to its first value instead of to 0. *)
NextReseedsSkipsZero == IF reseeds = MaxReseeds THEN 1 ELSE reseeds + 1
NextReseeds == IF reseeds = MaxReseeds THEN 0 ELSE reseeds + 1

(* The pools that the reseed with this number uses.                        *)
Used(number) == {k \in Pools : number % PowersOf(2)[k] = 0}

(* _seed, after collecting n bytes, on behalf of caller c.                 *)
Seed(c, n) ==
    /\ reseeds' = NextReseeds
    /\ pools' = [k \in Pools |-> IF k \in Used(NextReseeds) THEN 0 ELSE Collected(n)[k]]
    /\ pool' = PoolAfter(n)
    /\ keyed' = TRUE
    /\ seeded' = {d \in Callers : turn[d] # "idle"}
    /\ overtaken' = {r \in Requests : r # c /\ turn[r] = "seedfile"}
                        \cup (overtaken \ {c})
    /\ fill' = Collected(n)[0]
    /\ since' = [k \in Pools |-> IF k \in Used(NextReseeds) THEN 0 ELSE since[k] + 1]

NoSeed == UNCHANGED <<reseeds, pools, pool, seeded, overtaken, fill, since>>

-----------------------------------------------------------------------------
(* Producing                                                               *)

LeftAfterBlock(c) == IF left[c] > Block THEN left[c] - Block ELSE 0

Produce(c, from) ==
    /\ generated' = from + Block
    /\ left' = [left EXCEPT ![c] = LeftAfterBlock(c)]

(* Mutant: a key is used for ever. *)
KeyUsableForEver == keyed
KeyUsable == keyed /\ generated =< Limit

-----------------------------------------------------------------------------
(* Asynchronous requests                                                   *)

NobodySync == turn["sync"] = "idle"

Init ==
    /\ keyed = FALSE
    /\ generated = 0
    /\ reseeds = 0
    /\ pools = [k \in Pools |-> 0]
    /\ pool = 0
    /\ turn = [c \in Callers |-> "idle"]
    /\ left = [c \in Callers |-> 0]
    /\ needed = [r \in Requests |-> 0]
    /\ seeded = {}
    /\ overtaken = {}
    /\ fill = MinPool
    /\ since = [k \in Pools |-> 0]

(* Mutant: a request draws on the key it finds. *)
GenerateKeepsKey(r, n) ==
    /\ NobodySync /\ turn[r] = "idle"
    /\ turn' = [turn EXCEPT ![r] = IF n = 0 THEN "idle" ELSE IF keyed THEN "immediate" ELSE "tick"]
    /\ left' = [left EXCEPT ![r] = n]
    /\ seeded' = seeded \ {r}
    /\ UNCHANGED <<keyed, generated, reseeds, pools, pool, needed, overtaken, fill, since>>

(* ctx.generate with a callback.  The first inner generate finds the key   *)
(* null, and queues a reseed unless nothing is wanted.                     *)
Generate(r, n) ==
    /\ NobodySync /\ turn[r] = "idle"
    /\ keyed' = FALSE
    /\ turn' = [turn EXCEPT ![r] = IF n = 0 THEN "idle" ELSE "tick"]
    /\ left' = [left EXCEPT ![r] = n]
    /\ seeded' = seeded \ {r}
    /\ UNCHANGED <<generated, reseeds, pools, pool, needed, overtaken, fill, since>>

(* _reseed when pool 0 has enough: reseed, and produce a block at once.    *)
ReseedFromPools(r) ==
    /\ NobodySync /\ turn[r] = "tick"
    /\ pools[0] >= MinPool
    /\ Seed(r, 0)
    /\ Produce(r, 0)
    /\ turn' = [turn EXCEPT ![r] = "immediate"]
    /\ UNCHANGED needed

(* _reseed when it has not: ask the seed file, and wait.                   *)
AskSeedFile(r) ==
    /\ NobodySync /\ turn[r] = "tick"
    /\ pools[0] < MinPool
    /\ needed' = [needed EXCEPT ![r] = Needed]
    /\ turn' = [turn EXCEPT ![r] = "seedfile"]
    /\ UNCHANGED <<keyed, generated, left>>
    /\ NoSeed

(* The seed file answers the number of bytes asked for, which was computed *)
(* when it was asked.                                                      *)
SeedFileAnswers(r) ==
    /\ NobodySync /\ turn[r] = "seedfile"
    /\ Seed(r, needed[r])
    /\ Produce(r, 0)
    /\ turn' = [turn EXCEPT ![r] = "immediate"]
    /\ needed' = [needed EXCEPT ![r] = 0]

(* Mutant: a failing seed file is asked again. *)
SeedFileFailsRetries(r) ==
    /\ NobodySync /\ turn[r] = "seedfile"
    /\ turn' = [turn EXCEPT ![r] = "tick"]
    /\ needed' = [needed EXCEPT ![r] = 0]
    /\ overtaken' = overtaken \ {r}
    /\ UNCHANGED <<keyed, generated, reseeds, pools, pool, left, seeded, fill, since>>

(* Or an error, which goes to the callback of the request.                 *)
SeedFileFails(r) ==
    /\ NobodySync /\ turn[r] = "seedfile"
    /\ turn' = [turn EXCEPT ![r] = "idle"]
    /\ left' = [left EXCEPT ![r] = 0]
    /\ needed' = [needed EXCEPT ![r] = 0]
    /\ overtaken' = overtaken \ {r}
    /\ seeded' = seeded \ {r}
    /\ UNCHANGED <<keyed, generated, reseeds, pools, pool, fill, since>>

(* The inner generate, run by setImmediate: the callback, a reseed, or one *)
(* more block.                                                             *)
Answer(r) ==
    /\ NobodySync /\ turn[r] = "immediate" /\ left[r] = 0
    /\ turn' = [turn EXCEPT ![r] = "idle"]
    /\ seeded' = seeded \ {r}
    /\ UNCHANGED <<keyed, generated, reseeds, pools, pool, left, needed,
                   overtaken, fill, since>>

KeySpent(r) ==
    /\ NobodySync /\ turn[r] = "immediate" /\ left[r] # 0
    /\ ~KeyUsable
    /\ keyed' = FALSE
    /\ turn' = [turn EXCEPT ![r] = "tick"]
    /\ UNCHANGED <<generated, left, needed>>
    /\ NoSeed

NextBlock(r) ==
    /\ NobodySync /\ turn[r] = "immediate" /\ left[r] # 0
    /\ KeyUsable
    /\ Produce(r, generated)
    /\ UNCHANGED <<keyed, turn, needed>>
    /\ NoSeed

-----------------------------------------------------------------------------
(* Synchronous requests and collection                                     *)

(* ctx.generateSync: its loop gives nobody else a turn.                    *)
GenerateSync(n) ==
    /\ NobodySync
    /\ keyed' = FALSE
    /\ turn' = [turn EXCEPT !["sync"] = IF n = 0 THEN "idle" ELSE "loop"]
    /\ left' = [left EXCEPT !["sync"] = n]
    /\ seeded' = seeded \ {"sync"}
    /\ UNCHANGED <<generated, reseeds, pools, pool, needed, overtaken, fill, since>>

(* One round of the loop, reseeding first when the key is null or spent.   *)
SyncBlock ==
    /\ turn["sync"] = "loop"
    /\ \/ KeyUsable /\ Produce("sync", generated) /\ UNCHANGED keyed /\ NoSeed
       \/ ~KeyUsable /\ Seed("sync", Needed) /\ Produce("sync", 0)
    /\ turn' = [turn EXCEPT !["sync"] = IF LeftAfterBlock("sync") = 0 THEN "idle" ELSE "loop"]
    /\ UNCHANGED needed

(* seedFileSync throws, and the call with it.                              *)
SyncFails ==
    /\ turn["sync"] = "loop"
    /\ ~KeyUsable /\ Needed # 0
    /\ keyed' = FALSE
    /\ turn' = [turn EXCEPT !["sync"] = "idle"]
    /\ left' = [left EXCEPT !["sync"] = 0]
    /\ seeded' = seeded \ {"sync"}
    /\ UNCHANGED <<generated, reseeds, pools, pool, needed, overtaken, fill, since>>

(* ctx.collect, and collectInt through it.                                 *)
Collect(n) ==
    /\ NobodySync
    /\ \A k \in Pools : pools[k] =< MaxPool
    /\ pools' = Collected(n)
    /\ pool' = PoolAfter(n)
    /\ UNCHANGED <<keyed, generated, reseeds, turn, left, needed, observed>>

RequestStep(r) ==
    \/ \E n \in Sizes : Generate(r, n)
    \/ ReseedFromPools(r)
    \/ AskSeedFile(r)
    \/ SeedFileAnswers(r)
    \/ SeedFileFails(r)
    \/ Answer(r)
    \/ KeySpent(r)
    \/ NextBlock(r)

Next ==
    \/ \E r \in Requests : RequestStep(r)
    \/ \E n \in Sizes : GenerateSync(n)
    \/ SyncBlock
    \/ SyncFails
    \/ \E n \in Chunks : Collect(n)

(* The event loop runs what nextTick and setImmediate queued, whatever     *)
(* else keeps arriving, and the seed file calls back; a synchronous call   *)
(* runs to its end.                                                        *)
Fairness ==
    /\ \A r \in Requests :
        /\ SF_vars(ReseedFromPools(r) \/ AskSeedFile(r))
        /\ SF_vars(SeedFileAnswers(r) \/ SeedFileFails(r))
        /\ SF_vars(Answer(r) \/ KeySpent(r) \/ NextBlock(r))
    /\ WF_vars(SyncBlock \/ SyncFails)

SafetySpec == Init /\ [][Next]_vars

Spec == SafetySpec /\ Fairness

-----------------------------------------------------------------------------
(* Properties                                                              *)

TypeOK ==
    /\ keyed \in BOOLEAN
    /\ generated \in Nat
    /\ reseeds \in 0 .. MaxReseeds
    /\ pools \in [Pools -> Nat]
    /\ pool \in Pools
    /\ turn \in [Callers -> {"idle", "tick", "seedfile", "immediate", "loop"}]
    /\ left \in [Callers -> Nat]
    /\ needed \in [Requests -> Nat]
    /\ seeded \subseteq Callers
    /\ overtaken \subseteq Requests
    /\ fill \in Nat
    /\ since \in [Pools -> Nat]

(* A key never serves more than Limit bytes and the block that crosses it, *)
(* however many requests draw on it.                                       *)
LimitRespected == generated =< Limit + Block

(* No caller gets a block made from a seed older than its request.         *)
FreshOutput ==
    [][\A c \in Callers :
        left'[c] < left[c] /\ (generated' # generated \/ reseeds' # reseeds)
            => c \in seeded']_vars

(* The higher pools are used, and so do not keep collected entropy out of  *)
(* the key, at least every 2^k reseeds, also when the counter wraps.       *)
PoolsUsedOnTime == \A k \in Pools : since[k] < PowersOf(2)[k]

(* A reseed has the full MinPool bytes in pool 0, whatever was collected   *)
(* and reseeded between the question to the seed file and its answer; only *)
(* one that another reseed overtook there may have less, and has some.     *)
ReseedIsFull ==
    [][reseeds' # reseeds =>
        fill' >= IF \E r \in overtaken : turn[r] = "seedfile" /\ turn'[r] = "immediate"
                 THEN 1 ELSE MinPool]_vars

(* Every request is answered, with bytes or an error, also while others    *)
(* keep throwing the key away.                                             *)
RequestsAreAnswered == \A c \in Callers : turn[c] # "idle" ~> turn[c] = "idle"
=============================================================================

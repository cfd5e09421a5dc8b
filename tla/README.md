# node-certkit in TLA+

node-certkit is a TypeScript library of certificates, keys, ciphers, digests and
their encodings. Most of it runs inside one JavaScript thread; what makes it
hard is not parallelism but objects that live longer than one call: a CA store
whose arrays are handed out, a cipher whose block is half full, a generator on
whose key several requests draw, a derivation that gives way to the event loop,
a certificate that caches what it was parsed from.

This directory holds TLA+ modules of these parts, TLC configurations that check
them on small instances, and TLAPS proofs of theorems about them. Paths below
are relative to `src/src/`.

1. [Inventory](#1-inventory)
2. [Modules and how they correspond to the code](#2-modules-and-how-they-correspond-to-the-code)
3. [Runs, bounds and what they show](#3-runs-bounds-and-what-they-show)
4. [Fairness](#4-fairness)
5. [Theorems and proofs](#5-theorems-and-proofs)
6. [Where the code and its documentation disagree](#6-where-the-code-and-its-documentation-disagree)
7. [What is left out, and why](#7-what-is-left-out-and-why)
8. [Plan](#8-plan)

To run one check: `tlc -config MCCaStore.cfg MCCaStore.tla`; to check proofs:
`tlapm CertificateVerify_proofs.tla`.

## 1. Inventory

`PROJECT.json` lists every component with its files, and every hazard with its
line. In short:

| Component | State it keeps | Operations | What makes it hard, and what makes it correct |
|---|---|---|---|
| CA store (`domain/pki/x509/CaStore.ts`) | `certs`: subject hash to nothing, one object or an array; the attributes and the hash of each name, which a lookup sets | addCertificate, removeCertificate, hasCertificate, getIssuer, listAllCertificates | three shapes of a bucket, long sequences of calls; it must be a set, filed so that everything is found again |
| Chain verification (`certificateVerify.ts`) | the chain and depth of a call; it reads and shifts the store's arrays | verifyCertificateChain, the caller's verify callback | user code runs between two certificates; what it accepts must be a path anchored in the store |
| Names, certificates and requests (`Certificate.ts`, `CertificationRequest.ts` and the rest of `x509/`) | attributes, cached hashes, extensions and their values, the encoded body (tbs), the digest and its contents, signature | create, setSubject, setIssuer, addField, setExtensions, setAttributes, sign, verify, isIssuer, to PEM and back, and assignments to public fields | caches that are stale after a change, operations that fail half way; what a reader accepts must be what was signed |
| Fortuna (`infrastructure/prng/Fortuna.ts`) | key, byte and reseed counters, 32 pools | generate with and without callback, collect, reseed, seed file | requests interleave at nextTick, setImmediate and the seed file; fresh output, limits, starvation |
| Ciphers (`domain/cipher/`) | mode, vector, partial block, counter, GCM's hash and lengths, input and output buffers | start, update, finish, pad and unpad | any cutting of a message must give the result of the whole; partial blocks, padding and tags |
| Digests (`domain/digest/Md5.ts` ... `Sha512.ts`) | running state, rest of a block, length words | start, update, digest | cutting, length carries, a digest in the middle of a message |
| HMAC (`Hmac.ts`) | digest object, kept key, outer pad | start with or without object and key, update, getMac | objects and key buffers are shared with the caller |
| PBKDF2 (`Pbkdf2.ts`) | block and iteration counters of each derivation | derive, with or without callback | derivations take turns on one digest object |
| RSA key generation (`domain/pki/RsaService.ts`, `domain/prime/`) | the state record of a generation, primes, candidate, wheel index | create state, step with a time budget, generate with callback | pauses anywhere, primes that are swapped, dropped and drawn again |
| RSA encryption and signatures (`RsaService.ts`, `Pkcs1Codec.ts`, `PssScheme.ts`, `Mgf1.ts`) | the numbers of a key that are filled in on first use; the digest objects that schemes and programs share | encrypt, decrypt, sign, verify | shared objects, boundaries of lengths and paddings; only what the standard encodes may be accepted |
| ASN.1 (`domain/asn1/`) | a reader's position in a buffer, the octets kept beside a bit string's value | create, copy, fromDer, toDer, validate, dates, integers, identifiers | lengths, and values tried twice |
| PKCS#7, #8, #12, PBE | none after the call | encode, decode, search bags | order of checks; partial failure |
| PEM and encodings (`PemCodec.ts`, `domain/encoding/`) | none | encode, decode | boundaries |
| Buffers (`domain/buffer/`) | bytes, read and write pointers | put, get, truncate, compact | two implementations of one queue |
| Big integers (`domain/math/`) | limbs | arithmetic | carries |
| Assembly, registries, platform (`presentation/`, `infrastructure/`) | tables filled once | lookup | nothing that changes afterwards |

They interact by direct calls: verification calls the store and certificates;
HMAC and PBKDF2 drive digest objects, which a caller may hold too; key
generation draws on Fortuna through `getBytesSync`; a cipher object drives its
mode, which drives the block function. Callbacks are the verify callback, the
callbacks of generate, pbkdf2 and generateKeyPair, and the seed file's. The
event loop interleaves only what is queued with nextTick or setImmediate.

## 2. Modules and how they correspond to the code

`map` in `PROJECT.json` gives the lines of every definition. A definition that
is marked *Mutant* in its comment is not part of a model: it is a wrong version
of the definition after it, kept to show that a property would notice.

### Certificates

* **DistinguishedName**: the attributes and the hash of `cert.subject` and
  `cert.issuer`, of every object. `certificateFromAsn1` hashes the encoded name.
  A name that has no hash is hashed by the CA store: `Ensured` encodes it, puts
  the attributes that it reads back in the place of the old ones (with the octets
  of a UTF-8 value, for nobody decodes it), and hashes their types and values
  one after the other, with no marks or tags between them. `isIssuer` compares
  hashes if both are there and types and values otherwise. Types and values are
  sequences of characters; a digest is what was hashed, and how.
* **TrustStore**: the abstract CA store, a set.
* **CaStore** (extends DistinguishedName): one action per operation; each also
  fills in the hash it needs, and rewrites the attributes (`#ensureSubjectHasHash`). `certs[h]` is a bucket
  with its kind, "absent", "single" or "array", and its list. It implements
  TrustStore under the mapping to (hash, encoding) pairs.
* **CertificateVerify** (extends CaStore): a call is in phase "check" before a
  certificate and "answer" after it, when the callback decides.
  `CheckCertificate` is one round of the loop in `certificateVerify.ts`, with
  everything it does to the store and to names: those that the store hashes and
  rewrites, and the array it shifts. `Alike` says when two names are one as far as
  `isIssuer` can tell.
  `UseStore` is the application between two calls, or in its callback.

### Random generator

* **Fortuna**: a request is "tick" (nextTick queued the reseed), "seedfile",
  "immediate" (setImmediate queued the next block) or "idle". A pool is its
  length, a key is there or not. A synchronous request ("loop") keeps the others
  out until it ends. `seeded`, `overtaken`, `fill` and `since` only observe.

### Ciphers

* **CipherModes**: for each mode its start, one encrypt or decrypt call, pad,
  unpad and afterFinish, on a record of the mode's state with the input and
  output buffers, and the standards' definitions on whole messages.
* **BlockCipher**: the object; an update loops over `Step`, as the code does,
  until the mode says that it needs more. `Drain` is the caller who takes what
  there is out of the output buffer before the end.
* **CipherPair**: a cipher whose output goes to a decipher, cut otherwise, and
  changed or not on the way.

The modes take the block cipher, the multiplication and the encoding of lengths
as parameters; **MCCiphers** has toys of them for blocks of a few two-bit bytes.

### Digests

* **AbstractDigest**: a hash object: the message so far, and its hash when asked.
* **MessageDigest**: the four digests, that differ in block, length words and
  byte order, with a free compression function. `LengthAfter` is the carry
  from word to word, `FinalBlock` the padding. It implements AbstractDigest.
* **HmacTerms**: digest objects, which HMAC contexts and derivations are given;
  hashes and pads as terms, and the standard's HMAC of them.
* **Hmac**: contexts over shared digest objects and key buffers. A digest object
  is its message so far, as AbstractDigest promises. `StartWithKeptKey` is
  start without a key, on the same or another object.
* **Pbkdf2**: derivations with callbacks. `Turn` is the function `inner` as
  setImmediate runs it, up to the next setImmediate or the callback, which may
  pass through `outer` and begin another block. `UseObject` is the caller
  on the digest object that it gave away.

### RSA key generation

* **RsaArithmetic**: primes, inverses, candidates (the next number that is 1
  modulo 30, which may have one bit too many), and what a key pair must be.
* **KeyPairs**: the abstract generation: nothing, then one right key pair.
* **StepKeyGeneration**: `stepKeyPairGenerationState`, one action per branch of
  its loop; `Resume` is the end of a call's time and the next call, which loses
  the local `deltaIdx` and nothing else.
* **AsyncKeyGeneration**: `#generateKeyPairAsync` over `PrimeService`: one
  action per candidate; `Finish` is the callback that checks, keeps, drops and
  searches again. The turns of the event loop do not show: all that `primeinc`
  has is passed to its next turn.
* **KeyGeneration**: the end of `generateKeyPair`, which without native code makes
  a state and gives it to the one or the other; here is the fairness of both.

Both generations implement KeyPairs.

### Representations

* **Asn1**: values as trees; `toDer`, `fromDer` with its options and `validate`
  against schemas, with the exceptions they throw. The reader's position and
  what remains of the value around it are the arguments and results of `Read`.
* **Asn1Documents**: a value that a program writes, or octets that it reads,
  changes and writes again.
* **Scalars**: identifiers, integers, UTC and generalized times; and octets as
  text: base64, base-n, hexadecimal, and Internet addresses.
* **Conversions**: PEM messages with headers, their folding and unfolding; and
  a value that is written by any of these and read back.

Pure functions are operators here; a state is a value, what it became, and what
is made of it.

### Certificates as objects

* **X509Extensions**: attributes and extensions, as they are filled in, written
  and read.
* **Certificates**: RSA keys to ASN.1 and back; signature parameters and signatures; a certificate as a
  record, its encoding, decoding and verification.
* **CertificateLife**: a program that creates a certificate and then follows a
  script or does anything: sets and adds names, sets extensions, assigns to
  fields, signs (with digests that are unknown or used, and keys that throw),
  writes and reads. A signature is the record of what was fed to the digest and
  the key that signed: nobody can make another's.
* **CertificationRequests**: the same for a request.

DistinguishedName and CertificateVerify see certificates from outside, as the
store and verification do; here is what is inside. The alphabet is of octets, an
object identifier is one octet, and hashes are ideal.

### RSA encryption and signatures

* **Pkcs1Blocks**: numbers and octets; the blocks of PKCS#1 v1.5.
* **RsaSchemes**: the private operation with its remainders, its blinding, and
  the numbers it adds to the key; OAEP and PSS. The digest objects are an argument
  and a result, for schemes start and update objects that others hold.

The blocks stand beside what RFC 8017 says of them.

* **RsaMessages**: one message that is encrypted or signed, or octets from
  nowhere, and what the other side makes of them.
* **DigestInfos**: a signature of v1.5, forged in one place, and its verification.

The modules `MC...` give constants values, the modules `..._proofs` hold
theorems, and **Powers** has the powers that the models write, with the facts
about them that proofs need.

## 3. Runs, bounds and what they show

| Run | Instance | What it shows |
|---|---|---|
| ca_store (`MCCaStore.cfg`) | eight certificate objects: a parsed CA twice and its renewal, a created CA whose UTF-8 name the store rewrites, a created certificate that it issued to the first name, both of these read back, and a created CA of another name with the same types and values run together | every order of calls keeps what is filed where it is found, and behaves as a set; isIssuer is right as far as it can be. Four certificates under one name, of which two are one encoding, make every transition between the three shapes of a bucket happen; one more adds only longer arrays |
| is_issuer_by_name (`MCIsIssuer.cfg`) | seven objects with names that no encoding changes: the parsed CAs, one created and read back, a parsed and a created leaf | violated: see section 6 |
| verify_chain (`MCCertificateVerify.cfg`) | a parsed root, its renewal with another key and an unknown critical extension, a parsed leaf; two created CAs that certify each other, one with the root's name and key, the other with a UTF-8 name that the store rewrites and path length 0; seven chains of up to three, with and without a date and a callback | an accepted chain is a path and anchored; a chain that the store vouches for is accepted, whatever was verified before; a verification ends and does not take the only certificate of a name. Three certificates are the least at which path lengths, CAs in the middle, and the store as parent differ |
| fortuna (`Fortuna.cfg`) | two requests and a synchronous one, for 0 and 3 bytes, two pools, a block of 2, limit 2, the reseed counter wrapping after 1 | fresh output, the limit, pools on time over the wrap, full reseeds, and every request answered. Two requests are enough for one to throw away the other's key at each of its waits; with two pools only the counter's parity matters |
| ciphers (`MCCiphers.cfg`) | all modes in both directions, blocks of 3 bytes, messages of up to two blocks in pieces of 0 to 4, output taken at any time, two vectors, with and without additional data, right and wrong tags, a counter of one byte that wraps; and a cipher whose output goes to a decipher, cut otherwise, changed or not | the output of any cutting is the standard's; bad padding and tags are refused and nothing of them comes out; CBC goes on from the last message; each update ends; what the decipher accepts is what was sent |
| gcm_tag_length (`MCTagLength.cfg`) | tags of half a block of 4 bytes | violated: see section 6 |
| macs (`MCMacs.cfg`) | digests with blocks of 4 and 8 bytes and words that wrap at 8, messages of up to 70 bytes in pieces of 0, 1, 3 and 7; two HMAC contexts, two objects with blocks of 2 and 3, keys that fit both and only one; two derivations of one to three iterations and up to two blocks | the length carries through its words and each padding occurs; getMac is the standard's though contexts trade objects and keys; derived keys are the standard's in every order of turns |
| key_generation (`MCKeyGeneration.cfg`) | in steps and with a callback, moduli of 14 to 16 bits with exponents 5, 7, 11 and 13 | primes of 7 and 8 bits: candidates too long, composite, refused for the exponent, moduli too short, primes swapped and equal; keys are as asked for, and generation ends |
| representations (`MCRepresentations.cfg`) | octets of 4 bits for scalars and encodings, every boundary of their ranges; times in every form, with Z, and with offsets +hhmm of 0 and 2 hours and 0, 5, 30 and 45 minutes; all DER of few octets; headers folded at 8, also with words longer than that | values come back as they were or are refused; a time is the one its text denotes, if its offset's minutes are less than ten; what is read of octets is what they denote, and is written so that it is read the same |
| offset_minutes (`MCOffsetMinutes.cfg`) | the same | violated: see section 6 |
| certificates (`MCCertificates.cfg`) | scripts that end in up to three free operations, all kinds of extensions, three digest objects of which one is unknown, keys that throw, requests with none, good and bad attributes | what verifies is a signature of what is written; what is written and read is what was signed; names, hashes and memory fit. Three free operations are enough to change, fail and read between two signings |
| rsa (`MCRsa.cfg`) | keys of 11 to 13 bits in octets of 2, complete, without remainders (with the smaller prime first, and d modulo the least common multiple) and without primes; nine messages, eight schemes, digest objects that hold something and are shared; all blocks of the smallest key; and signatures of v1.5 in octets of 8 for a key of 36, each octet replaced, left out or added | what was made is accepted, whatever objects and numbers were there; what is accepted is an encoding of the standard. Keys of 13 bits have the octet that PSS does not fill |

`CHECK_DEADLOCK FALSE` stands where the system stops: a pair that compared
its messages, a key generation that is over, a program at the end of its
script, a value that was read back, a message that was taken.

Bounds that the models name: `MaxPool` (Fortuna: nobody collects into a pool
that is longer), `MaxLen`, `MaxMessage` and `MaxText` (bytes of a message), `Drain` (the
output is taken once in a message), `NotOuter` (Hmac: nobody takes a mac of the
outer message that getMac leaves in an object), `MaxDepth` (nesting of DER),
`MaxArc` and `MaxPrefix` (numbers of an identifier; 2^32 - 1 and 2^53 / 128).
Symmetry is used for HMAC's contexts, which are interchangeable in the model, in
a run without liveness properties.

## 4. Fairness

* CertificateVerify: weak fairness of a round and of its answer. The call is
  synchronous and the callback returns.
* Fortuna: strong fairness of each request's queued step. The queues of the
  event loop are first in, first out, and every turn runs all that is queued;
  a synchronous request of another caller disables the step only for a while.
  The seed file answers or fails. No fairness of new requests or collections.
* BlockCipher: weak fairness of a step of update's synchronous loop.
* Key generation: weak fairness of the loop, and of every number that can be
  drawn, strong fairness: numbers are random. A caller of
  `stepKeyPairGenerationState` calls until it returns true, and each call runs
  a round at least.

`GenerationEnds` needs more than fairness: a partner for every prime. When the
modulus is too short the code draws only q again (`RsaService.ts:735`, `:951`),
and p is the larger of all primes so far. With 15 bits and exponent 7 no 7-bit
prime goes with p = 151, and both generations run for ever; TLC shows it when
this size is put in `MCRequests`. At the sizes in use a p without a partner
is one within a few candidates of a power of two.

## 5. Theorems and proofs

Theorems hold for every value of the constants that satisfies the modules'
assumptions, which say what type a constant has, that null values are none of
the proper ones, and of digests that blocks and bytes divide words. TLC evaluates every assumption on the instances.

* **CertificateVerify_proofs**, of the store. The inductive invariant `StoreInv`
  has types, shapes of buckets, no duplicates, filing, and the origin of every
  name: an object that was parsed has its first attributes and the hash of their
  encoding, one that was created its first attributes and no hash, or those the
  store read back and the hash of these. The last part is needed because a lookup
  may rewrite a name at any time, and the others do not say that it makes the
  same of it, which it does, for a name without a hash is as it was at first. From it follow the run's
  invariants, those that no run repeats (`BucketShape`, `NoDuplicateDer`,
  `ListedIsFound`), and the refinement `StoreIsASet`: an operation adds an entry,
  removes one, or is a stuttering step.

  Of a verification: the store's invariant does not survive it whole (an array may lose its last element to a shift), so that
  `VerifyInv` keeps the parts that do: types, filing, no duplicates. To it it
  adds what the walk knows at its depth: the certificates below it are links
  of a path unless the callback overrode a failure, and `known` has all that
  the store holds. From it follow `AcceptedPathSound` and `AcceptedAnchored`
  (when the last round accepts, the last link and its anchor are what the round
  looked at), and `OnlyCertificateKept`. `DueIsAccepted` has an invariant of its
  own: a chain that is due stays due until its last round, because only that
  round takes certificates out of the store. It rests
  on the forms a name can have (`NameForms`): between objects of one origin the
  lookup misses no name, and isIssuer none that no store changes, which is why
  the chain's inner names are of that kind (`NamesHold`). The name that leads
  from the last certificate to the store may be any: the lookup has hashed both.
  Between other names a yes of isIssuer says less (`Alike`), which is what
  `AcceptedPathSound` can say of links.
* **Fortuna_proofs**. `FortunaInv` has types, the limit, and `KeyIsFresh`: a key
  that is there was seeded since every request began that is about to draw on
  it. It is inductive because `Generate` throws the key away at its beginning.
  From it follow `KeyLimit` and `OutputIsFresh`, for any number of requests.
  `PoolsAreUsed` rests on `AgeIsCounted`: the count of reseeds modulo 2^k is the
  age of pool k, also where the count wraps to 0, at which every pool is used.
  `ReseedsAreFull` rests on `AskedEnough`: what a request asked the seed file for
  is whole rounds over the pools, enough for pool 0 unless another reseed has
  emptied it since.
* **KeyGeneration_proofs**. Of the generation in steps, `StepInv` says what each
  state of the machine has established: of the candidate, of the primes that
  are there, and, after the search, of their order, phi and the length. It has
  to say that the search is at its beginning in the later states, to which it
  returns when a prime is dropped. Of the search with a callback, `SearchInv`
  says that what is kept is prime and which of the two is missing. From them
  follows `KeysRefined` for both: the numbers of a delivered key pair are made
  of the final primes, wherever the calls end. `KeysAreInverses` opens the
  arithmetic: `ModInverse` searches, and finds an inverse by Bezout's lemma;
  reduced modulo p - 1 the inverse stays one. `KeysUndoEachOther` is what keys
  are for: a number that is raised to both exponents of a delivered pair is
  itself again. It has to say that the primes differ, for nothing in the code
  refuses two that are equal, and modulo a square a multiple of the prime does
  not come back. `PrimesAreInPlay` needs that no request is for less than 8 bits
  (`Ample`): the wheel raises a number by up to 31, and by
  up to 30 more, which takes a number of four bits or more at most one bit
  further, but a number of three past that.
* **Macs_proofs**, of digests. `DigestInv` says that the length words are the digits
  of the message's length, the chain its blocks and the input the rest, for
  any pieces, any sizes of blocks that divide a word, and two or four words.
  The lemmas are about division (of digits that are added and multiplied),
  blocks of a message that goes on, the padding as the shortest, and the
  length in bits as both byte orders write it. From it follows the refinement
  `HashRefined`, in which the length wraps as the standard lets it.

  Of HMAC, `HmacInv` has two parts that need one another: what a kept key has to do with the one that was given (itself, its hash if it was too
  long for one object, nothing that is known after two), and that an object whose
  message nobody disturbed holds the inner pad and the text. From it follows
  `MacsAreStandard`. It assumes that every hash fits every block (`HmacInputs`),
  as those of the library do: 64 bytes are the longest hash and the shortest
  block. Of PBKDF2, `DerivationInv` counts hashes: between two turns a derivation
  has the standard's last hash and the sum of the hashes so far (`SumOfNext`: a
  term is in a sum if it occurs an odd number of times), and the blocks before.
  The digest objects have no part in it, because a fitted key stays what it is
  when prf.start fits it again. A turn that passes through `outer` goes over
  blocks (`AtBlock`), by induction. From it follows `KeysAreStandard`.
* **BlockCipher_proofs**. The standard is stated on whole messages: `Chained` is
  the chain of blocks from the vector on, `StandardBlock` a block of the result.
  `Reads` says what the object's state is after whole blocks: the chain's block
  or the counter of that place, GCM's hash of what the blocks gave, and of a
  block that has begun the bytes so far, with the rest of its keystream. It is
  the heart of the inductive invariant `CipherInv`, with types, and with what CBC
  keeps for a message that continues this one. The proof follows the loop of
  update: a step takes a whole block, or part of one, or goes on with one, and in
  each case for each mode the state `Reads` one more place; a counter of any
  number of bytes that wraps is a number modulo a power (`Number`, `Counter`).
  Messages that go on from one another are joined by `ChainJoins`. From it
  follow `PiecesAreStandard`, `MessagesAreJoined`, `TagsAreStandard` and
  `FinishesAreWhole`. Of finish, `Ending` is what all modes have in common, and
  there are four cases: streams, whole blocks that stay, blocks whose padding is
  taken off (`PaddingIs`: it looks only at what is still in the buffer;
  `UnpaddedIs`: what was padded is unique), and GCM's deciphering, which takes
  off the zeros its last block was filled with. `StandardUndone` says of the
  standard itself that each mode's decryption undoes its encryption: block by
  block (`ModesUndo`), with the same keys on both sides (`SameKeys`, by
  induction, for what a block hands on is the same seen from either side). With
  `FinishesAreWhole`, with `PreparedIs` (a padding can be told from what was
  padded) and with `OnlyChecksFail` (nothing but a tag and a padding is ever
  found wrong) it gives `WhatIsSentComesBack`: a cipher gives
  `Encrypted(fed)`, and a decipher of the same mode, vector and padding that was
  fed `Encrypted(m)` accepts it, and has put out m, in whatever pieces either
  was given its input, unless its output was drained up to the last block, which
  then can no longer be unpadded. `TagsAreStandard`, `FinishesAreWhole` and
  `WhatIsSentComesBack` have the hypothesis `TagsFit`: a tag is longer than half a block and no longer than a
  block. For shorter ones the first two are false, which is the third disagreement of
  section 6. The assumptions ask that pads are of two kinds and that, for a mode
  that pads, a byte can hold the size of a block, as it can of 8 and 16.
* **RsaNumbers_proofs**. The number theory that keys and messages share, on the
  models' own operators: congruences, Bezout's lemma from the least positive
  combination, Euclid's lemma, and
  Fermat's theorem (`Fermat`), by the product of 1 to p - 1: times a and reduced
  these are the same numbers in another order, so that their product is the same
  and a^(p - 1) leaves 1. Products over a set of numbers are recursive functions,
  and induction is over a set of naturals (`Induction`), without an operator as
  parameter. From it, exponents that are inverses modulo p - 1 and q - 1 undo
  each other modulo p q, for different primes (`ExponentsUndo`).
* **RsaMessages_proofs**. `PrivatePowIs`: with remainders given or filled in, and
  blinded by any number drawn, Garner's formula finds the same power as without
  primes; `PowersUndo`: the two operations undo each other. For each of v1.5, OAEP
  and PSS three lemmas: what is encoded is a block of the standard (`Encoded15`,
  `OaepEncoded`, `PssEncoded`), a block of the standard is decoded to what it is
  a block of, and nothing else is decoded (`Decoded15`, `OaepDecoded`,
  `PssVerified`). Masks are octets of one stream that never ends (`MaskIs`), an
  exclusive or undoes itself, and the seed or salt is the only choice. The
  inductive invariant is `MessageInv`: a key stays a private key with the same
  modulus whatever is filled in, the digest objects hold octets of some kind, and
  the octets that were made are a block for their data, raised to the exponent of
  the side that made them. The block is the reason why the properties alone are
  not inductive: they speak of what comes out at the other side, and the step
  that opens the octets needs to know what was closed in them. `TakenAsMade` and
  `TakenIsEncoded` say of the last call what the properties say. From these
  follow `WhatWasMadeIsTaken` and `OnlyTheEncodedIsTaken`, both directions of the
  promise of `RsaService`: what was made is accepted, and only what the standard
  encodes is accepted.

  Assumed of constants (`KeysAssumption`, `SchemesAssumption`, `DataAssumption`): a key
  is made of two different primes over 2, with exponents that are inverses modulo
  each prime less one (modulo phi, as this library has it, or modulo the least
  common multiple, as others do), has three octets at least, and the numbers that it
  has beside these are right; octets have two bits at least; PSS signatures have
  a salt (section 6); and random octets are drawn until there are enough that
  are not 0. Of hashes the theorems have the hypothesis `HashesFit`: a hash is
  octets, as many as its algorithm has.
* **Powers**: `PowersOf(b)[k]` is what it should be, by a least counterexample;
  the powers of two are positive and grow; powers of sums and products; quotients
  of quotients.

Checked by TLC alone:

* liveness (`VerificationEnds`, `RequestsAreAnswered`, `UpdateEnds`,
  `GenerationEnds`), which the prover cannot reach;
* what recursive operators compute (Asn1, Scalars and Conversions, and the
  certificates and requests above them), for in a module that reaches one
  the prover has no arithmetic, and induction over data is out of its reach;
* that a decipher accepts only what was sent (`OnlyTheSentIsAccepted`): that it
  accepts what was sent is the theorem `WhatIsSentComesBack`, of one object at a
  time; that GCM refuses the rest is of toys for which no two of the messages
  have one tag;
* that of v1.5 signatures only the standard DigestInfo is valid
  (`OnlyStandardInfoIsValid`), which goes through the ASN.1 reader and its
  recursion.

## 6. Where the code and its documentation disagree

1. `isIssuer` (`domain/pki/x509/Certificate.ts:460`) says no for equal names when
   both hashes are there and one was computed by the CA store, the other by
   the parser. The comment at lines 445-446 promises a comparison of names.
   `IsIssuerIsSound` is the part that holds.
2. The minutes of a time's offset are read one character too far
   (`domain/asn1/Asn1Codec.ts:704` of UTC times, `:775` of generalized ones): of
   `+0230` the code takes `0` for the minutes. The comment at line 666 says
   that what follows the hours is "the absolute value of the offset from GMT in
   minutes"; the tests at `src/tests/unit/asn1.test.ts:244-264` and `:310-328`
   have offsets of this form, all of whole hours. `TimeIsDenoted` is the part that
   holds. The same comments write a mark after the hours (`+hh'mm'`): with it a
   UTC time would be read right, and a generalized one, whose sign is looked for
   five characters before the end (line 764), would not be seen to have an offset.
3. GCM does not cut a tag whose length divides 16 bytes
   (`domain/cipher/GcmMode.ts:219` takes the remainder), while start refuses a
   tag that has not `tagLength / 8` bytes (lines 67-68): a decipher cannot be
   started with the tag that a cipher with the same tagLength gave.

Met while modelling, without a run of their own:

* A verification takes certificates out of the store when it has several of the
  issuer's name (`certificateVerify.ts:81` shifts the array that `getIssuer`
  handed out), so that a second verification of the same chain may fail. Nothing
  that is written in the repository promises otherwise.
  `OnlyCertificateSurvives` is what holds.
* The first lookup of a created name rewrites it (`CaStore.ts:149`), and UTF-8
  values are encoded on the way in and not decoded on the way out. When that has
  happened to the name of a created CA, and not to the same name in a created
  child, isIssuer says no, and a chain of the two is refused. `IsIssuerIsSound`
  and `DuePathAccepted` leave this case out. An encoded value that is written
  again is encoded twice.
* The store's hash runs over types and values without marks or tags
  (`x509Shared.ts:46-49`): two names that run together to the same characters are
  one to isIssuer and to the lookup. The run ca_store has two.
* A PEM header that is folded at a comma before a word longer than a line is
  folded once more right after it (`PemCodec.ts:205-222`); the empty line that
  this writes ends the headers when the message is read (`:100`), and the rest of
  them is taken for the body. `WordsFit` leaves such headers out.
* A digest object is updated and never started by `sign` (`Certificate.ts:390`):
  one that has input, or is used again, signs other bytes than the certificate's.
  The runs have it (`reused`), and `SignedVerifies` and `MemoryIsWritten` leave it
  out.
* `addField` does not drop a stored hash as `setSubject` does
  (`Certificate.ts:268`), so that a name to which something was added keeps the
  hash it had. The run has it (`added`), and `NameHashesFit` leaves it out.
* Values of extensions are assigned before they are whole, and what throws in the
  middle leaves them so (`X509ExtensionFill.ts:177`): the next call with the same
  object takes them for complete. The runs have it (`spoiled`, `unfilled`), and
  `ReadAsSigned` and `RequestReadAsSigned` leave it out.
* A p without a partner keeps key generation from ending (section 4). The run has
  sizes without such a p.
* A PSS signature without salt never verifies (`PssScheme.ts:129`, `substr(-0)`
  is the whole block); the check that an encrypted PEM message has DEK-Info
  compares an object with a string (`PemCodec.ts:179`); digests named RSASSA-PSS
  are always SHA-256 when they are made for a verification
  (`X509Signature.ts:161`).

## 7. What is left out, and why

* Chain verification: verification within the callback of another verification;
  an empty chain; SHA-1 collisions; certificates that are changed or signed again
  while a store has them. The second `isIssuer` check of a round is there
  (`IssuerInvalid`), for the store may rewrite a subject between it and the first,
  but the instance has no name that makes it fail. The loop of
  `removeCertificate` has one element to remove, by the theorem on
  `NoDuplicateDer`.
* Certificates and requests: fingerprints; identifiers of more than one octet
  (they are Scalars'); extensions with a value that a program made itself, beyond
  one; BMP strings of an odd number of octets.
* Fortuna: the contents of pools, keys and output; the seed file that falls back
  on Math.random when there is no crypto module.
* Ciphers: the block functions; GHASH's tables; update after finish, and CBC
  begun without a vector before any message, which are no uses the repository
  makes.
* Digests: the compression functions, and the cut of SHA-384 and SHA-512/t.
* PBKDF2: the path through node:crypto, which is Node's own; the synchronous
  loop, which is a derivation that nobody interrupts.
* RSA: limbs (numbers are numbers); the options that verify takes for tests of
  its own; salts of length 0 (section 6); custom scheme objects beside OAEP and
  PSS; the generation by node:crypto; reading the arguments; composites that
  pass the Miller-Rabin test.
* AES, DES and RC2 as permutations; registries, assembly and platform, which
  have no state that changes; pretty printing.

## 8. Plan

In this order, the most important behaviour first:

1. **PKCS#12 and PBE**: decoding as a sequence of checks, bags found by name and
   key, MAC before contents; key derivation with its byte carries.
2. **Buffers** (ByteQueue, ByteStringBuffer, DataBuffer): two implementations of
   one queue, with compaction and growth, as refinements.
3. **Big integers**: limbs of two bits against integers.
4. **Rc2Cipher**'s own loop, and GHASH's tables against its multiplication.

Hmac and Pbkdf2 have the same digest objects, but MCMacs runs one of them at a
time; contexts and derivations are to be mixed.

Theorems planned: `CipherPair`'s composition of the two invariants; the buffers'
refinements.

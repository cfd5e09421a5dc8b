------------------------------- MODULE MCRsa -------------------------------
EXTENDS RsaMessages

(* Of 11 bits, of 12 without remainders, with the smaller prime first and  *)
(* d modulo the least common multiple, as other makers of keys have it,    *)
(* and of 13, where a block has one octet more than PSS fills, with primes *)
(* and without.                                                            *)
Pair(p, q, e) == KeyPair(p * q, e, (p - 1) * (q - 1), p, q)
Bare(k) == [k EXCEPT !.dP = 0, !.dQ = 0, !.qInv = 0]
OnlyD(k) == [Bare(k) EXCEPT !.p = 0, !.q = 0]
MCKeys == {Pair(41, 31, 7), Bare([Pair(47, 83, 3) EXCEPT !.d = 629]), Pair(89, 83, 3), OnlyD(Pair(89, 83, 3))}

MCAlgorithms == (0 :> "sha1") @@ (1 :> "sha1") @@ (2 :> "sha256")
MCDigestLength == [sha1 |-> 1, sha256 |-> 2]
MCHash(a, data) ==
    LET h == MCDigestLength[a]
    IN  AsOctets(FoldLeft(LAMBDA n, octet : ((n * (4 + h)) + octet + 1) % 251, h, data), h)

MCHoldings == {(0 :> <<>>) @@ (1 :> <<3, 1>>) @@ (2 :> <<1>>), (0 :> <<>>) @@ (1 :> <<>>) @@ (2 :> <<0, 0, 2>>)}
MCMessages == {<<>>, <<0>>, <<1>>, <<3>>, <<0, 2>>, <<1, 3>>, <<2, 0, 1>>, <<3, 3, 3, 3, 3, 3>>, <<0, 1, 0, 0, 0, 2>>}

Oaep(md, mgf1, label) == [scheme |-> "RSA-OAEP", md |-> md, mgf1 |-> mgf1, label |-> label]
Pss(md, mgf, saltLength) == [scheme |-> "PSS", md |-> md, mgf |-> mgf, saltLength |-> saltLength]

MCEncryptions ==
    {[scheme |-> "RSAES-PKCS1-V1_5"], [scheme |-> "RAW"], Oaep(0, 0, <<>>), Oaep(1, 0, <<2>>),
     Oaep(1, 2, <<>>), Oaep(2, 0, <<>>)}
MCSignatures ==
    {[scheme |-> "NONE"], Pss(1, 1, 1), Pss(1, 2, 2), Pss(2, 1, 1), Pss(2, 2, 4)}

MCStreams == {<<1, 2, 3, 1, 2>>, <<0, 3, 0, 0, 1, 1, 0, 2, 3>>}
MCBlindings == {2, 100}

(* Every number for the smallest key, some for the others, and n and more. *)
MCArrivals(n) ==
    LET k == OctetLength(n)
    IN  {AsOctets(m, k) : m \in (IF n < 2048 THEN 0 .. n - 1 ELSE {97 * i : i \in 0 .. 40}) \cup {n, n + 1}}
            \cup {AsOctets(1, k - 1)}
MCHashes == {<<0>>, <<2>>}

-----------------------------------------------------------------------------
(* Signatures of v1.5 in octets of eight bits, for a key of 288 bits.      *)

VARIABLES written, block, edited, verdict
infoVars == <<written, block, edited, verdict>>

MCIdentifiers == [md5 |-> <<1, 2, 840, 113549, 2, 5>>, sha1 |-> <<1, 3, 14, 3, 2, 26>>,
    sha256 |-> <<2, 16, 840, 1, 101, 3, 4, 2, 1>>, data |-> <<1, 2, 840, 113549, 1, 7, 1>>]

Infos == INSTANCE DigestInfos WITH
    MaxDepth <- 256, K <- 36, Identifiers <- MCIdentifiers,
    DigestOids <- {"md5", "sha1", "sha256"}, Expected <- <<7, 9>>,
    Signed <- [algorithm : DOMAIN MCIdentifiers \cup {"whirlpool"}, digest : {<<7, 9>>, <<7, 10>>, <<>>}],
    Edits <- {0, 1, 2, 5, 6, 48, 128, 129, 255}

NoInfo == [algorithm |-> "none"]

Init ==
    \/ MessageInit /\ written = NoInfo /\ block = NoBlock /\ edited = FALSE /\ verdict = "none"
    \/ /\ Infos!DigestInfoInit
       /\ key = Pair(41, 31, 7) /\ digests = <<>> /\ phase = "start" /\ made = NotMade
       /\ octets = NoBlock /\ taken = NotMade /\ got = Result("none")

Next ==
    \/ written = NoInfo /\ MessageNext /\ UNCHANGED infoVars
    \/ written # NoInfo /\ Infos!DigestInfoNext /\ UNCHANGED messageVars

Spec == Init /\ [][Next]_<<messageVars, infoVars>>

(* Signatures of v1.5 are valid only as the standard has them.             *)
OnlyStandardInfoIsValid == written # NoInfo => Infos!OnlyStandardInfoIsValid
=============================================================================

--------------------------- MODULE MCCertificates ---------------------------
EXTENDS CertificateLife, CertificationRequests

Names == <<"commonName", "countryName", "private", "rsaEncryption", "md5", "sha256",
           "md5WithRSAEncryption", "sha1WithRSAEncryption", "sha256WithRSAEncryption",
           "keyUsage", "basicConstraints", "extKeyUsage", "serverAuth", "nsCertType",
           "subjectAltName", "nsComment", "subjectKeyIdentifier", "authorityKeyIdentifier",
           "cRLDistributionPoints", "extensionRequest", "challengePassword">>
MCOidOctets == [name \in Range(Names) |-> <<40 + CHOOSE i \in DOMAIN Names : Names[i] = name>>]
MCRegistered == Range(Names) \ {"private"}
MCShortNames == ("commonName" :> "CN") @@ ("countryName" :> "C")

(* An ideal hash: each input is its own hash.                              *)
MCSha1(octets) == octets

Named1(value) == [name |-> "commonName", value |-> value]
MCCaAttributes == <<Named1(<<65, 66>>), [shortName |-> "C", value |-> <<67>>, valueTagClass |-> UTF8]>>
MCCaKey == [n |-> 200, e |-> 3]
OwnKey == [n |-> 33023, e |-> 17]

MCArrays ==
    ("plain" :> <<[type |-> "private", value |-> <<65>>], [shortName |-> "C", value |-> <<68>>]>>)
    @@ ("wide" :> <<[name |-> "commonName", value |-> <<233, 66>>, valueTagClass |-> UTF8]>>)
    @@ ("bad" :> <<Named1(<<69>>), [value |-> <<70>>]>>)

Offer(name, flags) == [name |-> name, flags |-> flags]
MCOffers ==
    ("usage" :> Offer("keyUsage", <<"digitalSignature", "keyCertSign", "critical">>))
    @@ ("decipher" :> Offer("keyUsage", <<"decipherOnly">>))
    @@ ("ca" :> Set(Offer("basicConstraints", <<"critical", "cA">>), "pathLenConstraint", 0))
    @@ ("length" :> Set(Offer("basicConstraints", <<>>), "pathLenConstraint", 2))
    @@ ("server" :> Offer("extKeyUsage", <<"serverAuth">>))
    @@ ("email" :> Offer("nsCertType", <<"email", "objCA">>))
    @@ ("names" :> Set(Offer("subjectAltName", <<>>), "altNames",
                       <<[type |-> 2, value |-> <<80>>], [type |-> 7, ip |-> <<10, 0, 0, 1>>],
                         [type |-> 8, oid |-> "private"]>>))
    @@ ("badNames" :> Set(Offer("subjectAltName", <<>>), "altNames",
                          <<[type |-> 2, value |-> <<80>>], [type |-> 7, ip |-> <<>>]>>))
    @@ ("badPoints" :> Set(Offer("cRLDistributionPoints", <<>>), "altNames",
                          <<[type |-> 6, value |-> <<80>>], [type |-> 7, ip |-> <<>>]>>))
    @@ ("points" :> Set(Offer("cRLDistributionPoints", <<"critical">>), "altNames", <<[type |-> 6, value |-> <<81>>]>>))
    @@ ("comment" :> Set(Offer("nsComment", <<>>), "comment", <<82>>))
    @@ ("ski" :> Offer("subjectKeyIdentifier", <<>>))
    @@ ("aki" :> [name |-> "authorityKeyIdentifier", flags |-> <<>>, keyIdentifier |-> [own |-> TRUE],
                  authorityCertIssuer |-> [own |-> TRUE], serialNumber |-> [own |-> TRUE]])
    @@ ("aki2" :> [id |-> "authorityKeyIdentifier", flags |-> <<>>, keyIdentifier |-> [octets |-> <<1, 2>>]])
    @@ ("raw" :> [id |-> "private", flags |-> <<"critical">>, value |-> <<5, 0>>])

MCDigestObjects == <<"sha256", "sha512/224">>

Date(year, second) == Times!DateOf(year, 1, 31, 0, 0, second, 0)
MCNow == Date(2020, 7)

Assigned(key, serialNumber, until) ==
    [name |-> "assign", key |-> key, serialNumber |-> serialNumber,
     notBefore |-> MCNow, notAfter |-> Date(until, 59)]
SetTo(side, list, uniqueId) == [name |-> "setName", side |-> side, list |-> list, uniqueId |-> uniqueId]
Extend(ids) == [name |-> "setExtensions", ids |-> ids]
Signed(key, digest, throws) == [name |-> "sign", key |-> key, digest |-> digest, throws |-> throws]
Add(side, attr) == [name |-> "addField", side |-> side, attr |-> attr]
Written == [name |-> "write"]
Gets(computeHash) == [name |-> "read", computeHash |-> computeHash]

Start(issuer, ids) ==
    <<Assigned(OwnKey, <<1>>, 2049), SetTo("subject", "plain", Nothing),
      SetTo("issuer", issuer, Nothing)>> \o (IF ids = <<>> THEN <<>> ELSE <<Extend(ids)>>)

MCScripts ==
    {[ops |-> Start(issuer, <<>>), then |-> 3] : issuer \in {"ca", "plain"}}
    \cup {[ops |-> Start("ca", <<"ski">>) \o <<Signed(key, d, FALSE), Written>>, then |-> 3] :
            key \in {CaKey, OwnKey}, d \in {0, 1}}
    \cup {[ops |-> Start("ca", ids) \o <<Signed(MCCaKey, 0, FALSE), Written, Gets(TRUE), Written>>, then |-> 0] :
            ids \in {<<id>> : id \in DOMAIN MCOffers \ {"badNames", "badPoints"}}
                    \cup {<<"ski", "aki", "usage">>}}
    \cup {[ops |-> Start("ca", <<bad>>) \o <<Extend(<<bad, "ski">>), Signed(MCCaKey, 0, FALSE), Written>>,
           then |-> 1] : bad \in {"badNames", "badPoints"}}
    \cup {[ops |-> Start("ca", <<>>) \o <<SetTo("issuer", "wide", <<<<9>>>>), SetTo("subject", "wide", <<<<8>>>>),
                                          Signed(MCCaKey, 0, FALSE), Written, Gets(TRUE)>>, then |-> 3]}

MCAnything ==
    {SetTo("subject", "wide", <<<<9>>>>), SetTo("issuer", "bad", Nothing), SetTo("issuer", "ca", Nothing),
     Add("issuer", Named1(<<71>>)), Add("subject", [value |-> <<72>>]),
     Assigned(MCCaKey, <<0, 130>>, 2050), Extend(<<"ski", "usage">>), Extend(<<"badNames">>),
     Signed(MCCaKey, 0, FALSE), Signed(OwnKey, 1, FALSE), Signed(OwnKey, 2, FALSE),
     Signed(OwnKey, 0, TRUE), Written, Gets(TRUE), Gets(FALSE)}

-----------------------------------------------------------------------------
(* Requests                                                                *)

Asked == [type |-> "extensionRequest", extensions |-> <<MCOffers["usage"], MCOffers["ca"], MCOffers["names"]>>]
AskedBadly == [type |-> "extensionRequest", extensions |-> <<MCOffers["ca"], MCOffers["badNames"]>>]
Password(value) == [name |-> "challengePassword", value |-> value]

MCRequestAttributes ==
    ("name" :> MCArrays["plain"])
    @@ ("asked" :> <<Password(<<73, 233>>), Asked>>)
    @@ ("refused" :> <<AskedBadly, Password(<<74>>)>>)

MCRequestDigests == {"sha256", "sha512/224"}

SetList(op, list) == [name |-> op, list |-> list]
SignWith(key, digest) == [name |-> "signRequest", key |-> key, digest |-> digest]

MCRequestScripts ==
    {[ops |-> <<[name |-> "assignKey", key |-> OwnKey], SetList("setSubject", "name")>> \o more, then |-> 3] :
        more \in {<<SignWith(OwnKey, "sha256")>>, <<SetList("setAttributes", "asked"), SignWith(OwnKey, "sha1")>>}}

MCRequestAnything ==
    {SetList("setSubject", "name"), SetList("setAttributes", "asked"), SetList("setAttributes", "refused"),
     [name |-> "addAttribute", attr |-> Password(<<75>>)], [name |-> "addAttribute", attr |-> [value |-> <<75>>]],
     [name |-> "addSubjectField", attr |-> Named1(<<76>>)], [name |-> "assignKey", key |-> MCCaKey],
     [name |-> "writeRequest"], [name |-> "readRequest", computeHash |-> TRUE], [name |-> "readRequest", computeHash |-> FALSE]}
    \cup {SignWith(OwnKey, digest) : digest \in MCRequestDigests}

-----------------------------------------------------------------------------
(* Either a program with a certificate or one with a request.              *)

Idle == [ops |-> <<>>, then |-> 0]

Init == (CertificateInit /\ RequestStart(Idle)) \/ (CertificateStart(Idle) /\ RequestInit)

Next == (CertificateNext /\ UNCHANGED requestVars) \/ (RequestNext /\ UNCHANGED certificateVars)

Spec == Init /\ [][Next]_<<certificateVars, requestVars>>
=============================================================================

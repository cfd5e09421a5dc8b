CONSTANTS
    root = root
    renewed = renewed
    leaf = leaf
    built = built
    inter = inter
    Certs <- MCCerts
    Subject <- MCSubject
    Issuer <- MCIssuer
    Parsed <- MCParsed
    Utf8 <- MCUtf8
    NoHash = NoHash
    Ders <- MCDers
    Der <- MCDer
    Keys <- MCKeys
    Key <- MCKey
    Signer <- MCSigner
    NotBefore <- MCNotBefore
    NotAfter <- MCNotAfter
    UnknownCritical <- MCUnknownCritical
    IsCa <- MCIsCa
    PathLen <- MCPathLen
    Unlimited = 3
    Chains <- MCChains
    CheckDates <- MCCheckDates
    NoDate = NoDate
SPECIFICATION Spec
PROPERTIES
    AcceptedPathHolds
    AcceptedIsAnchored
    DuePathAccepted
    OnlyCertificateSurvives
    VerificationEnds

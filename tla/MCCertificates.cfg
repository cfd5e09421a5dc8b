CONSTANTS
    MaxDepth = 256
    OidOctets <- MCOidOctets
    Registered <- MCRegistered
    ShortNames <- MCShortNames
    Sha1 <- MCSha1
    Scripts <- MCScripts
    Anything <- MCAnything
    Arrays <- MCArrays
    Offers <- MCOffers
    DigestObjects <- MCDigestObjects
    Now <- MCNow
    CaAttributes <- MCCaAttributes
    CaKey <- MCCaKey
    RequestScripts <- MCRequestScripts
    RequestAnything <- MCRequestAnything
    RequestAttributes <- MCRequestAttributes
SPECIFICATION Spec
CHECK_DEADLOCK FALSE
INVARIANTS
    SignedVerifies
    MemoryIsWritten
    ReadAsSigned
    IssuedByCa
    NameHashesFit
    RequestReadAsSigned

CONSTANTS
    ca = ca
    caAgain = caAgain
    caRenewed = caRenewed
    caBuilt = caBuilt
    caBuiltRead = caBuiltRead
    leaf = leaf
    leafBuilt = leafBuilt
    wide = wide
    wideRead = wideRead
    cross = cross
    crossRead = crossRead
    twin = twin
    Certs <- WideCerts
    Subject <- MCSubject
    Issuer <- MCIssuer
    Parsed <- MCParsed
    Utf8 <- MCUtf8
    NoHash = NoHash
    Ders <- MCDers
    Der <- MCDer
SPECIFICATION StoreSpec
INVARIANTS
    FiledUnderSubject
    IssuerIsFound
    IsIssuerIsSound
PROPERTIES
    RefinesTrustStore

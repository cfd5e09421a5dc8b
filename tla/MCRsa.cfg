CONSTANTS
    OctetBits = 2
    MinPadding = 2
    Trailer = 2
    Keys <- MCKeys
    Algorithms <- MCAlgorithms
    DigestLength <- MCDigestLength
    Hash <- MCHash
    Holdings <- MCHoldings
    Messages <- MCMessages
    Encryptions <- MCEncryptions
    Signatures <- MCSignatures
    Streams <- MCStreams
    Blindings <- MCBlindings
    Arrivals <- MCArrivals
    Hashes <- MCHashes
SPECIFICATION Spec
CHECK_DEADLOCK FALSE
INVARIANTS
    WhatWasMadeIsAccepted
    OnlyEncodedIsAccepted
    OnlyStandardInfoIsValid

CONSTANTS
    Block = 3
    CounterBytes = 1
    Plain = {0, 3}
    Cipher <- MCCipher
    Decipher <- MCDecipher
    TimesH <- MCTimesH
    Lengths <- MCLengths
    Modes = {"ECB", "CBC", "CFB", "OFB", "CTR", "GCM"}
    Directions = {FALSE, TRUE}
    Ivs <- TwoIvs
    Chunks <- SomePieces
    AADs <- TwoAADs
    TagLengths = {2}
    Tags <- FewTags
    Pads = {"mode", "none"}
    MaxLen = 6
SPECIFICATION MCSpec
CHECK_DEADLOCK FALSE
INVARIANTS
    PiecesDoNotMatter
    TagIsStandard
    FinishIsWhole
    ContinuedIsOne
    OnlyTheSentIsAccepted
PROPERTY UpdateEnds

CONSTANTS
    Block = 4
    CounterBytes = 1
    Plain = {0, 3}
    Cipher <- MCCipher
    Decipher <- MCDecipher
    TimesH <- MCTimesH
    Lengths <- MCLengths
    Modes = {"GCM"}
    Directions = {FALSE}
    Ivs <- TwoIvs
    Chunks <- SomePieces
    AADs <- NoAAD
    TagLengths = {2}
    Tags <- FewTags
    Pads = {"mode", "none"}
    MaxLen = 6
SPECIFICATION MCSpec
CHECK_DEADLOCK FALSE
INVARIANT TagHasTagLength

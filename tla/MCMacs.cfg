CONSTANTS
    Algorithms <- AllAlgorithms
    ShortBlock = 4
    LongBlock = 8
    WordSize = 8
    ByteBits = 2
    PieceSizes = {0, 1, 3, 7}
    MaxMessage = 70
    o1 = o1
    o2 = o2
    c1 = c1
    c2 = c2
    b1 = b1
    d1 = d1
    d2 = d2
    None = None
    Contexts <- TwoContexts
    Strings <- MCStrings
    Buffers <- OneBuffer
    Messages <- MCMessages
    MaxText = 1
    Derivations <- TwoDerivations
    Objects <- TwoObjects
    Algorithm <- MCAlgorithm
    BlockLength <- MCBlockLength
    DigestLength <- MCDigestLength
    digestLength <- MCdigestLength
    Requests <- MCRequests
    Uses <- MCUses

SPECIFICATION Spec
SYMMETRY ContextSymmetry
INVARIANT KeyIsStandard
PROPERTIES
    RefinesHash
    MacIsStandard

CONSTANTS
    MaxDepth = 8
    OctetBits = 4
    MaxArc = 65535
    MaxPrefix = 100000
    LocalOffset = 120
    FoldLength = 8
    Oids <- MCOids
    Ints <- MCInts
    Dates <- MCDates
    TimeTexts <- MCTimeTexts
    Texts <- MCTexts
    Messages <- MCMessages
    MaxLines <- MCMaxLines
SPECIFICATION Spec
CHECK_DEADLOCK FALSE
INVARIANT OffsetIsRead

CONSTANTS
    Requests <- MCRequests
    None = None

SPECIFICATION GenerationSpec
INVARIANTS
    PrimesInPlayFit
    KeysAreInverse
PROPERTIES
    RefinesKeys
    GenerationEnds
CHECK_DEADLOCK FALSE

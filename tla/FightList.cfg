CONSTANTS
    Chars = {c1, c2, c3, c4}
    NULL = NULL
SPECIFICATION Spec
INVARIANTS
    TypeOK
    ListIntact
    StopIsComplete
PROPERTIES
    ImplementsFightOrder
    StopReturns

CONSTANTS
    Kinds <- MCKindsRead
    MaxReq = 2
    TidInit = {1}
    Segmenting = FALSE
    Cuts = {}
SPECIFICATION Spec
INVARIANT ResolvedWithOwnTransaction
CHECK_DEADLOCK FALSE

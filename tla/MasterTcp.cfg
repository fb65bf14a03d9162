CONSTANTS
    Kinds <- MCKinds
    MaxReq = 2
    TidInit = {1, 255}
    Segmenting = TRUE
    Cuts = {4, 9, 12}
SPECIFICATION Spec
INVARIANT TypeOK
INVARIANT WaitMatchesClient
INVARIANT ResolvedWithEquivalentAnswer
PROPERTY EverySettles
PROPERTY ImplementsModbusCall
CHECK_DEADLOCK FALSE

CONSTANTS
    Kinds <- MCKinds
    MaxReq = 2
    Cuts = {3, 5}
SPECIFICATION Spec
INVARIANT TypeOK
INVARIANT WaitMatchesClient
INVARIANT ResolvedWithEquivalentAnswer
INVARIANT WholeAnswerAccepted
PROPERTY EverySettles
PROPERTY ImplementsModbusCall
CHECK_DEADLOCK FALSE

CONSTANTS
    Kinds <- MCKindsRead
    MaxReq = 1
    Cuts = {5}
SPECIFICATION Spec
INVARIANT PartialAnswerNotRejected
CHECK_DEADLOCK FALSE

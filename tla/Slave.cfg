CONSTANTS
    Units <- MCUnits
    Models <- MCModels
    Requests <- MCRequests
    MaxFrames = 1
    Outcomes <- MCOutcomes
    Addrs <- MCAddrs
    HrInit <- MCHrInit
SPECIFICATION Spec
INVARIANT TypeOK
INVARIANT AtMostOneResponse
INVARIANT AckAfterAllWrites
PROPERTY EveryUnicastAnswered

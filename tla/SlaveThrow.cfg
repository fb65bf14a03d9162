CONSTANTS
    Units <- MCUnits
    Models <- MCModels
    Requests <- MCThrowRequests
    MaxFrames = 1
    Outcomes <- MCThrowOutcomes
    Addrs <- MCAddrs
    HrInit <- MCHrInit
SPECIFICATION Spec
PROPERTY EveryUnicastAnswered

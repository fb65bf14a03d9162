CONSTANTS
    Adus <- MCAdus
    MaxSent = 2
    MaxDamaged = 1
    Noise <- MCNoiseLetter
    AllowWait = FALSE
    AllowClose = TRUE
SPECIFICATION Spec
INVARIANT DeliveredWereSent
CHECK_DEADLOCK FALSE

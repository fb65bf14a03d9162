CONSTANTS
    Adus <- MCAdus
    MaxSent = 2
    MaxDamaged = 1
    Noise <- MCNoise
    AllowWait = TRUE
    AllowClose = TRUE
SPECIFICATION Spec
INVARIANT RoundTrip
INVARIANT NoIntactFrameLost
CHECK_DEADLOCK FALSE

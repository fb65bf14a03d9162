CONSTANTS
    o1 = o1  o2 = o2  k1 = k1  k2 = k2  c1 = c1  c2 = c2
    Opens <- MCOpens
    Closes <- MCCloses
    Conns <- MCConns
    MaxSends = 2
SPECIFICATION Spec
INVARIANT TypeOK
INVARIANT DataOnlyWhileOpen
INVARIANT IsOpenMeansListening
PROPERTY OpenSettles
CHECK_DEADLOCK FALSE

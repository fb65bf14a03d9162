---------------------------- MODULE MC_TcpServer ----------------------------
EXTENDS TcpServer

CONSTANTS o1, o2, k1, k2, c1, c2

MCOpens  == {o1, o2}
MCCloses == {k1, k2}
MCConns  == {c1, c2}
=============================================================================

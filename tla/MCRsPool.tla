------------------------------ MODULE MCRsPool ------------------------------
EXTENDS RsPool

CONSTANTS c1, c2, c3, s1, s2

MCConns == {c1, c2, c3}
MCSessions == {s1, s2}
=============================================================================

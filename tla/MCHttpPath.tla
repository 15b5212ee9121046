----------------------------- MODULE MCHttpPath -----------------------------
EXTENDS HttpPath

CONSTANTS o1, o2
MCWarmKeys == <<o2>>
MCKeys == <<o1, o2>>
=============================================================================

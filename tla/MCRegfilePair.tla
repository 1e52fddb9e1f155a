--------------------------- MODULE MCRegfilePair ----------------------------
EXTENDS RegfilePair

MCReg == 0 .. 2
MCWord == 0 .. 1
=============================================================================

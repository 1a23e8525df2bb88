---------------------------- MODULE MCServerPools ----------------------------
EXTENDS ServerPools
=============================================================================

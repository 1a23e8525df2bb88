--------------------------- MODULE MCThreadObject ---------------------------
EXTENDS ThreadObject
=============================================================================

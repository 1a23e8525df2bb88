---------------------------- MODULE MCCoastQueue ----------------------------
EXTENDS CoastQueue
=============================================================================

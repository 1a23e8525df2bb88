-------------------------- MODULE MCLeaderFollower --------------------------
EXTENDS LeaderFollower
=============================================================================

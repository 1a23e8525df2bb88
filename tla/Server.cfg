SPECIFICATION FairSpec
CONSTANTS
  N = 2
  Callers = {l1, l2}
  MaxRequests = 3
  MaxHups = 2
  Nobody = Nobody
INVARIANTS NothingLost
PROPERTIES ServiceSpec ShutdownCompletes ReinitEnds AcceptedIsServed
CHECK_DEADLOCK FALSE

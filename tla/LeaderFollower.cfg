SPECIFICATION FairSpec
CONSTANTS
  Threads = {t1, t2, t3}
  NOFDS = 2
  MaxHups = 2
  cNoCurrentLeader = cNoCurrentLeader
  cBlockPromotion = cBlockPromotion
INVARIANTS OneLeader BlockHolds
PROPERTIES ConnectionsAccepted AllLeave
CHECK_DEADLOCK FALSE

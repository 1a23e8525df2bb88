CONSTANTS N = 2
          MaxInits = 3
          Faults = {"alloc", "init", "storage", "veto", "fork"}
SPECIFICATION FairSpec
INVARIANTS CountersAgree
PROPERTIES DeletedOnlyTerminated JoinMeansDone PoolComesToRest
CHECK_DEADLOCK FALSE

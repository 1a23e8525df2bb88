CONSTANTS Putters = {p1, p2}
          Getters = {g1}
          fQueueSize = 1
          Elements = {a}
          Modes = {"blocking", "try"}
          CtlOps = {"block", "unblock", "empty", "destruct"}
          MaxCtl = 2
          MaxTokens = 3
SPECIFICATION Spec
INVARIANTS CountsExact
PROPERTIES NothingPutAfterBlock
CHECK_DEADLOCK FALSE

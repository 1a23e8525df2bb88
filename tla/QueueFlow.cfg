CONSTANTS Putters = {p1, p2}
          Getters = {g1, g2}
          fQueueSize = 2
          Elements = {a, b}
          Modes = {"blocking", "try"}
          CtlOps = {}
          MaxCtl = 0
          MaxTokens = 2
SPECIFICATION FairFlowSpec
INVARIANTS TokensExact
PROPERTIES FifoSpec ElementsFlow

CONSTANTS Controllers = {c1}
          MaxForks = 4
SPECIFICATION FairSpec
INVARIANTS TerminatedIsOver OneThreadOfControl
PROPERTIES CallsReturn

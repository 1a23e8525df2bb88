SPECIFICATION Spec
CONSTANTS
  a = a
  b = b
  c = c
  d = d
  x = x
  AllModules = {a, b, c, d, x}
  Registered = {a, b, c, d}
  Static = {a, b, c}
  Mandatory = {a, c}
  BootList <- Boot
  NewLists <- New
  NumResets = 3
INVARIANT RunningModules
PROPERTIES NotInitialisedTwice NestedOrder
CHECK_DEADLOCK FALSE

SPECIFICATION Spec
CONSTANTS
  Keys = {1, 2, 3}
  Values = {1}
  MaxSize = 4
  MaxCalls = 8
  IFAHash <- Hashes
  cInitCapacity = 3
  InitCapacity = 2
  ARRAY_BUF_SIZE = 2
INVARIANTS PlacesInBuffers NamesFound
PROPERTIES FullOnlyByJump ListSpec
CHECK_DEADLOCK FALSE

SPECIFICATION FairSpec
CONSTANTS
  Config = {c1}
  Null = none
  MaxThreads = 2
  MaxInstances = 1
PROPERTIES
  DisconnectCloses
CHECK_DEADLOCK FALSE

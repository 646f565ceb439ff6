SPECIFICATION FairSpec
CONSTANTS
  Config = {c1}
  Null = none
  MaxThreads = 2
  MaxInstances = 2
INVARIANTS
  OneThreadPerService
  OnlyThePastTakesConfiguration
  StatusSettles
PROPERTIES
  InterruptIsObeyed
CHECK_DEADLOCK FALSE

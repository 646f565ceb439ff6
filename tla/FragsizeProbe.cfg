SPECIFICATION ProbeSpec
CONSTANTS
  Sizes = {0, 2, 3, 4, 5, 17, 101, 102, 103, 298, 299, 300, 301, 311, 312, 767, 768, 1523, 1524, 1535, 1536, 1600}
  ProbeTries = 3
INVARIANTS
  EveryProbeTells
  ResultIsClose
  FragmentsFit
CHECK_DEADLOCK FALSE

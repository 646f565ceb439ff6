SPECIFICATION Spec
CONSTANTS
  Size = 3
  Id = {0, 1, 2}
  Asker = {a, b}
  NoAddr = none
  MaxForwarded = 5
PROPERTIES
  AnswerReachesAsker
  AnswerGoesToAnAsker

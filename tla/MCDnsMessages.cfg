SPECIFICATION Spec
CONSTANTS
  Topdomains <- MCTopdomains
  Sendings <- MCSendings
  Answers <- MCAnswers
INVARIANTS
  SentIsReceived
  ProbeIsNoShorter
  AnswerReadsAsWritten
PROPERTIES
  ReferralIsAnswered
  EveryNameGetsOn
CHECK_DEADLOCK FALSE

SPECIFICATION FairSpec
CONSTANTS
  usercount = 2
  Timeout = 1
  Host = {relay, own}
  check_ip = TRUE
  QueryName = {q1}
  Activity = {"login", "tunnel", "rawlogin", "raw"}
  MaxSessions = 3
INVARIANTS
  OnlyOwnLoginCounts
  OnlyOwnRawLoginCounts
  RawClientMeetsRawServer
PROPERTIES
  ActiveSlotIsKept
  SilentSlotComesFree

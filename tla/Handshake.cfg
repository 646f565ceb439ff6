SPECIFICATION FairSpec
CONSTANTS
  created_users = 2
  Codecs = {"Base32", "Base64"}
  Tries = 2
  NoneLimit = 2
  FewLimit = 3
  CountLimit = 4
  lazy_mode = TRUE
  Lines = {"perfect", "poor"}
  check_ip = TRUE
  MaxTests = 2
  MaxLag = 2
  MaxConnections = 1
INVARIANTS
  LazyAgreed
  ConfirmedCodecIsUsed
  AnsweredMeansLazy
PROPERTIES
  HandshakeEnds

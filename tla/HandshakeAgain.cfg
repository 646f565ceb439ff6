SPECIFICATION Spec
CONSTANTS
  created_users = 2
  Codecs = {"Base32", "Base128"}
  Tries = 5
  NoneLimit = 6
  FewLimit = 10
  CountLimit = 100
  lazy_mode = TRUE
  Lines = {"perfect"}
  check_ip = FALSE
  MaxTests = 5
  MaxLag = 2
  MaxConnections = 2
INVARIANTS
  AnsweredMeansLazy

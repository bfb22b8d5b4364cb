SPECIFICATION CheckerSpec
CONSTANTS
  Clients = 2
  Keys = {1, 2}
  MaxOps = 3
  Profiles = {{"read", "write"}, {"txn"}}
  Unrecorded = 2
  Lies = 1
  StateLimits = {3, 12}
  MemoMax = 2
INVARIANTS
  VerdictsAreEarned
CHECK_DEADLOCK FALSE

SPECIFICATION FairSpec
CONSTANTS
  c1 = c1
  c2 = c2
  Calls = {c1, c2}
  Kinds <- MCKinds
  Chunks = 1
  Writes = 2
  SendAttempts = 2
  SettleAttempts = 2
  MaxFaults = 1
INVARIANT CallsSound
PROPERTY CallsEnd
PROPERTY LaterCallCompletes
CHECK_DEADLOCK FALSE

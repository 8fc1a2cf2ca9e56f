SPECIFICATION Spec
CONSTANTS
  r1 = r1
  r2 = r2
  Requests = {r1, r2}
  Cases <- MCHuman
  Windows <- MCWindows
  ApiMax = 1
  MaxTime = 0
  MaxCrashes <- MCCrashes
  f1 = f1
  f2 = f2
  f3 = f3
  b1 = b1
  a1 = a1
  Foreign = {f1, f2, f3, b1}
  Writes = {f2, f3}
  Blessed <- MCBlessed
  Artifacts = {a1}
  ArtifactOf <- OneArtifact
  Keys <- MCKeys
  KeysOf <- MCKeysOf
  OthersOf <- MCOthersOf
  WarmKey <- MCWarmKey
  FetchFactor = 2
  FetchMax = 3
  HistoryLimit = 2
  Batch = 1
INVARIANT OneHumanEntersOnce
CHECK_DEADLOCK FALSE

SPECIFICATION FairSpec
CONSTANTS
  Sessions = {s1, s2}
  Abandoned = {s2}
  ChunkIndexes = {0, 1}
  ChunkSizes = {1, 2, 3}
  MediumMax = 2
  TTL = 1
  MaxClock = 3
  MaxCrashes = 2
  MaxFinalizes = 2
INVARIANT OneDrawPerSession
INVARIANT DrawIsTheUpload
INVARIANT StatusIsTrue
PROPERTY FinalizedIsKept
PROPERTY FinalizeEnds
CHECK_DEADLOCK FALSE

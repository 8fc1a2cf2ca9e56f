CONSTANTS
  Us = Us
  Other = Other
  MaxLines = 5
  Worlds <- MCWorlds
SPECIFICATION VerifierSpec
INVARIANT VerdictSound
INVARIANT ConsistentMatches
INVARIANT StatusTrueAtSomeMoment
INVARIANT AnySourceSuffices
CHECK_DEADLOCK FALSE

SPECIFICATION Spec
CONSTANTS
  SnapIds = {1, 2, 3}
  Orders = {0}
  Weights = {0, 2}
  Scores <- MCScores
  Targets <- MCTargets
  MaxSnapshot = 3
  MaxWinnersSnap = 2
  ArtIds = {1, 2, 3}
  ArtValues = {1, 2}
  Payouts = {0, 1}
  MaxEntries = 3
  MaxOutcomes = 2
  MaxWinners = 2
  FieldValues <- MCFieldValues
  WeightScale = 3
  NormScale = 5
  CompIds = {1, 3}
  CompMax = 2
  LegChoices <- MCLegs
  StatValues <- MCStats
  Fixtures = {0, 1}
  Statistics <- MCStatistics
  OddsScale = 10
  FixedScale = 100
  MinOdds = 11
  MaxOdds = 60
  MaxLegs = 2
  ProductMax = 120000
  ScoreMax = 1000
  Entrants = {1, 2}
  Strips <- MCStrips
  Lines <- MCLines
  Rows = 2
  Cols = 3
  WildIdx = 0
  ScatterIdx = 1
  Multiplier <- MCMultiplier
  MultScale = 10
  ScaleNum = 3
  ScaleDen = 2
  MaxDim = 4
  Bets = {1, 3}
  Byte = 8
  MultBytes = 2
  MaxBody = 54
  EditAt = {1, 2, 3, 4, 10, 12, 16}
  EditBytes = {0, 2, 3}
INVARIANT SnapshotSound
INVARIANT ClaimsAreReplays
 
INVARIANT RankingSound
INVARIANT RoundsSound
CHECK_DEADLOCK FALSE

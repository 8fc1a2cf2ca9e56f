SPECIFICATION FairSpec
CONSTANTS
  MaxEntries = 4
  ExpiryAfter = 2
  Actors = {a1}
  Formats = {"compact"}
  Payouts <- MCPayouts
  Wins = {}
  MaxWinMultiplier = 0
  Inputs = {1}
  Bounties = {0}
  Fees = {0}
  AllowChoices = {TRUE, FALSE}
  Reviews = {"REJECTED"}
  Pauses = {TRUE}
  Commits = {c1, c2}
  Secrets = {c1}
  NoSecret = NoSecret
  Seeds = {seed1, seed2}
  Withdrawals = {}
  Fundings = {}
  Rent = 1
  DrawOffsets <- MCDrawOffsets
  UnicornOffsets <- MCUnicornOffsets
  SpinOffsets <- MCSpinOffsets
  AttestAfter = 1
  Gaming = FALSE
  UnicornG = TRUE
  MaxResolves = 2
  MaxSlot = 10
  MaxSkip = 0
  LastPrepare = 2
  MaxExternal = 0
INVARIANT ResolutionsSound
PROPERTY EventuallyConcluded
CHECK_DEADLOCK FALSE

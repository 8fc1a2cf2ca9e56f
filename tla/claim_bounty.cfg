SPECIFICATION Spec
CONSTANTS
  MaxEntries = 4
  ExpiryAfter = 2
  Actors = {a1}
  Formats = {"compact"}
  Payouts <- MCPayouts
  Wins = {}
  MaxWinMultiplier = 0
  Inputs = {1}
  Bounties = {0, 1}
  Fees = {0}
  AllowChoices = {FALSE}
  Reviews = {}
  Pauses = {}
  Commits = {}
  Secrets = {}
  NoSecret = NoSecret
  Seeds = {seed1}
  Withdrawals = {}
  Fundings = {}
  Rent = 1
  DrawOffsets <- MCDrawOffsets
  UnicornOffsets <- MCUnicornOffsets
  SpinOffsets <- MCSpinOffsets
  AttestAfter = 1
  Gaming = FALSE
  UnicornG = FALSE
  MaxResolves = 1
  MaxSlot = 9
  MaxSkip = 0
  LastPrepare = 2
  MaxExternal = 0
INVARIANT BountyPaidOrSlashed
CHECK_DEADLOCK FALSE

SPECIFICATION Spec
CONSTANTS
  MaxEntries = 4
  ExpiryAfter = 2
  Actors = {a1}
  Formats = {"compact", "slot", "scale7"}
  Payouts <- MCPayouts
  Wins = {0, 1, 5}
  MaxWinMultiplier = 15000
  Inputs = {1, 2}
  Bounties = {1}
  Fees = {0, 1}
  AllowChoices = {FALSE}
  Reviews = {}
  Pauses = {TRUE}
  Commits = {}
  Secrets = {}
  NoSecret = NoSecret
  Seeds = {seed1}
  Withdrawals = {2}
  Fundings = {2}
  Rent = 1
  DrawOffsets <- MCDrawOffsets
  UnicornOffsets <- MCUnicornOffsets
  SpinOffsets <- MCSpinOffsets
  AttestAfter = 1
  Gaming = FALSE
  UnicornG = FALSE
  MaxResolves = 2
  MaxSlot = 8
  MaxSkip = 1
  LastPrepare = 2
  MaxExternal = 2
INVARIANT TypeOK
INVARIANT FundsPlaced
INVARIANT VaultSound
INVARIANT EntropySound
PROPERTY ConcludedIsFinal
PROPERTY ImplementsEscrow
CHECK_DEADLOCK FALSE

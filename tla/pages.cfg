SPECIFICATION PagesSpec
CONSTANTS
  Wallets = {w1, w2}
  Disconnecting = {w1}
  Addresses = {a1, a2}
  s1 = s1
  s2 = s2
  p1 = p1
  p2 = p2
  Signatures <- MCSignatures
  Ids <- MCIds
  Members <- MCMembers
  Nothing = Nothing
  MaxSwitches = 1
  MaxDraws = 2
  MaxVerifies = 2
  MaxChecks = 2
SYMMETRY MCSymmetry
INVARIANT WalletViewSound
INVARIANT AnswersSound
CHECK_DEADLOCK FALSE

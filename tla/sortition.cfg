SPECIFICATION FairSpec
CONSTANTS
  MaxEntries = 4
  ExpiryAfter = 2
  Actors = {a1, a2}
  Tickets = {t1, t2}
  Secrets = {s1}
  TargetOffsets <- MCTargetOffsets
  RegDurations = {1, 2}
  ClaimDurations = {1, 2}
  FeeModes <- MCFeeModes
  EntryFees = {2}
  SkimRates = {5000, 10000}
  TicketRent = 3
  MaxSlot = 9
  MaxSkip = 1
  LastCreate = 1
INVARIANT TicketsSound
INVARIANT RentConserved
INVARIANT OmegaSound
PROPERTY TermsOfTicketsFixed
PROPERTY RentReturned
CHECK_DEADLOCK FALSE

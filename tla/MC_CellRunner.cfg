SPECIFICATION FairSpec
CONSTANTS
  c1 = c1
  c2 = c2
  cheap = cheap
  premium = premium
  Cells <- MC_Cells
  Profiles <- MC_Profiles
  Eligibles <- MC_Eligibles
  Rank <- MC_Rank
  Premium <- MC_Premium
  NoProfile = NoProfile
  Budgets <- MC_Budgets
  MaxSpend = 1
  UsageBound = 3
INVARIANTS RetriesWithinCap OwnLadder AuditNamesEveryAttempt
PROPERTY EveryCellEnds

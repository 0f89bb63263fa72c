SPECIFICATION AuthoritySpec
CONSTANTS
  Axes <- MC_Axes
  Limited <- MC_Limited
  Limits <- MC_Limits
  Spends <- MC_Spends
  Ids = {1, 2, 3}
  MaxRecords = 1
INVARIANT WithinLimit
CHECK_DEADLOCK FALSE

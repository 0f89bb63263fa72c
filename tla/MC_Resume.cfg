SPECIFICATION Spec
CONSTANTS
  Cells = {"a", "b", "c"}
  Deps <- MC_Deps
  Runs = {1, 2, 3}
  Limit = 3
  Loops <- MC_Loops
  MaxRounds = 1
  MaxFaults = 1
INVARIANTS
  NoWorkTwice
  KeptRoundsAreUsed
  SeededUnlessCut
  ExhaustedBuysOneWave
  UsageCarries
CHECK_DEADLOCK FALSE

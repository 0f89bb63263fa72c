SPECIFICATION Spec
CONSTANTS
  Budgets <- MC_Budgets
  Size <- MC_Size
  ToolPlans <- MC_Plans
  Usages <- MC_Usages
  SystemPrompt = TRUE
  Window = 10
  MaxOutput = 2
  MinRetained = 1
  MaxTruncations = 2
  MaxParallel = 2
  MaxAttempts = 2
INVARIANTS RequestsPaired ObjectiveKept BudgetsHold FuseBoundsCalls
PROPERTY EveryAttemptEnds
CHECK_DEADLOCK FALSE

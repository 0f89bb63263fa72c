SPECIFICATION Spec
CONSTANTS
  Calls = {c1, c2}
  Profiles <- MC_Profiles
  RequestOf <- MC_RequestOf
  Answers <- MC_Answers
  MaxCalls = 3
  Window = 2
  Backoff = 1
INVARIANTS ReservationsWithinRpm SlotsAreExact AnswerIsWhole WireAnswersCalls
PROPERTY EveryCallEnds
CHECK_DEADLOCK FALSE

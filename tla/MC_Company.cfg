SPECIFICATION Spec
INVARIANTS VerdictRestsOnEvidence ReturnAgreesWithLedger OutcomeAlwaysRecorded
           UndisturbedRunSettles
PROPERTY KeepsRunPromise

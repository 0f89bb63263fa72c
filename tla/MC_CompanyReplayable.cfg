SPECIFICATION Spec
INVARIANT LedgerStaysReplayable

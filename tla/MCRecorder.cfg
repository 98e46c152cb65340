\* A flow records into a queue of one slot while two callers close the recorder and the
\* sink may fail or block for ever.
CONSTANTS
  Flows = {f1}
  Capacity = 1
  Outcomes = {"completed"}
  MaxOutcomes = 1
  Closers = {c1, c2}
SPECIFICATION BlockedSinkSpec
INVARIANTS CountersExact ArtifactComplete NilMeansFlushed
PROPERTY CloseReturns
CHECK_DEADLOCK FALSE

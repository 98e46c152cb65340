\* Reloads, or two editors with a persist that may fail, and toggles, while flows pin
\* snapshots and decide.
CONSTANTS
  Flows = {f1, f2, f3}
  Requests = {"a", "b"}
  Documents <- MCDocuments
  Infra <- MCInfra
  Rules <- MCRules
  Draw <- MCDraw
  Editors = {x1, x2}
  MaxRules = 2
  MaxRevision = 3
  MaxSequence = 4
SYMMETRY FlowSymmetry
SPECIFICATION Spec
INVARIANTS SnapshotsConsistent AttemptsExact Reproducible NoLostUpdate EnabledAsAsked
CHECK_DEADLOCK FALSE

CONSTANTS
  Conns <- MCConns
  Admins = {"a1", "a2"}
  MaxFailures = 1
SPECIFICATION Spec
INVARIANTS FlowsBeforeSummary 
PROPERTY ShutdownEnds

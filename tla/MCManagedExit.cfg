\* As MCManaged, but the lock of an exiting process is free before its handlers end.
CONSTANTS
  Processes = {p1, p2}
  Documents = {d1, d2}
  NoDocument = NoDocument
  Nobody = Nobody
  AuditLimit = 2
  MaxRevision = 3
  PowerFails = FALSE
  PromptExit = FALSE
SPECIFICATION Spec
SYMMETRY Symmetry
INVARIANT OneWriter

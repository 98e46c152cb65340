\* serve and configure, one after the other or at once, dying at any step.
CONSTANTS
  Processes = {p1, p2}
  Documents = {d1, d2}
  NoDocument = NoDocument
  Nobody = Nobody
  AuditLimit = 1
  MaxRevision = 4
  PowerFails = FALSE
  PromptExit = TRUE
SPECIFICATION Spec
SYMMETRY Symmetry
INVARIANTS RevisionNamesOneDocument PublishedIsStored

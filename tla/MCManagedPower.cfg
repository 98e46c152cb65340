\* One process at a time on a machine that may lose power.
CONSTANTS
  Processes = {p1}
  Documents = {d1, d2}
  NoDocument = NoDocument
  Nobody = Nobody
  AuditLimit = 1
  MaxRevision = 2
  PowerFails = TRUE
  PromptExit = FALSE
SPECIFICATION FairSpec
PROPERTIES ToggleAudited CommitsAreDurable PoisonStops

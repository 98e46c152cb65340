\* Transactions, implicit commits and one prepared statement, with peers that may stay silent.
CONSTANTS
  Statements = {"begin", "commit", "chain", "ddl", "select", "call"}
  Ids <- MCIds
  MaxPrepared = 1
  MaxRounds = 1
  Secure = TRUE
  Actions = {"delay", "hold_response", "close_connection"}
  MaxCommands = 3
SPECIFICATION Spec
INVARIANTS DecisionsFollowCommits AckWithheld InStep
PROPERTIES RecordsInOrder SessionEnds

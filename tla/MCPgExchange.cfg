\* Transaction blocks, batches, savepoints, errors and COPY, with injection switched at any
\* time and peers that may stay silent.
CONSTANTS
  Queries <- MCQueries
  Executes <- MCExecutes
  Actions = {"delay", "hold_response", "close_connection"}
  MaxFrames = 2
SPECIFICATION FairSpec
INVARIANTS DecisionsFollowCommits AckWithheld ReadyEndsItsCycle
PROPERTIES RecordsInOrder SessionEnds

\* Every action with every trigger; a read takes up to three bytes.
CONSTANTS
  Faults <- MCFaults
  NoFault <- MCNoFault
  MaxBytes = 3
  ReadSize = 3
  ThrottleSize = 1
  PrefetchSize = 2
SPECIFICATION FairSpec
INVARIANTS FaultExact BytesConserved
PROPERTIES RecordsInOrder ConnectionEnds

\* Every protocol and fault; bodies of up to two bytes, one more than truncate lets through.
CONSTANTS
  Listeners = {"http1", "http2", "grpc"}
  Faults <- MCFaults
  MaxUpload = 2
  MaxBody = 2
SPECIFICATION Spec
INVARIANTS OutcomeSound FaultExact NothingLeft
PROPERTIES RecordsInOrder ExchangeEnds

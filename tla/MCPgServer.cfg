\* Three connections over a TLS listener compete for one session slot and one spare handshake.
CONSTANTS
  Connections = {c1, c2, c3}
  Endpoints = {tls}
  TLSEndpoints = {tls}
  MaxInflight = 1
  Spare = 1
SPECIFICATION ServerFairSpec
INVARIANTS SessionsGuarded NothingLeft
PROPERTIES RoomToCancel CancelAndCloseWork

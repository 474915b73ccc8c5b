SPECIFICATION FairSpec
CONSTANTS
  d1 = d1  s1 = s1  s2 = s2  r1 = r1  r2 = r2  k1 = k1  None = None
  Devices = {d1}
  Sessions = {s1, s2}
  Revocations = {r1, r2}
  Commands = {k1}
  DeviceOf <- SessionsOfOne
  TargetOf <- RevocationsOfOne
  ReceiverOf <- CommandsToOne
  MaxRestarts = 1
CHECK_DEADLOCK FALSE
INVARIANTS
  TypeOK
  RevokedHasNoCredential
  CompletedRevocationHolds
PROPERTIES
  NoSessionForRevoked
  NoCommandAfterRevocation
  AccessIsGuarded
  RevocationReturns
  RevokedHandlersEnd

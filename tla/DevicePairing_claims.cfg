SPECIFICATION FairSpec
CONSTANTS
  p1 = p1  k1 = k1  k2 = k2  g1 = g1  g2 = g2  g3 = g3
  Challenges = {p1}
  Claims = {k1, k2, g1, g2, g3}
  Knowing = {k1, k2}
  CodeOf <- OneChallenge
  MaxClaimAttempts = 2
CHECK_DEADLOCK FALSE
INVARIANTS
  TypeOK
  GuessBudget
  OneCredentialPerChallenge
  RegistrationIsWhole
PROPERTIES
  ClaimsAreAtomic
  ClaimEnds

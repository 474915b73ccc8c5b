SPECIFICATION FairSpec
CONSTANTS
  Configurations <- FewDeviations
  Secrets = {"k1", "k2", "k3", "k4", "k5"}
  Requests = {r1}
  Probes = {p1}
  Revisions = {"0001", "0002"}
  Head = "0002"
CHECK_DEADLOCK FALSE
INVARIANTS
  TypeOK
  SecretsStayApart
  ResourcesNested
  ReadyWasTrue
PROPERTIES
  ProbeAnswers
  ShutdownEnds

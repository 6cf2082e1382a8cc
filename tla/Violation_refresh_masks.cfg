SPECIFICATION Spec
CONSTANTS
  s1 = s1
  s2 = s2
  r1 = r1
  r2 = r2
  h1 = h1
  h2 = h2
  None = None
  Servers = {s1}
  Relays = {r1}
  Hashes = {h1, h2}
  Tree <- GrowingTree
  MaxGeneration = 2
  MaxBatch = 3
  MaxAttempts = 2
  RefreshLead = 1
  DestinationLists = {{s1}}
  Concurrency = 1
  Lifetime = 3
  OwnConfigured = TRUE
  MaxTime = 4
  MaxCrash = 0
PROPERTY NewerCandidateReplacesAdmitted

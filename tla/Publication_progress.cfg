SPECIFICATION FairSpec
CONSTANTS
  s1 = s1
  s2 = s2
  r1 = r1
  r2 = r2
  h1 = h1
  h2 = h2
  None = None
  Servers = {s1}
  Relays = {r1, r2}
  Hashes = {h1}
  Tree <- RepeatedTree
  MaxGeneration = 2
  MaxBatch = 2
  MaxAttempts = 2
  RefreshLead = 0
  DestinationLists = {{s1}, {}}
  Concurrency = 2
  Lifetime = 1
  OwnConfigured = TRUE
  MaxTime = 2
  MaxCrash = 1
INVARIANT NoOrphanWork
PROPERTIES
  CommittedIsAdmitted
  CandidateIsClaimed

SPECIFICATION Spec
CONSTANTS
  s1 = s1
  s2 = s2
  r1 = r1
  r2 = r2
  h1 = h1
  h2 = h2
  None = None
  Servers = {s1, s2}
  Relays = {r1}
  Hashes = {h1, h2}
  Tree <- GrowingTree
  MaxGeneration = 2
  MaxBatch = 3
  MaxAttempts = 2
  RefreshLead = 1
  DestinationLists = {{s1, s2}, {}}
  Concurrency = 2
  Lifetime = 3
  OwnConfigured = TRUE
  MaxTime = 4
  MaxCrash = 1
INVARIANTS
  TypeOK
  AnnouncedIsAvailable
  OneEventPerCandidate
  GenerationsAdvance
  UploadsAreOwned
  GateInvariant
PROPERTIES
  SignedIsKept
  ImplementsGate

SPECIFICATION FairSpec
CONSTANTS
  r1 = r1
  r2 = r2
  b = b
  m1 = m1
  m2 = m2
  m3 = m3
  c1 = c1
  s1 = s1
  s2 = s2
  None = None
  Requests = {r1, r2}
  Scheduler = b
  Manifests = {m1, m2, m3}
  Chunks = {c1}
  Sources = {s1, s2}
  Plans <- TwoPlans
  Views <- SomeViews
  Body <- OneChunk
  Decoded <- Bytes
  MaxEntries = 2
  MaxDecodedBytes = 2
  MaxAttempts = 2
INVARIANTS
  CacheAccounting
  NoLeakedLease
PROPERTIES
  ManifestAbortIsOwn
  EveryRequestEnds

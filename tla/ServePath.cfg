SPECIFICATION FairSpec
CONSTANTS
  pathP = pathP
  pathQ = pathQ
  narP = narP
  narQ = narQ
  narX = narX
  pubA = pubA
  pubB = pubB
  None = None
  Paths = {pathP, pathQ}
  NARs = {narP, narQ, narX}
  NarOf <- OwnNar
  Pubs = {pubA, pubB}
  Holds <- Trees
  Snapshots <- Layers
  Contents <- Grows
  MaxEntries = 2
  Slots = {1, 2}
  MaxRequests = 3
  MaxFaults = 1
INVARIANTS
  LeasesExact
  LeasedIsKept
  NarFromTheSamePublication
PROPERTIES
  EveryLeaseReturns

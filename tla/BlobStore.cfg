SPECIFICATION Spec
CONSTANTS
  small = small
  large = large
  route = route
  ownerU = ownerU
  ownerW = ownerW
  t1 = t1
  t2 = t2
  None = None
  Blobs = {small, large}
  Owners = {ownerU, ownerW}
  Routes = {route}
  Tokens = {t1, t2}
  Size <- TwoSizes
  Parts <- OneRoute
  Reservable = {1, 2}
  Capacity = 3
  MaxLeases = 1
  MaxFaults = 2
  MaxCrash = 2
INVARIANTS
  CapacityRespected
  KeptIsReadable
  NoWriteGarbage
PROPERTIES
  RestartKeepsOwned
  ReconcileAgrees

SPECIFICATION Spec
CONSTANTS
  n1 = n1
  n2 = n2
  x = x
  y = y
  Garbage = Garbage
  None = None
  Paths = {1, 2}
  Refs <- Chain
  NarOf <- OwnNar
  NARs = {n1, n2}
  NarBytes = {x, y}
  Offers <- Mixed
  Resident <- FirstNar
  Lower = {0}
  PerBody = 1
  Aggregate = 4
  Slots = {1, 2}
  MaxQueue = 1
  MaxCrash = 1
  MaxFaults = 1
INVARIANTS
  QuotaRespected
  OverlayClosed
  OverlayReadable
  CompleteIsVisible
PROPERTIES
  RouteImmutable

SPECIFICATION FairSpec
CONSTANTS
  a = a
  own = own
  None = None
  Events <- Feed
  Configured <- Order
  Own = own
  OldVersions = FALSE
  FutureLimit = 1
  Ceiling = 2
  MaxTime = 4
  MaxList = 1
  MaxCrash = 1
  MaxFaults = 1
INVARIANTS
  NeverRollsBack
  NoSilentDowngrade
  SelectionIsDurable
PROPERTIES
  ExpiredIsDropped

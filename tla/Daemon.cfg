SPECIFICATION FairSpec
CONSTANTS
  alice = alice
  bob = bob
  None = None
  Pubkeys = {alice, bob}
  Intents <- Signers
INVARIANTS
  WorkersDrained
  OneIdentity
  KeyGoesWithTheSigner
PROPERTIES
  ShutdownEnds

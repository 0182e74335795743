\* A read of the batch route fails while its receipt is processed.
CONSTANTS
  Contributor = {alice}
  Relayer = relayer
  Root = {r1, r2}
  NoAddr = NoAddr
  Nobody = Nobody
  NoRoot = NoRoot
  Garbage = Garbage
  Truncated = Truncated
  RegistryAddr = registry
  SingleAddr = single
  Reward = 1
  MaxAge = 0
  SiblingLists <- SiblingListed
  MaxTime = 1
  MaxBatch = 2
  MAX_ATTEMPTS = 2
  RECONCILE_EVERY_TICKS = 2
  Gateways <- FailsToRead
SPECIFICATION Spec
PROPERTY SettledIsFinal

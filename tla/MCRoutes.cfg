\* A relayer that tries everything; the batch route lists the single one, or not.
CONSTANTS
  Contributor = {alice, bob}
  Relayer = relayer
  Root = {r1, r2}
  NoAddr = NoAddr
  Nobody = Nobody
  NoRoot = NoRoot
  Garbage = Garbage
  Truncated = Truncated
  RegistryAddr = registry
  SingleAddr = single
  Reward = 1
  MaxAge = 1
  SiblingLists <- WithAndWithoutSibling
  MaxTime = 2
  MaxBatch = 2
SPECIFICATION RoutesSpec
INVARIANT PaysOnlySigners RoutesAgreeOnPayee
PROPERTY SingleClosesBatch
CHECK_DEADLOCK FALSE

\* Both routes may pay for one measurement.
CONSTANTS
  Contributor = {alice, bob}
  Relayer = relayer
  Root = {r1, r2}
  NoAddr = NoAddr
  Nobody = Nobody
  NoRoot = NoRoot
  Garbage = Garbage
  Truncated = Truncated
  RegistryAddr = registry
  SingleAddr = single
  Reward = 1
  MaxAge = 1
  SiblingLists <- WithAndWithoutSibling
  MaxTime = 2
  MaxBatch = 2
SPECIFICATION RoutesSpec
INVARIANT PaidOnceAcrossRoutes
CHECK_DEADLOCK FALSE

\* Batches of two, settled inside transfers that fail, and a window that changes;
\* siblings come, go and pay in between, of which one never answers and one
\* answers with no bool.
CONSTANTS
  alice = alice
  bob = bob
  registry = registry
  lookalike = lookalike
  r1 = r1
  r2 = r2
  single = single
  broken = broken
  proxy = proxy
  Account = {alice, bob}
  Emitter = {registry, lookalike}
  Registry = {registry}
  NoAddr = NoAddr
  Root = {r1, r2}
  SourceTx <- MCSourceTx
  RewardChoices = {1}
  AgeChoices = {0, 1}
  FundChoices = {2}
  MaxBalance = 2
  MaxDepth = 1
  MaxTime = 1
  MaxBatch = 2
  Sibling = {single, broken, proxy}
  Unresponsive = {broken}
  Unreadable = {proxy}
  MAX_SIBLINGS = 1
SPECIFICATION Spec
INVARIANT TypeOK RewardsBalanced PaidOncePerRoot AcceptedIsTheLoop HonestLogNeverStranded
PROPERTY NeverRepeatsASibling ImplementsRewardLedger

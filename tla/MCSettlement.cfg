\* Transfers nest twice: a paid contract calls back, and may revert; the owner
\* changes the reward between settlements.
CONSTANTS
  alice = alice
  bob = bob
  registry = registry
  lookalike = lookalike
  r1 = r1
  r2 = r2
  Account = {alice, bob}
  Emitter = {registry, lookalike}
  Registry = {registry}
  NoAddr = NoAddr
  Root = {r1, r2}
  SourceTx <- MCSourceTx
  RewardChoices = {1, 2}
  AgeChoices = {0}
  FundChoices = {2}
  MaxBalance = 2
  MaxDepth = 2
  MaxTime = 1
SPECIFICATION Spec
INVARIANT TypeOK RewardsBalanced PaidOncePerRoot ReplayLayersAgree OnlyRegisteredWork
PROPERTY ImplementsRewardLedger

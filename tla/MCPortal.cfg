\* Twelve situations; see MCPortal.
CONSTANTS
  r1 = r1
  r2 = r2
  alice = alice
  bob = bob
  t1 = t1
  Root = {r1, r2}
  Contributor = {alice, bob}
  OwnerOf <- Owners
  AreaOf <- Cells
  Deployments <- AllDeployments
  MAX_LOOKBACK_BLOCKS = 1
  NoSnapshot = NoSnapshot
  NoStats = NoStats
  Buyer = {alice, bob}
  Payment = {t1}
  Markets <- AllMarkets
  NoTerms = NoTerms
  NoKey = NoKey
  NoPayment = NoPayment
  NoOne = NoOne
  MaxTime = 2
  MaxPolls = 1
  Situations <- MCSituations
  NoFile = NoFile
SPECIFICATION PortalSpec
INVARIANT ServedIsTrue KeysArePaidFor
PROPERTY TruthSticks UnclaimedBounded CatchesUp RewardsReachTheirOwner PaymentBringsAccess
CHECK_DEADLOCK FALSE

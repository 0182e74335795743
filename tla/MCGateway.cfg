\* One run of a tab, one submission of somebody else, one restart; or two runs.
CONSTANTS
  Contributor = {alice, bob}
  Cell = {c1}
  Nonce = {1, 2}
  Slot = {1, 2, other}
  Watched = {1, 2}
  User = alice
  Worker = worker
  Caller = {1, 2, other, worker}
  NoCaller = NoCaller
  NoOne = NoOne
  NoReading = NoReading
  Reading <- MCReading
  Configs <- MCConfigs
  RATE_MAX = 1
  RATE_WINDOW = 2
  MAX_AGE = 2
  MAX_SKEW = 0
  MAX_ROWS = 1
  MaxTime = 2
  INTERVAL = 2
  SIGN_DEADLINE = 1
SPECIFICATION Spec
INVARIANT RunTypeOK SecondRowIsRecovered OnlySignedCounts CellRate SingleRun SettledShownIsPaid
PROPERTY Followed LiveRowsStay
CHECK_DEADLOCK FALSE

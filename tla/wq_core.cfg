\* One holder, reports at changing rates: the arithmetic of the queue.
SPECIFICATION Spec
CONSTANTS
  E27_PRECISION_BASE = 1000
  MAX_BATCHES_LENGTH = 2
  PAUSE_INFINITELY = 1000
  Accounts = {a1}
  NoAccount = NoAccount
  MIN_STETH_WITHDRAWAL_AMOUNT = 20
  MAX_STETH_WITHDRAWAL_AMOUNT = 80
  BUNKER_MODE_DISABLED_TIMESTAMP = 1000
  REQUEST_TIMESTAMP_MARGIN = 0
  Amounts = {38}
  Pools <- RatePools
  Budgets = {38, 1000}
  BunkerModes = {FALSE}
  ReportDelays = {1}
  PauseDurations = {1000}
  MAX_REQUESTS = 3
  MAX_TIME = 3
INVARIANTS
  LockedEtherIsToBeClaimed
  SharesAreOfUnfinalized
  CalculationIgnoresCallSize
  PrefinalizeFitsCalculation
  HintIsUniqueAndFound
PROPERTIES
  ImplementsWithdrawals

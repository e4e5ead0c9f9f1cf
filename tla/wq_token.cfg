\* Three holders, one or two requests: the token, pauses and bunker mode.
SPECIFICATION Spec
CONSTANTS
  E27_PRECISION_BASE = 1000
  MAX_BATCHES_LENGTH = 2
  PAUSE_INFINITELY = 1000
  Accounts = {a1, a2, a3}
  NoAccount = NoAccount
  MIN_STETH_WITHDRAWAL_AMOUNT = 20
  MAX_STETH_WITHDRAWAL_AMOUNT = 80
  BUNKER_MODE_DISABLED_TIMESTAMP = 1000
  REQUEST_TIMESTAMP_MARGIN = 1
  Amounts = {80}
  Pools <- OnePool
  Budgets = {1000}
  BunkerModes = {FALSE, TRUE}
  ReportDelays = {1}
  PauseDurations = {1}
  MAX_REQUESTS = 2
  MAX_TIME = 3
SYMMETRY AccountSymmetry
INVARIANTS
  OwnersHoldTheirRequests

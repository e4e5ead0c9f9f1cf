\* A pool of 20 ether that grows by 8 between two reports, with validators of 16,
\* one withdrawal, one burn and full vaults.  The deviation limit is the one the
\* comment in the sanity checker derives: twice the stake of 8 in a pool of 18,
\* times the one-off decrease of 30 percent.  Half of the rewards is fee, which is
\* up to four shares of a pool this small.
SPECIFICATION Spec
CONSTANTS
  LIMITER_PRECISION_BASE = 100
  UNLIMITED_REBASE = 100000
  maxPositiveTokenRebase = 10
  MAX_BASIS_POINTS = 100
  DEFAULT_CL_BALANCE = 1
  YEAR = 1
  SECONDS_PER_DAY = 1
  SHARE_RATE_PRECISION = 10000
  churnValidatorsPerDayLimit = 2
  oneOffCLBalanceDecreaseBPLimit = 30
  annualBalanceIncreaseBPLimit = 30
  simulatedShareRateDeviationBPLimit = 26
  E27_PRECISION_BASE = 10000
  MAX_BATCHES_LENGTH = 2
  DEPOSIT_SIZE = 16
  INITIAL_BALANCE = 20
  ModulesFee = 30
  TreasuryFee = 20
  PRECISION_POINTS = 100
  TIME_ELAPSED = 1
  Stakes = {8}
  Requests = {5}
  Burns = {3}
  VaultIncomes = {4}
  CLRewards <- RewardsAndLosses
  MAX_STAKED = 8
  MAX_VAULT = 4
  MAX_REQUESTS = 1
  MAX_BURN = 3
  MAX_REPORTS = 2
INVARIANTS
  SharesAreAccountedFor
  GatheredReportIsAccepted
PROPERTIES
  RebasesAreLimited
  ImplementsPool
CHECK_DEADLOCK FALSE

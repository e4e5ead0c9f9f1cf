SPECIFICATION Spec
CONSTANTS
  Oracles = {accounting, bus}
  accountingOracle = accounting
  exitBus = bus
  ConsensusContracts = {c1, c2}
  consensus = c1
  ConsensusVersions = {1, 2}
  Payloads <- MCPayloads
  ZeroHash = ZeroHash
  RefSlots = {0, 1, 2, 3}
  MAX_TIME = 4
  Contracts = {m1, m2}
  m1 = m1
  m2 = m2
  Operators = {1, 2}
  w1 = w1
  Credentials = {w1, w2}
  ZeroCredentials = ZeroCredentials
  TOTAL_BASIS_POINTS = 2
  FEE_PRECISION_POINTS = 2
  MAX_STAKING_MODULES_COUNT = 2
  PAUSE_INFINITELY = 99
  ModuleIds = {0, 1}
  NodeOpIds = {0, 1}
  ValIndices = {0, 1}
  Addresses = {1, 2, 3}
  BLOCK_HASHES = 1
  Scenarios <- MCScenarios
  FRAME_SLOTS = 1
  Malformed <- MCMalformed
  ExitPayloads <- MCExitPayloads
  Limits = {0, 2}
  Quorums = {1, 3}
  Fees = {1, 2}
  MAX_DECISIONS = 1
  MAX_EVENTS = 2
  MAX_SIGNATURES = 2
  MAX_NONCE = 1
  MAX_ROOT = 1
INVARIANTS
  TruthfulReportGoesThrough
  ActiveCountIsUpToDate
  EveryValidatorIsAskedOnce
PROPERTIES
  ImplementsReportProcessor
  ImplementsTwoPhaseReports
  ModulesAreToldTheTruth
  DepositIsVetted
  DepositedUnderTheirCredentials
CHECK_DEADLOCK FALSE

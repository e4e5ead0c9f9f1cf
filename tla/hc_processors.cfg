\* The report processor is switched back and forth, and the processors change
\* their consensus contract, under a committee of two.
SPECIFICATION Spec
CONSTANTS
  SLOTS_PER_EPOCH = 2
  SECONDS_PER_SLOT = 1
  GENESIS_TIME = 0
  MAX_TIME = 3
  Oracles = {o1, o2}
  HC = hc
  ConsensusContracts = {hc, other}
  ConsensusVersions = {1}
  Payloads = {p1, p2}
  ZeroHash = ZeroHash
  RefSlots = {0}
  Addresses = {m1, m2}
  Quorums = {1, 2}
  UNREACHABLE_QUORUM = 99
  FAR_FUTURE_EPOCH = 100
  InitialEpochs = {1}
  EpochsPerFrame = {1}
  FastLaneLengths = {0}
  MAX_SUPPORT = 3
SYMMETRY CommitteeSymmetry
INVARIANTS
  SupportNeverUnderflows
  SwitchKeepsTheConsensus

\* A committee of up to three members reports in frames.  Either members come and
\* go, the quorum moves, consensus is disabled and enabled, and the processor
\* changes its version, so that the reports of a frame differ; or the frame size,
\* the fast lane and the initial epoch change.
SPECIFICATION MCSpec
CONSTANTS
  SLOTS_PER_EPOCH = 2
  SECONDS_PER_SLOT = 2
  GENESIS_TIME = 1
  MAX_TIME = 15
  COMMITTEE_MAX_TIME = 11
  Oracles = {o1}
  HC = hc
  ConsensusContracts = {hc}
  ConsensusVersions = {1, 2}
  Payloads = {p1}
  ZeroHash = ZeroHash
  RefSlots = {0, 2}
  Addresses = {m1, m2, m3}
  Quorums = {1, 2}
  UNREACHABLE_QUORUM = 99
  FAR_FUTURE_EPOCH = 100
  InitialEpochs = {1, 2}
  EpochsPerFrame = {1, 2}
  FastLaneLengths = {0, 1, 3}
  MAX_SUPPORT = 3
SYMMETRY CommitteeSymmetry
INVARIANTS
  MembersConsistent
  SupportIsNumberOfReporters
  ProcessorHoldsTheConsensus
  ConsensusNeverRefused
  FastLaneIsFair
PROPERTIES
  ProcessedReportHasMajority
  FrameConfigKeepsTheRefSlot

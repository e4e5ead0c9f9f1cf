\* Two operators with up to two keys each, a target limit below, at and above
\* what is deposited, reports of stuck and exited validators, refunds.
SPECIFICATION Spec
CONSTANTS
  UINT64_MAX = 2
  MAX_NODE_OPERATORS_COUNT = 2
  Targets = {1}
  Delays = {0, 1}
  MAX_TIME = 2
INVARIANTS
  CachesAreCurrent
  KeysAreWhereTheirStageIs
  DepositableCanBeObtained
  AllocationIsMinFirst
PROPERTIES
  PenaltyIsServed
  ImplementsStakingModule

\* A refund changes what is ready to deposit.
SPECIFICATION Spec
CONSTANTS
  UINT64_MAX = 2
  MAX_NODE_OPERATORS_COUNT = 2
  Targets = {1}
  Delays = {0, 1}
  MAX_TIME = 2
PROPERTY
  NonceFollowsDepositData

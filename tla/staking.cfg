\* Limits set, removed, used up and restored; staking and the protocol paused.
SPECIFICATION Spec
CONSTANTS
  MAX_UINT96 = 7
  MAX_UINT32 = 6
  INITIAL_BALANCE = 1
  Amounts = {0, 1, 2, 5}
  Limits = {0, 1, 2, 5, 7, 8}
  MAX_BLOCK = 6
  MAX_ETHER = 10
PROPERTIES
  ImplementsTokenBucket

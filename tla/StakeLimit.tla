------------------------------ MODULE StakeLimit ------------------------------
(***************************************************************************)
(* StakeLimitUtils: the state of the staking rate limit and the functions  *)
(* that read and change it.  The limit is not stored: it is projected from *)
(* the block of the last change, and prevStakeBlockNumber = 0 is how a     *)
(* pause is stored.                                                        *)
(***************************************************************************)
EXTENDS Integers

CONSTANTS
  MAX_UINT96,   \* uint96(-1)
  MAX_UINT32    \* uint32(-1)

ASSUME StakeLimitAssumption ==
  /\ MAX_UINT96 \in Nat
  /\ MAX_UINT32 \in Nat

StakeLimitState ==
  [prevStakeBlockNumber : 0..MAX_UINT32, prevStakeLimit : 0..MAX_UINT96,
   maxStakeLimitGrowthBlocks : 0..MAX_UINT32, maxStakeLimit : 0..MAX_UINT96]

IsStakingPaused(data) == data.prevStakeBlockNumber = 0
IsStakingLimitSet(data) == data.maxStakeLimit # 0

StakeLimitIncPerBlock(data) ==
  IF data.maxStakeLimitGrowthBlocks = 0 THEN 0
  ELSE data.maxStakeLimit \div data.maxStakeLimitGrowthBlocks

ProjectedLimit(data, block) ==
  data.prevStakeLimit + (block - data.prevStakeBlockNumber) * StakeLimitIncPerBlock(data)

CalculateCurrentStakeLimit(data, block) ==
  IF ProjectedLimit(data, block) < data.maxStakeLimit THEN ProjectedLimit(data, block)
  ELSE data.maxStakeLimit

(***************************************************************************)
(* setStakingLimit: its requirements, and the new state.                   *)
(***************************************************************************)
IsValidLimit(max, increase) ==
  /\ max # 0
  /\ max <= MAX_UINT96
  /\ max >= increase
  /\ increase # 0 => max \div increase <= MAX_UINT32

NewGrowthBlocks(max, increase) == IF increase = 0 THEN 0 ELSE max \div increase
BlockUnlessPaused(data, block) == IF IsStakingPaused(data) THEN 0 ELSE block

FilledUpLimit(data, max, increase, block) ==   \* mutant: setting the limit refills it
  [prevStakeLimit            |-> max,
   maxStakeLimitGrowthBlocks |-> NewGrowthBlocks(max, increase),
   maxStakeLimit             |-> max,
   prevStakeBlockNumber      |-> BlockUnlessPaused(data, block)]

WithStakingLimit(data, max, increase, block) ==
  [prevStakeLimit            |-> IF \/ IsStakingPaused(data)
                                    \/ ~IsStakingLimitSet(data)
                                    \/ max < data.prevStakeLimit
                                 THEN max ELSE data.prevStakeLimit,
   maxStakeLimitGrowthBlocks |-> NewGrowthBlocks(max, increase),
   maxStakeLimit             |-> max,
   prevStakeBlockNumber      |-> BlockUnlessPaused(data, block)]

WithoutStakingLimit(data) == [data EXCEPT !.maxStakeLimit = 0]

WithPrevStakeLimit(data, newLimit, block) ==
  [data EXCEPT !.prevStakeLimit = newLimit, !.prevStakeBlockNumber = block]

WithPauseState(data, paused, block) ==
  [data EXCEPT !.prevStakeBlockNumber = IF paused THEN 0 ELSE block]

===============================================================================

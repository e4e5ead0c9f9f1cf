---------------------------- MODULE StakingProofs ----------------------------
(***************************************************************************)
(* Theorems about Staking, for all widths, limits, amounts and blocks.     *)
(*                                                                         *)
(* IInv adds to the properties that the block of the last change is not in *)
(* the future, so that the limit is projected forwards, and that the pool  *)
(* is not empty, so that a submit can be priced.                           *)
(***************************************************************************)
EXTENDS Staking, TLAPS

IInv ==
  /\ TypeOK
  /\ LimitWithinMaximum
  /\ stakingState.prevStakeBlockNumber <= block
  /\ bufferedEther # 0

(***************************************************************************)
(* Arithmetic.                                                             *)
(***************************************************************************)
LEMMA DivIsNat ==
  ASSUME NEW a \in Nat, NEW b \in Nat \ {0}
  PROVE  a \div b \in Nat
  OBVIOUS

LEMMA ProductIsNat ==
  ASSUME NEW a \in Nat, NEW b \in Nat
  PROVE  a * b \in Nat
  OBVIOUS

LEMMA OneMoreBlock ==
  ASSUME NEW n \in Nat, NEW i \in Nat
  PROVE  (n + 1) * i = n * i + i
  OBVIOUS

------------------------------------------------------------------------------

(***************************************************************************)
(* The projection of the limit: it starts at the stored limit, grows by    *)
(* the increment with each block and stops at the maximum.                 *)
(***************************************************************************)
LEMMA IncIsNat ==
  ASSUME NEW data \in StakeLimitState
  PROVE  StakeLimitIncPerBlock(data) \in Nat
<1>1. /\ data.maxStakeLimit \in Nat
      /\ data.maxStakeLimitGrowthBlocks \in Nat
  BY StakeLimitAssumption DEF StakeLimitState
<1>2. QED
  BY <1>1, DivIsNat DEF StakeLimitIncPerBlock

LEMMA ProjectionStartsAtStoredLimit ==
  ASSUME NEW data \in StakeLimitState
  PROVE  ProjectedLimit(data, data.prevStakeBlockNumber) = data.prevStakeLimit
<1>1. /\ data.prevStakeBlockNumber \in Nat
      /\ data.prevStakeLimit \in Nat
  BY StakeLimitAssumption DEF StakeLimitState
<1>2. QED
  BY <1>1, IncIsNat DEF ProjectedLimit

LEMMA ProjectionGrows ==
  ASSUME NEW data \in StakeLimitState, NEW b \in Nat, data.prevStakeBlockNumber <= b
  PROVE  /\ ProjectedLimit(data, b) \in Nat
         /\ ProjectedLimit(data, b) >= data.prevStakeLimit
         /\ ProjectedLimit(data, b + 1) = ProjectedLimit(data, b) + StakeLimitIncPerBlock(data)
<1> DEFINE n == b - data.prevStakeBlockNumber
           i == StakeLimitIncPerBlock(data)
<1>1. /\ data.prevStakeBlockNumber \in Nat
      /\ data.prevStakeLimit \in Nat
  BY StakeLimitAssumption DEF StakeLimitState
<1>2. n \in Nat /\ i \in Nat
  BY <1>1, IncIsNat
<1>3. n * i \in Nat /\ (n + 1) * i = n * i + i
  BY <1>2, ProductIsNat, OneMoreBlock
<1>4. (b + 1) - data.prevStakeBlockNumber = n + 1
  BY <1>1
<1>5. ProjectedLimit(data, b) = data.prevStakeLimit + n * i
  BY Zenon DEF ProjectedLimit
<1>6. ProjectedLimit(data, b + 1)
        = data.prevStakeLimit + ((b + 1) - data.prevStakeBlockNumber) * i
  BY Zenon DEF ProjectedLimit
<1>7. ProjectedLimit(data, b + 1) = data.prevStakeLimit + (n + 1) * i
  BY <1>4, <1>6, Zenon
<1> HIDE DEF n, i
<1>8. /\ ProjectedLimit(data, b) \in Nat
      /\ ProjectedLimit(data, b) >= data.prevStakeLimit
      /\ ProjectedLimit(data, b + 1) = ProjectedLimit(data, b) + i
  BY <1>1, <1>2, <1>3, <1>5, <1>7
<1>9. QED
  BY <1>8 DEF i

LEMMA LimitBounds ==
  ASSUME NEW data \in StakeLimitState, NEW b \in Nat, data.prevStakeBlockNumber <= b,
         data.prevStakeLimit <= data.maxStakeLimit
  PROVE  CalculateCurrentStakeLimit(data, b) \in data.prevStakeLimit..data.maxStakeLimit
<1>1. /\ data.maxStakeLimit \in Nat
      /\ data.prevStakeLimit \in Nat
  BY StakeLimitAssumption DEF StakeLimitState
<1>2. QED
  BY <1>1, ProjectionGrows DEF CalculateCurrentStakeLimit

LEMMA LimitAtOnce ==
  ASSUME NEW data \in StakeLimitState, data.prevStakeLimit <= data.maxStakeLimit
  PROVE  CalculateCurrentStakeLimit(data, data.prevStakeBlockNumber) = data.prevStakeLimit
<1>1. /\ data.maxStakeLimit \in Nat
      /\ data.prevStakeLimit \in Nat
  BY StakeLimitAssumption DEF StakeLimitState
<1>2. QED
  BY <1>1, ProjectionStartsAtStoredLimit DEF CalculateCurrentStakeLimit

LEMMA LimitOfNextBlock ==
  ASSUME NEW data \in StakeLimitState, NEW b \in Nat, data.prevStakeBlockNumber <= b
  PROVE  LET level == CalculateCurrentStakeLimit(data, b)
             inc   == StakeLimitIncPerBlock(data)
         IN  CalculateCurrentStakeLimit(data, b + 1) =
               IF level + inc < data.maxStakeLimit THEN level + inc ELSE data.maxStakeLimit
<1>1. data.maxStakeLimit \in Nat
  BY StakeLimitAssumption DEF StakeLimitState
<1>2. QED
  BY <1>1, IncIsNat, ProjectionGrows DEF CalculateCurrentStakeLimit

------------------------------------------------------------------------------

(***************************************************************************)
(* The invariant.                                                          *)
(***************************************************************************)
LEMMA InitIInv == Init => IInv
<1> SUFFICES ASSUME Init PROVE IInv
  OBVIOUS
<1>1. stakingState \in StakeLimitState
  BY StakeLimitAssumption DEF Init, StakeLimitState
<1>2. LimitWithinMaximum
  BY DEF Init, LimitWithinMaximum, IsStakingLimitSet
<1>3. active \in BOOLEAN
  BY DEF Init
<1>4. QED
  BY <1>1, <1>2, <1>3, StakingAssumption DEF Init, IInv, TypeOK

(***************************************************************************)
(* The pool and the clock, for the steps that leave the limit alone.       *)
(***************************************************************************)
LEMMA SubmitKeepsIInv ==
  ASSUME IInv, NEW value \in Amounts, Submit(value)
  PROVE  IInv'
<1> USE DEF IInv, TypeOK
<1>1. value \in Nat /\ value # 0
  BY StakingAssumption DEF Submit
<1>2. (value * totalShares) \div bufferedEther \in Nat
  BY <1>1, ProductIsNat, DivIsNat
<1>3. /\ totalShares' \in Nat
      /\ bufferedEther' \in Nat \ {0}
      /\ block' = block /\ active' = active
  BY <1>1, <1>2 DEF Submit
<1>4. CASE ~IsStakingLimitSet(stakingState)
  BY <1>3, <1>4 DEF Submit, LimitWithinMaximum
<1>5. CASE IsStakingLimitSet(stakingState)
  <2>1. CurrentLimit \in stakingState.prevStakeLimit..stakingState.maxStakeLimit
    BY <1>5, LimitBounds, StakingAssumption DEF LimitWithinMaximum, CurrentLimit
  <2>2. stakingState.prevStakeLimit \in Nat /\ stakingState.maxStakeLimit \in 0..MAX_UINT96
    BY StakeLimitAssumption DEF StakeLimitState
  <2>3. CurrentLimit - value \in 0..stakingState.maxStakeLimit
    BY <1>1, <1>5, <2>1, <2>2 DEF Submit
  <2>4. stakingState' = WithPrevStakeLimit(stakingState, CurrentLimit - value, block)
    BY <1>5 DEF Submit
  <2>5. block \in 0..MAX_UINT32
    BY StakeLimitAssumption, StakingAssumption
  <2>6. stakingState' \in StakeLimitState
    <3>1. CurrentLimit - value \in 0..MAX_UINT96
      BY <2>2, <2>3, StakeLimitAssumption
    <3>2. QED
      BY <2>4, <2>5, <3>1 DEF WithPrevStakeLimit, StakeLimitState
  <2>7. /\ stakingState'.prevStakeBlockNumber = block
        /\ stakingState'.prevStakeLimit = CurrentLimit - value
        /\ stakingState'.maxStakeLimit = stakingState.maxStakeLimit
    BY <2>4 DEF WithPrevStakeLimit, StakeLimitState
  <2>8. QED
    BY <1>3, <2>2, <2>3, <2>5, <2>6, <2>7 DEF LimitWithinMaximum
<1>6. QED
  BY <1>4, <1>5

LEMMA SetStakingLimitKeepsIInv ==
  ASSUME IInv, NEW max \in Limits, NEW increase \in Limits, SetStakingLimit(max, increase)
  PROVE  IInv'
<1> USE DEF IInv, TypeOK
<1>1. max \in Nat /\ increase \in Nat
  BY StakingAssumption
<1>2. NewGrowthBlocks(max, increase) \in 0..MAX_UINT32
  <2>1. CASE increase = 0
    BY <2>1, StakeLimitAssumption DEF NewGrowthBlocks
  <2>2. CASE increase # 0
    <3>1. max \div increase \in Nat
      BY <1>1, <2>2, DivIsNat
    <3>2. QED
      BY <2>2, <3>1, StakeLimitAssumption DEF NewGrowthBlocks, SetStakingLimit, IsValidLimit
  <2>3. QED
    BY <2>1, <2>2
<1>3. BlockUnlessPaused(stakingState, block) \in 0..block
  BY StakingAssumption DEF BlockUnlessPaused
<1>4. max \in 0..MAX_UINT96
  BY <1>1, StakeLimitAssumption DEF SetStakingLimit, IsValidLimit
<1>5. /\ stakingState'.prevStakeLimit \in 0..max
      /\ stakingState'.maxStakeLimit = max
      /\ stakingState'.maxStakeLimitGrowthBlocks = NewGrowthBlocks(max, increase)
      /\ stakingState'.prevStakeBlockNumber = BlockUnlessPaused(stakingState, block)
  BY <1>1, <1>4, StakeLimitAssumption DEF SetStakingLimit, WithStakingLimit, StakeLimitState
<1>6. stakingState' \in StakeLimitState
  BY <1>1, <1>2, <1>3, <1>4, <1>5, StakeLimitAssumption, StakingAssumption
  DEF SetStakingLimit, WithStakingLimit, StakeLimitState
<1>7. QED
  BY <1>1, <1>3, <1>5, <1>6, StakingAssumption DEF SetStakingLimit, LimitWithinMaximum, poolVars

LEMMA NextIInv == IInv /\ [Next]_vars => IInv'
<1> SUFFICES ASSUME IInv, [Next]_vars PROVE IInv'
  OBVIOUS
<1> USE StakeLimitAssumption, StakingAssumption DEF IInv, TypeOK, poolVars
<1>1. CASE AdvanceBlock
  BY <1>1 DEF AdvanceBlock, LimitWithinMaximum, StakeLimitState
<1>2. ASSUME NEW value \in Amounts, Submit(value) PROVE IInv'
  BY <1>2, SubmitKeepsIInv
<1>3. ASSUME NEW max \in Limits, NEW increase \in Limits, SetStakingLimit(max, increase)
      PROVE  IInv'
  BY <1>3, SetStakingLimitKeepsIInv
<1>4. CASE RemoveStakingLimit
  BY <1>4 DEF RemoveStakingLimit, WithoutStakingLimit, StakeLimitState, LimitWithinMaximum,
              IsStakingLimitSet
<1>5. ASSUME NEW paused \in BOOLEAN, SetStakingPaused(paused), block' = block,
             active' \in BOOLEAN, UNCHANGED poolVars
      PROVE  IInv'
  BY <1>5 DEF SetStakingPaused, WithPauseState, StakeLimitState, LimitWithinMaximum,
              IsStakingLimitSet
<1>6. CASE PauseStaking \/ ResumeStaking \/ Stop \/ Resume
  BY <1>5, <1>6 DEF PauseStaking, ResumeStaking, Stop, Resume
<1>7. CASE UNCHANGED vars
  BY <1>7 DEF vars, LimitWithinMaximum
<1>8. QED
  BY <1>1, <1>2, <1>3, <1>4, <1>6, <1>7 DEF Next

(***************************************************************************)
(* The stored state keeps its widths, and its limit is within the maximum. *)
(***************************************************************************)
THEOREM LimitIsWithinMaximum == Spec => [](TypeOK /\ LimitWithinMaximum)
  BY InitIInv, NextIInv, PTL DEF Spec, IInv

(***************************************************************************)
(* Only resuming ends a pause of staking.                                  *)
(***************************************************************************)
THEOREM OnlyResumingEndsAPause == Spec => OnlyResumingResumes
<1>1. ASSUME IInv, [Next]_vars, IsStakingPaused(stakingState), ~IsStakingPaused(stakingState')
      PROVE  Resume \/ ResumeStaking
  BY <1>1 DEF Next, AdvanceBlock, Submit, SetStakingLimit, WithStakingLimit, BlockUnlessPaused,
              RemoveStakingLimit, WithoutStakingLimit, PauseStaking, Stop, SetStakingPaused,
              WithPauseState, IsStakingPaused, IInv, TypeOK, StakeLimitState, vars
<1>2. IInv /\ [Next]_vars =>
        [IsStakingPaused(stakingState) /\ ~IsStakingPaused(stakingState')
           => Resume \/ ResumeStaking]_vars
  BY <1>1
<1>3. QED
  BY <1>2, InitIInv, NextIInv, PTL DEF Spec, OnlyResumingResumes

------------------------------------------------------------------------------

(***************************************************************************)
(* Staking implements TokenBucket: one lemma per kind of step.             *)
(***************************************************************************)
LEMMA StateTypes ==
  ASSUME IInv
  PROVE  /\ stakingState.prevStakeBlockNumber \in Nat
         /\ stakingState.prevStakeLimit \in Nat
         /\ stakingState.maxStakeLimit \in Nat
         /\ StakeLimitIncPerBlock(stakingState) \in Nat
         /\ block \in Nat \ {0}
         /\ bufferedEther \in Nat \ {0}
         /\ IsStakingLimitSet(stakingState) =>
              CurrentLimit \in stakingState.prevStakeLimit..stakingState.maxStakeLimit
  BY IncIsNat, LimitBounds, StakeLimitAssumption, StakingAssumption
  DEF IInv, TypeOK, StakeLimitState, LimitWithinMaximum, CurrentLimit

LEMMA AvailableAfterChange ==
  ASSUME IInv', stakingState'.prevStakeBlockNumber = block', IsStakingLimitSet(stakingState')
  PROVE  AvailableLimit' = stakingState'.prevStakeLimit
<1>1. CalculateCurrentStakeLimit(stakingState', stakingState'.prevStakeBlockNumber)
        = stakingState'.prevStakeLimit
  BY LimitAtOnce DEF IInv, TypeOK, LimitWithinMaximum
<1>2. QED
  BY <1>1 DEF AvailableLimit, CurrentLimit

LEMMA AdvanceBlockFills ==
  ASSUME IInv, IInv', AdvanceBlock
  PROVE  TB!Fill \/ UNCHANGED TB!vars
<1>1. stakingState' = stakingState /\ bufferedEther' = bufferedEther /\ block' = block + 1
  BY DEF AdvanceBlock, poolVars
<1>2. CASE IsStakingPaused(stakingState) \/ ~IsStakingLimitSet(stakingState)
  <2>1. AvailableLimit' = AvailableLimit
    BY <1>1, <1>2 DEF AvailableLimit
  <2>2. QED
    BY <1>1, <2>1 DEF TB!vars
<1>3. CASE ~IsStakingPaused(stakingState) /\ IsStakingLimitSet(stakingState)
  <2>1. CurrentLimit' = IF CurrentLimit + StakeLimitIncPerBlock(stakingState)
                             < stakingState.maxStakeLimit
                        THEN CurrentLimit + StakeLimitIncPerBlock(stakingState)
                        ELSE stakingState.maxStakeLimit
    BY <1>1, LimitOfNextBlock, StateTypes DEF CurrentLimit, IInv, TypeOK
  <2>2. AvailableLimit = CurrentLimit /\ AvailableLimit' = CurrentLimit'
    BY <1>1, <1>3 DEF AvailableLimit
  <2>3. QED
    BY <1>1, <1>3, <2>1, <2>2 DEF TB!Fill
<1>4. QED
  BY <1>2, <1>3

LEMMA SubmitTakes ==
  ASSUME IInv, IInv', NEW value \in Amounts, Submit(value)
  PROVE  TB!Take
<1>1. /\ value \in Nat \ {0}
      /\ ~IsStakingPaused(stakingState)
      /\ bufferedEther' = bufferedEther + value
      /\ block' = block
  BY StakingAssumption DEF Submit
<1>2. bufferedEther' > bufferedEther /\ bufferedEther' - bufferedEther = value
  BY <1>1, StateTypes
<1>3. CASE ~IsStakingLimitSet(stakingState)
  <2>1. stakingState' = stakingState
    BY <1>3 DEF Submit
  <2>2. AvailableLimit = 0 /\ AvailableLimit' = 0
    BY <1>3, <2>1 DEF AvailableLimit
  <2>3. QED
    BY <1>1, <1>2, <1>3, <2>1, <2>2 DEF TB!Take, TB!Unlimited, IsStakingLimitSet
<1>4. CASE IsStakingLimitSet(stakingState)
  <2>1. /\ value <= CurrentLimit
        /\ stakingState' = WithPrevStakeLimit(stakingState, CurrentLimit - value, block)
    BY <1>4 DEF Submit
  <2>2. /\ stakingState'.prevStakeLimit = CurrentLimit - value
        /\ stakingState'.prevStakeBlockNumber = block
        /\ stakingState'.maxStakeLimit = stakingState.maxStakeLimit
        /\ stakingState'.maxStakeLimitGrowthBlocks = stakingState.maxStakeLimitGrowthBlocks
    BY <2>1 DEF WithPrevStakeLimit, IInv, TypeOK, StakeLimitState
  <2>3. AvailableLimit' = CurrentLimit - value
    BY <1>1, <1>4, <2>2, AvailableAfterChange DEF IsStakingLimitSet
  <2>4. AvailableLimit = CurrentLimit /\ CurrentLimit \in Nat
    BY <1>1, <1>4, StateTypes DEF AvailableLimit
  <2>5. AvailableLimit - AvailableLimit' = value /\ AvailableLimit' >= 0
    BY <1>1, <2>1, <2>3, <2>4
  <2>6. /\ ~IsStakingPaused(stakingState')
        /\ StakeLimitIncPerBlock(stakingState') = StakeLimitIncPerBlock(stakingState)
    BY <2>2, StateTypes DEF IsStakingPaused, StakeLimitIncPerBlock
  <2>7. QED
    BY <1>1, <1>2, <1>4, <2>2, <2>5, <2>6 DEF TB!Take, TB!Unlimited, IsStakingLimitSet
<1>5. QED
  BY <1>3, <1>4

LEMMA SetStakingLimitLimits ==
  ASSUME IInv, IInv', NEW max \in Limits, NEW increase \in Limits, SetStakingLimit(max, increase)
  PROVE  TB!Limit
<1>1. /\ max \in Nat \ {0}
      /\ stakingState' = WithStakingLimit(stakingState, max, increase, block)
      /\ bufferedEther' = bufferedEther
      /\ block' = block
  BY StakingAssumption DEF SetStakingLimit, IsValidLimit, poolVars
<1>2. /\ stakingState'.maxStakeLimit = max
      /\ stakingState'.prevStakeBlockNumber = BlockUnlessPaused(stakingState, block)
      /\ stakingState'.prevStakeLimit =
           IF \/ IsStakingPaused(stakingState)
              \/ ~IsStakingLimitSet(stakingState)
              \/ max < stakingState.prevStakeLimit
           THEN max ELSE stakingState.prevStakeLimit
  BY <1>1 DEF WithStakingLimit
<1>3. IsStakingLimitSet(stakingState')
  BY <1>1, <1>2 DEF IsStakingLimitSet
<1>4. IsStakingPaused(stakingState') <=> IsStakingPaused(stakingState)
  BY <1>2, StateTypes DEF IsStakingPaused, BlockUnlessPaused
<1>5. AvailableLimit' = stakingState'.prevStakeLimit
  <2>1. CASE IsStakingPaused(stakingState)
    BY <1>3, <1>4, <2>1 DEF AvailableLimit
  <2>2. CASE ~IsStakingPaused(stakingState)
    BY <1>1, <1>2, <1>3, <2>2, AvailableAfterChange DEF BlockUnlessPaused
  <2>3. QED
    BY <2>1, <2>2
<1>6. CASE IsStakingPaused(stakingState) \/ ~IsStakingLimitSet(stakingState)
  BY <1>1, <1>2, <1>4, <1>5, <1>6 DEF TB!Limit, TB!Unlimited, IsStakingLimitSet
<1>7. CASE ~IsStakingPaused(stakingState) /\ IsStakingLimitSet(stakingState)
  <2>1. AvailableLimit \in Nat /\ AvailableLimit >= stakingState.prevStakeLimit
    BY <1>7, StateTypes DEF AvailableLimit
  <2>2. AvailableLimit' \in 0..AvailableLimit
    BY <1>1, <1>2, <1>5, <1>7, <2>1, StateTypes
  <2>3. QED
    BY <1>1, <1>2, <1>4, <1>7, <2>2 DEF TB!Limit, TB!Unlimited, IsStakingLimitSet
<1>8. QED
  BY <1>6, <1>7

LEMMA RemoveStakingLimitUnlimits ==
  ASSUME IInv, RemoveStakingLimit
  PROVE  TB!Unlimit
<1>1. /\ stakingState'.maxStakeLimit = 0
      /\ stakingState'.prevStakeBlockNumber = stakingState.prevStakeBlockNumber
      /\ bufferedEther' = bufferedEther
  BY DEF RemoveStakingLimit, WithoutStakingLimit, IInv, TypeOK, StakeLimitState, poolVars
<1>2. QED
  BY <1>1 DEF TB!Unlimit, AvailableLimit, IsStakingLimitSet, IsStakingPaused

LEMMA PausingSwitches ==
  ASSUME IInv, IInv', NEW paused \in BOOLEAN, SetStakingPaused(paused), block' = block,
         bufferedEther' = bufferedEther
  PROVE  TB!Switch
<1>1. /\ stakingState'.prevStakeLimit = stakingState.prevStakeLimit
      /\ stakingState'.maxStakeLimit = stakingState.maxStakeLimit
      /\ stakingState'.maxStakeLimitGrowthBlocks = stakingState.maxStakeLimitGrowthBlocks
      /\ stakingState'.prevStakeBlockNumber = IF paused THEN 0 ELSE block
  BY DEF SetStakingPaused, WithPauseState, IInv, TypeOK, StakeLimitState
<1>2. StakeLimitIncPerBlock(stakingState') = StakeLimitIncPerBlock(stakingState)
  BY <1>1 DEF StakeLimitIncPerBlock
<1>3. AvailableLimit' \in 0..AvailableLimit
  <2>1. CASE ~IsStakingLimitSet(stakingState)
    BY <1>1, <2>1 DEF AvailableLimit, IsStakingLimitSet
  <2>2. CASE IsStakingLimitSet(stakingState)
    <3>1. AvailableLimit \in Nat /\ AvailableLimit >= stakingState.prevStakeLimit
      BY <2>2, StateTypes DEF AvailableLimit
    <3>2. IsStakingLimitSet(stakingState')
      BY <1>1, <2>2 DEF IsStakingLimitSet
    <3>3. AvailableLimit' = stakingState.prevStakeLimit
      <4>1. CASE paused
        BY <1>1, <3>2, <4>1 DEF AvailableLimit, IsStakingPaused
      <4>2. CASE ~paused
        BY <1>1, <3>2, <4>2, AvailableAfterChange
      <4>3. QED
        BY <4>1, <4>2
    <3>4. QED
      BY <3>1, <3>3, StateTypes
  <2>3. QED
    BY <2>1, <2>2
<1>4. QED
  BY <1>1, <1>2, <1>3 DEF TB!Switch

LEMMA NextImplements == IInv /\ IInv' /\ [Next]_vars => [TB!Next]_TB!vars
<1> SUFFICES ASSUME IInv, IInv', [Next]_vars PROVE [TB!Next]_TB!vars
  OBVIOUS
<1>1. CASE AdvanceBlock
  BY <1>1, AdvanceBlockFills DEF TB!Next
<1>2. ASSUME NEW value \in Amounts, Submit(value) PROVE TB!Next
  BY <1>2, SubmitTakes DEF TB!Next
<1>3. ASSUME NEW max \in Limits, NEW increase \in Limits, SetStakingLimit(max, increase)
      PROVE  TB!Next
  BY <1>3, SetStakingLimitLimits DEF TB!Next
<1>4. CASE RemoveStakingLimit
  BY <1>4, RemoveStakingLimitUnlimits DEF TB!Next
<1>5. CASE PauseStaking \/ ResumeStaking \/ Stop \/ Resume
  <2>1. /\ \E paused \in BOOLEAN : SetStakingPaused(paused)
        /\ block' = block
        /\ bufferedEther' = bufferedEther
    BY <1>5 DEF PauseStaking, ResumeStaking, Stop, Resume, poolVars
  <2>2. QED
    BY <2>1, PausingSwitches DEF TB!Next
<1>6. CASE UNCHANGED vars
  BY <1>6 DEF vars, poolVars, TB!vars, AvailableLimit, CurrentLimit
<1>7. QED
  BY <1>1, <1>2, <1>3, <1>4, <1>5, <1>6 DEF Next

LEMMA InitImplements == Init => TB!Init
  BY StakingAssumption
  DEF Init, TB!Init, AvailableLimit, IsStakingPaused, IsStakingLimitSet, StakeLimitIncPerBlock

(***************************************************************************)
(* The limit projected from the last change is a bucket that is filled     *)
(* block by block; no change of its settings and no pause refills it.      *)
(***************************************************************************)
THEOREM StakingImplementsTokenBucket == Spec => ImplementsTokenBucket
  BY InitIInv, NextIInv, InitImplements, NextImplements, PTL
  DEF Spec, ImplementsTokenBucket, TB!Spec

===============================================================================

------------------------------- MODULE Staking -------------------------------
(***************************************************************************)
(* Staking in Lido: submit, the pause of staking, the pause of the whole   *)
(* protocol and the staking rate limit.  Reports and deposits, which also  *)
(* change the pool, are not part of this module: a submit only needs the   *)
(* pool's rate, which then stays what it was.                              *)
(***************************************************************************)
EXTENDS StakeLimit

CONSTANTS
  INITIAL_BALANCE,   \* ether the contract is initialized with
  Amounts,           \* bound: ether sent with submit
  Limits,            \* bound: staking limits set
  MAX_BLOCK,         \* bound on the block number
  MAX_ETHER          \* bound on the ether staked

ASSUME StakingAssumption ==
  /\ INITIAL_BALANCE \in Nat \ {0}
  /\ Amounts \subseteq Nat
  /\ Limits \subseteq Nat
  /\ MAX_BLOCK \in Nat \ {0}
  /\ MAX_ETHER \in Nat
  /\ MAX_BLOCK <= MAX_UINT32   \* uint32(block.number) loses nothing

VARIABLES
  block,                        \* block.number
  active,                       \* ACTIVE_FLAG_POSITION
  stakingState,                 \* STAKING_STATE_POSITION
  bufferedEther,                \* BUFFERED_ETHER_POSITION
  totalShares                   \* TOTAL_SHARES_POSITION

poolVars == <<bufferedEther, totalShares>>
vars == <<block, active, stakingState, poolVars>>

TypeOK ==
  /\ block \in 1..MAX_BLOCK
  /\ active \in BOOLEAN
  /\ stakingState \in StakeLimitState
  /\ bufferedEther \in Nat
  /\ totalShares \in Nat

(***************************************************************************)
(* initialize: stopped, staking paused, no limit; the initial balance is   *)
(* staked for the initial holder.                                          *)
(***************************************************************************)
Init ==
  /\ block = 1
  /\ active = FALSE
  /\ stakingState = [prevStakeBlockNumber |-> 0, prevStakeLimit |-> 0,
                     maxStakeLimitGrowthBlocks |-> 0, maxStakeLimit |-> 0]
  /\ bufferedEther = INITIAL_BALANCE
  /\ totalShares = INITIAL_BALANCE

------------------------------------------------------------------------------

CurrentLimit == CalculateCurrentStakeLimit(stakingState, block)

Submit(value) ==
  /\ value # 0
  /\ ~IsStakingPaused(stakingState)
  /\ IF IsStakingLimitSet(stakingState)
     THEN /\ value <= CurrentLimit
          /\ stakingState' = WithPrevStakeLimit(stakingState, CurrentLimit - value, block)
     ELSE UNCHANGED stakingState
  /\ totalShares' = totalShares + (value * totalShares) \div bufferedEther
  /\ bufferedEther' = bufferedEther + value
  /\ bufferedEther' <= MAX_ETHER
  /\ UNCHANGED <<block, active>>

SetStakingLimit(max, increase) ==
  /\ IsValidLimit(max, increase)
  /\ stakingState' = WithStakingLimit(stakingState, max, increase, block)
  /\ UNCHANGED <<block, active, poolVars>>

RemoveStakingLimit ==
  /\ stakingState' = WithoutStakingLimit(stakingState)
  /\ UNCHANGED <<block, active, poolVars>>

SetStakingPaused(paused) == stakingState' = WithPauseState(stakingState, paused, block)

PauseStaking ==
  /\ SetStakingPaused(TRUE)
  /\ UNCHANGED <<block, active, poolVars>>

ResumeStaking ==
  /\ SetStakingPaused(FALSE)
  /\ UNCHANGED <<block, active, poolVars>>

Stop ==
  /\ active
  /\ active' = FALSE
  /\ SetStakingPaused(TRUE)
  /\ UNCHANGED <<block, poolVars>>

Resume ==
  /\ ~active
  /\ active' = TRUE
  /\ SetStakingPaused(FALSE)
  /\ UNCHANGED <<block, poolVars>>

AdvanceBlock ==
  /\ block < MAX_BLOCK
  /\ block' = block + 1
  /\ UNCHANGED <<active, stakingState, poolVars>>

Next ==
  \/ AdvanceBlock
  \/ \E value \in Amounts : Submit(value)
  \/ \E max \in Limits, increase \in Limits : SetStakingLimit(max, increase)
  \/ RemoveStakingLimit
  \/ PauseStaking \/ ResumeStaking
  \/ Stop \/ Resume

Spec == Init /\ [][Next]_vars

------------------------------------------------------------------------------

(***************************************************************************)
(* Setting or removing the limit does not resume staking, although it      *)
(* writes the block number that stores the pause.                          *)
(***************************************************************************)
OnlyResumingResumes ==
  [][IsStakingPaused(stakingState) /\ ~IsStakingPaused(stakingState')
       => Resume \/ ResumeStaking]_vars

(***************************************************************************)
(* The limit stored with the last stake is within the maximum, however     *)
(* limits were set, removed and set again, so nothing is lost when what is *)
(* left of it is stored in 96 bits.                                        *)
(***************************************************************************)
LimitWithinMaximum ==
  IsStakingLimitSet(stakingState) => stakingState.prevStakeLimit <= stakingState.maxStakeLimit

(***************************************************************************)
(* The projected limit is a bucket filled block by block.  Setting the     *)
(* limit while staking is limited never makes more available than there    *)
(* was, and neither does pausing and resuming.                             *)
(***************************************************************************)
AvailableLimit ==
  IF ~IsStakingLimitSet(stakingState) THEN 0
  ELSE IF IsStakingPaused(stakingState) THEN stakingState.prevStakeLimit
  ELSE CurrentLimit

TB == INSTANCE TokenBucket WITH
        open     <- ~IsStakingPaused(stakingState),
        capacity <- stakingState.maxStakeLimit,
        refill   <- StakeLimitIncPerBlock(stakingState),
        level    <- AvailableLimit,
        staked   <- bufferedEther

ImplementsTokenBucket == TB!Spec

==============================================================================

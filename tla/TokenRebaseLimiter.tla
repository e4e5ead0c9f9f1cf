-------------------------- MODULE TokenRebaseLimiter --------------------------
(***************************************************************************)
(* PositiveTokenRebaseLimiter: how much ether may be taken in and how many *)
(* shares may be burnt in one report, so that the value of a share grows   *)
(* by no more than the limit.  No state: a limiter lives as long as the    *)
(* report.                                                                 *)
(***************************************************************************)
EXTENDS Integers

CONSTANTS
  LIMITER_PRECISION_BASE,
  UNLIMITED_REBASE,          \* type(uint64).max
  maxPositiveTokenRebase     \* the limit set in the sanity checker

ASSUME TokenRebaseLimiterAssumption ==
  /\ LIMITER_PRECISION_BASE \in Nat \ {0}
  /\ UNLIMITED_REBASE \in Nat \ {0}
  /\ maxPositiveTokenRebase \in 1..UNLIMITED_REBASE

Smaller(a, b) == IF a < b THEN a ELSE b

(***************************************************************************)
(* A limiter of an unlimited rebase has no use for its maximum.            *)
(***************************************************************************)
MaxPooledEther(limit, preEther) == preEther + (limit * preEther) \div LIMITER_PRECISION_BASE

InitLimiterState(rebaseLimit, preEther, preShares) ==
  LET limit == IF preEther = 0 THEN UNLIMITED_REBASE ELSE rebaseLimit
  IN  [preEther |-> preEther, preShares |-> preShares, ether |-> preEther,
       limit |-> limit, maxEther |-> MaxPooledEther(limit, preEther)]

IsUnlimited(limiter) == limiter.limit = UNLIMITED_REBASE

CanDecreaseEther(limiter, amount) == IsUnlimited(limiter) \/ amount <= limiter.ether

DecreaseEther(limiter, amount) ==
  IF IsUnlimited(limiter) THEN limiter ELSE [limiter EXCEPT !.ether = @ - amount]

IncreaseEther(limiter, amount) ==
  IF IsUnlimited(limiter) THEN limiter
  ELSE [limiter EXCEPT !.ether = Smaller(@ + amount, limiter.maxEther)]

ConsumedEther(limiter, amount) ==
  IF IsUnlimited(limiter) THEN amount
  ELSE Smaller(limiter.ether + amount, limiter.maxEther) - limiter.ether

SharesToBurnUncompounded(limiter) ==   \* mutant: the burnt shares are no longer in the total
  LET etherRate == (limiter.ether * LIMITER_PRECISION_BASE) \div limiter.preEther
  IN  (limiter.preShares * (limiter.limit + LIMITER_PRECISION_BASE - etherRate))
        \div LIMITER_PRECISION_BASE

SharesToBurnLimit(limiter) ==
  LET limitPlus1 == limiter.limit + LIMITER_PRECISION_BASE
      etherRate  == (limiter.ether * LIMITER_PRECISION_BASE) \div limiter.preEther
  IN  IF IsUnlimited(limiter) THEN limiter.preShares
      ELSE IF limiter.ether >= limiter.maxEther THEN 0
      ELSE (limiter.preShares * (limitPlus1 - etherRate)) \div limitPlus1

(***************************************************************************)
(* smoothenTokenRebase of the sanity checker.  The rewards and losses of   *)
(* the consensus layer are never held back, only the vaults and the shares *)
(* to burn are.                                                            *)
(***************************************************************************)
LimiterAfterCL(preEther, preShares, preCLBalance, postCLBalance) ==
  LET limiter == InitLimiterState(maxPositiveTokenRebase, preEther, preShares)
  IN  IF postCLBalance < preCLBalance
      THEN DecreaseEther(limiter, preCLBalance - postCLBalance)
      ELSE IncreaseEther(limiter, postCLBalance - preCLBalance)

SmoothenTokenRebase(afterCL, vaultBalance, rewardsBalance, requestedToBurn, etherToLock, newToBurn) ==
  LET afterWithdrawals == IncreaseEther(afterCL, vaultBalance)
      afterRewards     == IncreaseEther(afterWithdrawals, rewardsBalance)
      afterLock        == DecreaseEther(afterRewards, etherToLock)
  IN  [withdrawals           |-> ConsumedEther(afterCL, vaultBalance),
       elRewards             |-> ConsumedEther(afterWithdrawals, rewardsBalance),
       simulatedSharesToBurn |-> Smaller(SharesToBurnLimit(afterRewards), requestedToBurn),
       canLock               |-> CanDecreaseEther(afterRewards, etherToLock),
       sharesToBurn          |-> Smaller(SharesToBurnLimit(afterLock),
                                         newToBurn + requestedToBurn)]

==============================================================================

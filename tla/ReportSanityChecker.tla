-------------------------- MODULE ReportSanityChecker --------------------------
(***************************************************************************)
(* OracleReportSanityChecker: the bounds on an accounting report and on    *)
(* the share rate simulated for it.  No state but the limits, which are    *)
(* constants here.                                                         *)
(***************************************************************************)
EXTENDS TokenRebaseLimiter

CONSTANTS
  MAX_BASIS_POINTS,
  DEFAULT_CL_BALANCE,                  \* stands for a balance of 0
  YEAR,                                \* 365 days
  SECONDS_PER_DAY,
  SHARE_RATE_PRECISION,                \* SHARE_RATE_PRECISION_E27
  churnValidatorsPerDayLimit,
  oneOffCLBalanceDecreaseBPLimit,
  annualBalanceIncreaseBPLimit,
  simulatedShareRateDeviationBPLimit

ASSUME ReportSanityCheckerAssumption ==
  /\ MAX_BASIS_POINTS \in Nat \ {0}
  /\ DEFAULT_CL_BALANCE \in Nat \ {0}
  /\ YEAR \in Nat \ {0}
  /\ SECONDS_PER_DAY \in Nat \ {0}
  /\ SHARE_RATE_PRECISION \in Nat \ {0}
  /\ churnValidatorsPerDayLimit \in Nat
  /\ oneOffCLBalanceDecreaseBPLimit \in 0..MAX_BASIS_POINTS
  /\ annualBalanceIncreaseBPLimit \in 0..MAX_BASIS_POINTS
  /\ simulatedShareRateDeviationBPLimit \in 0..MAX_BASIS_POINTS

IsOneOffDecreaseAllowed(preCLBalance, unifiedPostCLBalance) ==
  preCLBalance > unifiedPostCLBalance =>
    (MAX_BASIS_POINTS * (preCLBalance - unifiedPostCLBalance)) \div preCLBalance
      <= oneOffCLBalanceDecreaseBPLimit

IsAnnualIncreaseAllowed(preCLBalance, postCLBalance, timeElapsed) ==
  LET pre == IF preCLBalance = 0 THEN DEFAULT_CL_BALANCE ELSE preCLBalance
  IN  pre < postCLBalance =>
        ((YEAR * MAX_BASIS_POINTS * (postCLBalance - pre)) \div pre) \div timeElapsed
          <= annualBalanceIncreaseBPLimit

IsChurnAllowed(appearedValidators, timeElapsed) ==
  appearedValidators > 0 =>
    appearedValidators <= (churnValidatorsPerDayLimit * timeElapsed) \div SECONDS_PER_DAY

(***************************************************************************)
(* The part of the vault that the validators' balances lost is no loss.    *)
(***************************************************************************)
CheckCLBalances(preCLBalance, postCLBalance, withdrawalVaultBalance, appeared, timeElapsed) ==
  /\ IsOneOffDecreaseAllowed(preCLBalance, postCLBalance + withdrawalVaultBalance)
  /\ IsAnnualIncreaseAllowed(preCLBalance, postCLBalance, timeElapsed)
  /\ IsChurnAllowed(appeared, timeElapsed)

CheckSimulatedShareRate(noWithdrawalsPostEther, noWithdrawalsPostShares, simulatedShareRate) ==
  LET actual == (noWithdrawalsPostEther * SHARE_RATE_PRECISION) \div noWithdrawalsPostShares
      diff   == IF actual > simulatedShareRate THEN actual - simulatedShareRate
                ELSE simulatedShareRate - actual
  IN  /\ actual # 0
      /\ (MAX_BASIS_POINTS * diff) \div actual <= simulatedShareRateDeviationBPLimit

==============================================================================

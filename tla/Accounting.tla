------------------------------ MODULE Accounting ------------------------------
(***************************************************************************)
(* The accounting of Lido: stETH shares, the ether they stand for, the     *)
(* Burner, the vaults, and the oracle report that changes them all in one  *)
(* transaction (Lido, StETH, Burner, OracleReportSanityChecker).           *)
(*                                                                         *)
(* A report is gathered at a reference slot and handled later, with other  *)
(* transactions in between.  The gates that only forbid (pauses, bunker    *)
(* mode, the stake limit, the margin on the time of requests) are modelled *)
(* in Staking and WithdrawalQueue; without them this module has more       *)
(* behaviours, not fewer.  What the finalized requests claim is modelled   *)
(* in WithdrawalQueue.                                                     *)
(***************************************************************************)
EXTENDS ReportSanityChecker, WithdrawalMath

CONSTANTS
  DEPOSIT_SIZE,
  INITIAL_BALANCE,      \* ether the contract is initialized with
  ModulesFee,           \* of rewards, in parts of PRECISION_POINTS
  TreasuryFee,
  PRECISION_POINTS,
  TIME_ELAPSED,         \* bound: time between two reports
  Stakes,               \* bound: ether submitted at once
  Requests,             \* bound: stETH requested to be withdrawn
  Burns,                \* bound: stETH sent to be burnt
  VaultIncomes,         \* bound: ether the vaults receive at once
  CLRewards,            \* bound: rewards and losses of the validators
  MAX_STAKED,           \* bound on the ether submitted between two reports
  MAX_VAULT,            \* bound on the ether in a vault
  MAX_REQUESTS,         \* bound on the requests
  MAX_BURN,             \* bound on the shares of the Burner and the treasury
  MAX_REPORTS           \* bound on the reports

ASSUME AccountingAssumption ==
  /\ {DEPOSIT_SIZE, INITIAL_BALANCE, PRECISION_POINTS, TIME_ELAPSED} \subseteq Nat \ {0}
  /\ {ModulesFee, TreasuryFee} \subseteq Nat
  /\ ModulesFee + TreasuryFee < PRECISION_POINTS
  /\ Stakes \subseteq Nat /\ Requests \subseteq Nat /\ Burns \subseteq Nat
  /\ VaultIncomes \subseteq Nat
  /\ CLRewards \subseteq Int
  /\ {MAX_STAKED, MAX_VAULT, MAX_REQUESTS, MAX_BURN, MAX_REPORTS} \subseteq Nat

(***************************************************************************)
(* Who holds shares: the initial holder 0xdead, stakers, the contracts,    *)
(* and the recipients of fees.                                             *)
(***************************************************************************)
Accounts == {"dead", "staker", "queue", "burner", "modules", "treasury"}

NoReport == [clValidators |-> 0]

VARIABLES
  bufferedEther,                \* BUFFERED_ETHER_POSITION
  depositedValidators,          \* DEPOSITED_VALIDATORS_POSITION
  clValidators,                 \* CL_VALIDATORS_POSITION
  clBalance,                    \* CL_BALANCE_POSITION
  totalShares,                  \* TOTAL_SHARES_POSITION
  shares,                       \* of StETH
  coverSharesBurnRequested,     \* of Burner
  nonCoverSharesBurnRequested,
  withdrawalVault,              \* ether of the WithdrawalVault
  elRewardsVault,               \* ether of the LidoExecutionLayerRewardsVault
  queue,                        \* requests of the WithdrawalQueue
  lastFinalizedRequestId,
  lockedEtherAmount,
  report,                       \* external: gathered, not yet handled
  staked,                       \* ether submitted since the last report
  reports                       \* reports handled

poolVars == <<bufferedEther, depositedValidators, clValidators, clBalance>>
sharesVars == <<totalShares, shares>>
burnerVars == <<coverSharesBurnRequested, nonCoverSharesBurnRequested>>
vaultVars == <<withdrawalVault, elRewardsVault>>
queueVars == <<queue, lastFinalizedRequestId, lockedEtherAmount>>
reportVars == <<report, staked, reports>>
vars == <<poolVars, sharesVars, burnerVars, vaultVars, queueVars, reportVars>>

Request == [cumulativeStETH : Nat, cumulativeShares : Nat, timestamp : Nat, reportTimestamp : Nat]

Report ==
  [clValidators : Nat, clBalance : Nat, withdrawalVaultBalance : Nat,
   elRewardsVaultBalance : Nat, sharesRequestedToBurn : Nat,
   batches : Seq(Nat), simulatedShareRate : Nat]

(***************************************************************************)
(* Every conversion asserts that the validators on the consensus layer are *)
(* among the deposited ones.                                               *)
(***************************************************************************)
TypeOK ==
  /\ {bufferedEther, depositedValidators, clValidators, clBalance, totalShares} \subseteq Nat
  /\ clValidators <= depositedValidators
  /\ shares \in [Accounts -> Nat]
  /\ {coverSharesBurnRequested, nonCoverSharesBurnRequested} \subseteq Nat
  /\ {withdrawalVault, elRewardsVault, lockedEtherAmount} \subseteq Nat
  /\ queue \in Seq(Request)
  /\ lastFinalizedRequestId \in 0..Len(queue)
  /\ report \in Report \union {NoReport}
  /\ staked \in 0..MAX_STAKED
  /\ reports \in 0..MAX_REPORTS

(***************************************************************************)
(* initialize: the balance is staked for the initial holder.               *)
(***************************************************************************)
Init ==
  /\ bufferedEther = INITIAL_BALANCE
  /\ depositedValidators = 0
  /\ clValidators = 0
  /\ clBalance = 0
  /\ totalShares = INITIAL_BALANCE
  /\ shares = [a \in Accounts |-> IF a = "dead" THEN INITIAL_BALANCE ELSE 0]
  /\ coverSharesBurnRequested = 0
  /\ nonCoverSharesBurnRequested = 0
  /\ withdrawalVault = 0
  /\ elRewardsVault = 0
  /\ queue = <<>>
  /\ lastFinalizedRequestId = 0
  /\ lockedEtherAmount = 0
  /\ report = NoReport
  /\ staked = 0
  /\ reports = 0

------------------------------------------------------------------------------

(***************************************************************************)
(* StETH.                                                                  *)
(***************************************************************************)
TransientBalance == (depositedValidators - clValidators) * DEPOSIT_SIZE

TotalPooledEther == bufferedEther + clBalance + TransientBalance

SharesByPooledEth(amount) == (amount * totalShares) \div TotalPooledEther
PooledEthByShares(amount) == (amount * TotalPooledEther) \div totalShares

(***************************************************************************)
(* An amount of stETH is no number of shares when there is no ether in the *)
(* pool: SafeMath reverts.                                                 *)
(***************************************************************************)
SharesHavePrice == TotalPooledEther > 0

TransferShares(from, to, amount) ==
  /\ amount <= shares[from]
  /\ shares' = [shares EXCEPT ![from] = @ - amount, ![to] = @ + amount]
  /\ UNCHANGED totalShares

(***************************************************************************)
(* submit, as far as the pool is concerned.                                *)
(***************************************************************************)
Submit(amount) ==
  LET minted == SharesByPooledEth(amount)
  IN  /\ amount # 0
      /\ SharesHavePrice
      /\ staked + amount <= MAX_STAKED
      /\ totalShares' = totalShares + minted
      /\ shares' = [shares EXCEPT !["staker"] = @ + minted]
      /\ bufferedEther' = bufferedEther + amount
      /\ staked' = staked + amount
      /\ UNCHANGED <<depositedValidators, clValidators, clBalance, burnerVars, vaultVars, queueVars,
                     report, reports>>

(***************************************************************************)
(* Deposits leave the ether of the unfinalized requests alone.             *)
(***************************************************************************)
UnfinalizedStETH ==
  CumulativeStETH(queue, Len(queue)) - CumulativeStETH(queue, lastFinalizedRequestId)

AllBufferedEther == bufferedEther   \* mutant: no reserve for withdrawals

DepositableEther ==
  IF bufferedEther > UnfinalizedStETH THEN bufferedEther - UnfinalizedStETH ELSE 0

Deposit(count) ==
  /\ count > 0
  /\ count * DEPOSIT_SIZE <= DepositableEther
  /\ bufferedEther' = bufferedEther - count * DEPOSIT_SIZE
  /\ depositedValidators' = depositedValidators + count
  /\ UNCHANGED <<clValidators, clBalance, sharesVars, burnerVars, vaultVars, queueVars, reportVars>>

(***************************************************************************)
(* Requesting a withdrawal moves the shares to the queue.  The number of   *)
(* reports is the clock of the requests.                                   *)
(***************************************************************************)
RequestWithdrawal(amount) ==
  LET last == Len(queue)
  IN  /\ last < MAX_REQUESTS
      /\ SharesHavePrice
      /\ TransferShares("staker", "queue", SharesByPooledEth(amount))
      /\ queue' = Append(queue,
           [cumulativeStETH  |-> CumulativeStETH(queue, last) + amount,
            cumulativeShares |-> CumulativeShares(queue, last) + SharesByPooledEth(amount),
            timestamp        |-> reports,
            reportTimestamp  |-> reports])
      /\ UNCHANGED <<poolVars, burnerVars, vaultVars, lastFinalizedRequestId, lockedEtherAmount,
                     reportVars>>

------------------------------------------------------------------------------

(***************************************************************************)
(* Burner.                                                                 *)
(***************************************************************************)
SharesRequestedToBurn == coverSharesBurnRequested + nonCoverSharesBurnRequested

ExcessShares ==
  IF shares["burner"] <= SharesRequestedToBurn THEN 0 ELSE shares["burner"] - SharesRequestedToBurn

(***************************************************************************)
(* The bound on what is sent to the Burner and what is recovered from it.  *)
(***************************************************************************)
BurnerMayReceive(amount) == shares["burner"] + shares["treasury"] + amount <= MAX_BURN

(***************************************************************************)
(* requestBurnMyStETH(ForCover): an amount of stETH.                       *)
(***************************************************************************)
RequestBurn(isCover, amount) ==
  /\ amount > 0
  /\ IF isCover
     THEN /\ coverSharesBurnRequested' = coverSharesBurnRequested + amount
          /\ UNCHANGED nonCoverSharesBurnRequested
     ELSE /\ nonCoverSharesBurnRequested' = nonCoverSharesBurnRequested + amount
          /\ UNCHANGED coverSharesBurnRequested

RequestBurnMyStETH(isCover, stETHAmount) ==
  /\ SharesHavePrice
  /\ BurnerMayReceive(SharesByPooledEth(stETHAmount))
  /\ TransferShares("staker", "burner", SharesByPooledEth(stETHAmount))
  /\ RequestBurn(isCover, SharesByPooledEth(stETHAmount))
  /\ UNCHANGED <<poolVars, vaultVars, queueVars, reportVars>>

(***************************************************************************)
(* requestBurnShares(ForCover): a number of shares, from an account that   *)
(* approved it.                                                            *)
(***************************************************************************)
RequestBurnShares(isCover, amount) ==
  /\ BurnerMayReceive(amount)
  /\ TransferShares("staker", "burner", amount)
  /\ RequestBurn(isCover, amount)
  /\ UNCHANGED <<poolVars, vaultVars, queueVars, reportVars>>

(***************************************************************************)
(* stETH sent to the Burner without a request is in excess, and goes to    *)
(* the treasury.                                                           *)
(***************************************************************************)
SendToBurner(stETHAmount) ==
  /\ SharesHavePrice
  /\ BurnerMayReceive(SharesByPooledEth(stETHAmount))
  /\ TransferShares("staker", "burner", SharesByPooledEth(stETHAmount))
  /\ UNCHANGED <<poolVars, burnerVars, vaultVars, queueVars, reportVars>>

RecoverAllStETH ==   \* mutant: the requests are not set aside
  /\ PooledEthByShares(shares["burner"]) > 0
  /\ TransferShares("burner", "treasury", SharesByPooledEth(PooledEthByShares(shares["burner"])))
  /\ UNCHANGED <<poolVars, burnerVars, vaultVars, queueVars, reportVars>>

RecoverExcessStETH ==
  LET excess == PooledEthByShares(ExcessShares)
  IN  /\ excess > 0
      /\ TransferShares("burner", "treasury", SharesByPooledEth(excess))
      /\ UNCHANGED <<poolVars, burnerVars, vaultVars, queueVars, reportVars>>

(***************************************************************************)
(* External: the vaults receive rewards and the ether of exited validators.*)
(***************************************************************************)
ReceiveWithdrawals(amount) ==
  /\ withdrawalVault + amount <= MAX_VAULT
  /\ withdrawalVault' = withdrawalVault + amount
  /\ UNCHANGED <<poolVars, sharesVars, burnerVars, elRewardsVault, queueVars, reportVars>>

ReceiveELRewards(amount) ==
  /\ elRewardsVault + amount <= MAX_VAULT
  /\ elRewardsVault' = elRewardsVault + amount
  /\ UNCHANGED <<poolVars, sharesVars, burnerVars, withdrawalVault, queueVars, reportVars>>

------------------------------------------------------------------------------

(***************************************************************************)
(* The report.  What it will do to the pool is calculated in steps, each   *)
(* from the results of those before it; "eval" also answers the off-chain  *)
(* simulation, which is the same call without batches.                     *)
(***************************************************************************)
TotalFee == ModulesFee + TreasuryFee

(***************************************************************************)
(* Step 1: newly appeared validators bring the balance they were deposited *)
(* with, which is no reward.                                               *)
(***************************************************************************)
PreCLBalance(r) == clBalance + (r.clValidators - clValidators) * DEPOSIT_SIZE

CLStateIsConsistent(r) ==
  /\ r.clValidators <= depositedValidators
  /\ r.clValidators >= clValidators

(***************************************************************************)
(* Step 2.                                                                 *)
(***************************************************************************)
CheckAccountingOracleReport(r) ==
  /\ r.withdrawalVaultBalance <= withdrawalVault
  /\ r.elRewardsVaultBalance <= elRewardsVault
  /\ r.sharesRequestedToBurn <= SharesRequestedToBurn
  /\ CheckCLBalances(PreCLBalance(r), r.clBalance, r.withdrawalVaultBalance,
                     r.clValidators - clValidators, TIME_ELAPSED)

(***************************************************************************)
(* Step 3.                                                                 *)
(***************************************************************************)
EtherToLock(r) ==
  PrefinalizedEther(queue, lastFinalizedRequestId, r.batches, r.simulatedShareRate)

SharesOfWithdrawals(r) == PrefinalizedShares(queue, lastFinalizedRequestId, r.batches)

CheckWithdrawals(r) ==
  r.batches # <<>> =>
    /\ r.simulatedShareRate > 0
    /\ BatchesAreValid(queue, lastFinalizedRequestId, r.batches)

(***************************************************************************)
(* Step 4.                                                                 *)
(***************************************************************************)
Smoothened(r) ==
  SmoothenTokenRebase(LimiterAfterCL(TotalPooledEther, totalShares, PreCLBalance(r), r.clBalance),
                      r.withdrawalVaultBalance, r.elRewardsVaultBalance, r.sharesRequestedToBurn,
                      EtherToLock(r), SharesOfWithdrawals(r))

(***************************************************************************)
(* Step 7: the fee is minted such that the new shares are worth the fee    *)
(* once the rewards are in the pool.  There is none if the validators'     *)
(* balance has not grown.                                                  *)
(***************************************************************************)
SharesMintedForRewards(preEther, preShares, rewards) ==
  (rewards * TotalFee * preShares) \div ((preEther + rewards) * PRECISION_POINTS - rewards * TotalFee)

FeeOfAppeared(r, s) ==   \* mutant: what appears is taken for a reward
  LET rewards == r.clBalance + s.withdrawals - clBalance
  IN  IF rewards > 0 /\ TotalFee > 0
      THEN SharesMintedForRewards(TotalPooledEther, totalShares, rewards + s.elRewards)
      ELSE 0

SharesMintedAsFees(r, s) ==
  LET rewards == r.clBalance + s.withdrawals - PreCLBalance(r)
  IN  IF rewards > 0 /\ TotalFee > 0
      THEN SharesMintedForRewards(TotalPooledEther, totalShares, rewards + s.elRewards)
      ELSE 0

(***************************************************************************)
(* Step 8: the pool after the report.                                      *)
(***************************************************************************)
PostBufferedEther(r, s) == bufferedEther + s.elRewards + s.withdrawals - EtherToLock(r)

PostTotalPooledEther(r, s) ==
  PostBufferedEther(r, s) + r.clBalance + (depositedValidators - r.clValidators) * DEPOSIT_SIZE

PostTotalShares(r, s) == totalShares - s.sharesToBurn + SharesMintedAsFees(r, s)

(***************************************************************************)
(* Step 9: the rate without the withdrawals is the simulated one.          *)
(***************************************************************************)
CheckRate(r, s) ==
  r.batches # <<>> =>
    /\ s.sharesToBurn >= s.simulatedSharesToBurn
    /\ CheckSimulatedShareRate(PostTotalPooledEther(r, s) + EtherToLock(r),
                               PostTotalShares(r, s) + s.sharesToBurn - s.simulatedSharesToBurn,
                               r.simulatedShareRate)

(***************************************************************************)
(* All the requirements on the way.                                        *)
(***************************************************************************)
CanHandle(r) ==
  LET s == Smoothened(r)
  IN  /\ CLStateIsConsistent(r)
      /\ CheckAccountingOracleReport(r)
      /\ CheckWithdrawals(r)
      /\ SharesOfWithdrawals(r) <= shares["queue"]
      /\ CanDecreaseEther(InitLimiterState(maxPositiveTokenRebase, TotalPooledEther, totalShares),
                          PreCLBalance(r) - r.clBalance)
      /\ s.canLock
      /\ PostBufferedEther(r, s) >= 0
      /\ s.sharesToBurn <= SharesRequestedToBurn + SharesOfWithdrawals(r)
      /\ s.sharesToBurn <= shares["burner"] + SharesOfWithdrawals(r)
      /\ CheckRate(r, s)

(***************************************************************************)
(* Steps 3 and 6 in the Burner: the shares of the withdrawals are added to *)
(* the requested ones, and as many as the limiter allows are burnt, those  *)
(* for cover first.                                                        *)
(***************************************************************************)
CommitSharesToBurn(r, s) ==
  LET coverNow == Smaller(s.sharesToBurn, coverSharesBurnRequested)
  IN  /\ coverSharesBurnRequested' = coverSharesBurnRequested - coverNow
      /\ nonCoverSharesBurnRequested' =
           nonCoverSharesBurnRequested + SharesOfWithdrawals(r) - (s.sharesToBurn - coverNow)

(***************************************************************************)
(* Step 5: the vaults and the queue.                                       *)
(***************************************************************************)
FinalizeWithdrawals(r) ==
  IF EtherToLock(r) > 0
  THEN /\ lastFinalizedRequestId' = r.batches[Len(r.batches)]
       /\ lockedEtherAmount' = lockedEtherAmount + EtherToLock(r)
  ELSE UNCHANGED <<lastFinalizedRequestId, lockedEtherAmount>>

(***************************************************************************)
(* _handleOracleReport.                                                    *)
(***************************************************************************)
HandleOracleReport(r) ==
  LET s       == Smoothened(r)
      fees    == SharesMintedAsFees(r, s)
      modules == IF TotalFee > 0 THEN (fees * ModulesFee) \div TotalFee ELSE 0
  IN  /\ CanHandle(r)
      /\ clValidators' = r.clValidators
      /\ clBalance' = r.clBalance
      /\ bufferedEther' = PostBufferedEther(r, s)
      /\ withdrawalVault' = withdrawalVault - s.withdrawals
      /\ elRewardsVault' = elRewardsVault - s.elRewards
      /\ FinalizeWithdrawals(r)
      /\ CommitSharesToBurn(r, s)
      /\ totalShares' = PostTotalShares(r, s)
      /\ shares' = [shares EXCEPT
                      !["queue"]    = @ - SharesOfWithdrawals(r),
                      !["burner"]   = @ + SharesOfWithdrawals(r) - s.sharesToBurn,
                      !["modules"]  = @ + modules,
                      !["treasury"] = @ + fees - modules]
      /\ UNCHANGED <<depositedValidators, queue>>

OracleReport ==
  /\ report # NoReport
  /\ HandleOracleReport(report)
  /\ report' = NoReport
  /\ staked' = 0
  /\ reports' = reports + 1

------------------------------------------------------------------------------

(***************************************************************************)
(* The report that the helpers of the tests gather: what the chain and the *)
(* vaults show, or nothing of the vaults; the share rate that a simulation *)
(* of the report without burns and withdrawals leaves; and as many         *)
(* requests as the ether that the simulation collects and the buffer keep  *)
(* for them pay for.                                                       *)
(***************************************************************************)
Observed(validators, clDiff, excludeVaultsBalances) ==
  [clValidators           |-> validators,
   clBalance              |-> clBalance + clDiff,
   withdrawalVaultBalance |-> IF excludeVaultsBalances THEN 0 ELSE withdrawalVault,
   elRewardsVaultBalance  |-> IF excludeVaultsBalances THEN 0 ELSE elRewardsVault,
   sharesRequestedToBurn  |-> SharesRequestedToBurn,
   batches                |-> <<>>,
   simulatedShareRate     |-> 0]

Simulated(r) == [r EXCEPT !.sharesRequestedToBurn = 0]

SimulatedShareRate(r) ==
  LET s == Smoothened(Simulated(r))
  IN  (PostTotalPooledEther(Simulated(r), s) * SHARE_RATE_PRECISION)
        \div PostTotalShares(Simulated(r), s)

AvailableEth(r) ==
  LET s == Smoothened(Simulated(r))
  IN  s.withdrawals + s.elRewards + Smaller(bufferedEther, UnfinalizedStETH)

FinalizationBatches(r) ==
  IF AvailableEth(r) = 0 THEN <<>>
  ELSE CalculateFinalizationBatches(queue, lastFinalizedRequestId, SimulatedShareRate(r),
         reports, MAX_REQUESTS, StartCalculation(AvailableEth(r))).batches

GatherReport(validators, reward, excludeVaultsBalances, skipWithdrawals) ==
  LET observed == Observed(validators, (validators - clValidators) * DEPOSIT_SIZE + reward,
                           excludeVaultsBalances)
  IN  /\ reports < MAX_REPORTS
      /\ report = NoReport
      /\ observed.clBalance >= 0
      /\ CanHandle(observed)
      /\ ~skipWithdrawals => CanHandle(Simulated(observed))
      /\ report' = IF skipWithdrawals THEN observed
                   ELSE [observed EXCEPT !.batches = FinalizationBatches(observed),
                                         !.simulatedShareRate = SimulatedShareRate(observed)]
      /\ staked' = 0
      /\ UNCHANGED <<poolVars, sharesVars, burnerVars, vaultVars, queueVars, reports>>

Next ==
  \/ \E amount \in Stakes : Submit(amount)
  \/ \E count \in 1..(bufferedEther \div DEPOSIT_SIZE) : Deposit(count)
  \/ \E amount \in Requests : RequestWithdrawal(amount)
  \/ \E isCover \in BOOLEAN, amount \in Burns :
       RequestBurnMyStETH(isCover, amount) \/ RequestBurnShares(isCover, amount)
  \/ \E amount \in Burns : SendToBurner(amount)
  \/ RecoverExcessStETH
  \/ \E amount \in VaultIncomes : ReceiveWithdrawals(amount) \/ ReceiveELRewards(amount)
  \/ \E validators \in clValidators..depositedValidators, reward \in CLRewards,
        excludeVaultsBalances, skipWithdrawals \in BOOLEAN :
       GatherReport(validators, reward, excludeVaultsBalances, skipWithdrawals)
  \/ OracleReport

Spec == Init /\ [][Next]_vars

------------------------------------------------------------------------------

(***************************************************************************)
(* The total is the sum of what the accounts hold.                         *)
(***************************************************************************)
SharesAddUp == totalShares = SumFunction(shares)

(***************************************************************************)
(* The Burner has what is requested of it, however it was asked and        *)
(* whatever was recovered from it.                                         *)
(***************************************************************************)
BurnerHasTheRequested == shares["burner"] >= SharesRequestedToBurn

(***************************************************************************)
(* The queue has the shares of the unfinalized requests.                   *)
(***************************************************************************)
QueueHasTheUnfinalized ==
  shares["queue"] =
    CumulativeShares(queue, Len(queue)) - CumulativeShares(queue, lastFinalizedRequestId)

(***************************************************************************)
(* No share is minted, burnt or moved without its counterpart.             *)
(***************************************************************************)
SharesAreAccountedFor ==
  /\ SharesAddUp
  /\ BurnerHasTheRequested
  /\ QueueHasTheUnfinalized

(***************************************************************************)
(* The requests a report finalizes are worth a wei.  The queue finalizes   *)
(* them only if they are (Lido l. 851), but their shares are burnt in any  *)
(* case (l. 1213): a rate of a precision too low would leave requests in   *)
(* the queue whose shares are gone.                                        *)
(***************************************************************************)
FinalizationLocksEther ==
  report # NoReport => (report.batches # <<>> => EtherToLock(report) > 0)

(***************************************************************************)
(* A report, whatever its vaults, burns and withdrawals, makes a share     *)
(* dearer by no more than the limit (and the unit of its precision), but   *)
(* for what the rewards of the validators exceed it by, which cannot be    *)
(* held back.  The limiter is off if the limit is UNLIMITED_REBASE, or     *)
(* there is no ether in the pool.                                          *)
(***************************************************************************)
RebaseIsLimited ==
  LET gain     == clBalance' - clBalance - (clValidators' - clValidators) * DEPOSIT_SIZE
      maxEther == MaxPooledEther(maxPositiveTokenRebase, TotalPooledEther)
      surplus  == TotalPooledEther + gain - maxEther
      limited  == TotalPooledEther' - (IF surplus > 0 THEN surplus ELSE 0)
      isOff    == IsUnlimited(InitLimiterState(maxPositiveTokenRebase, TotalPooledEther, totalShares))
  IN  reports' # reports /\ ~isOff =>
        limited * totalShares * LIMITER_PRECISION_BASE
          <= TotalPooledEther * totalShares' * (LIMITER_PRECISION_BASE + maxPositiveTokenRebase)
             + TotalPooledEther * totalShares

RebasesAreLimited == [][RebaseIsLimited]_vars

(***************************************************************************)
(* The accounting is a pool of shares.  Ether is conserved by everything   *)
(* but stakes, the income of the vaults and the validators' rewards and    *)
(* losses; and a report without a loss does not make a share cheaper,      *)
(* whatever was submitted since the rate it finalizes at was simulated:    *)
(* neither the fee nor the withdrawals are paid by the other holders.      *)
(***************************************************************************)
SharePool == INSTANCE Pool WITH
  buffer     <- bufferedEther,
  validators <- clBalance + TransientBalance,
  vaults     <- withdrawalVault + elRewardsVault,
  locked     <- lockedEtherAmount,
  shares     <- totalShares

ImplementsPool == SharePool!Spec

(***************************************************************************)
(* A report that was right when it was gathered is not refused later,      *)
(* whatever was submitted, deposited, requested and burnt since: the ether *)
(* it locks is still there, the share rate close enough, and the requests  *)
(* it finalizes are worth a wei.                                           *)
(***************************************************************************)
GatheredReportIsAccepted ==
  /\ report # NoReport => CanHandle(report)
  /\ FinalizationLocksEther

==============================================================================

----------------------------- MODULE StakingRouter -----------------------------
(***************************************************************************)
(* StakingRouter: the registered staking modules, the deposits it forwards *)
(* to them and the exited validators it learns from the accounting oracle. *)
(*                                                                         *)
(* The module contracts are kept here as the router sees them: per node    *)
(* operator the deposited, exited, stuck and refunded validators, the keys *)
(* ready for deposit and the nonce.  Their own rules are those of          *)
(* NodeOperatorsRegistry, reduced to what the router's calls touch.        *)
(* Operations that are part of a larger transaction are actions the caller *)
(* conjoins; what a series of calls does to the contracts is an operator   *)
(* that says whether it reverted.                                          *)
(***************************************************************************)
EXTENDS MinFirstAllocation

CONSTANTS
  Contracts,                   \* addresses of staking module contracts
  Operators,                   \* ids of the node operators of a module
  Credentials,                 \* withdrawal credentials
  ZeroCredentials,
  TOTAL_BASIS_POINTS,
  FEE_PRECISION_POINTS,
  MAX_STAKING_MODULES_COUNT

ASSUME StakingRouterAssumption ==
  /\ Operators \subseteq Nat
  /\ IsFiniteSet(Operators)
  /\ ZeroCredentials \notin Credentials
  /\ {TOTAL_BASIS_POINTS, FEE_PRECISION_POINTS, MAX_STAKING_MODULES_COUNT} \subseteq Nat \ {0}

VARIABLES
  stakingModules,          \* by id: modules are never removed, so the id is the position
  withdrawalCredentials,   \* WITHDRAWAL_CREDENTIALS_POSITION
  contracts                \* state of the module contracts

routerVars == <<stakingModules, withdrawalCredentials, contracts>>

Counts == [Operators -> Nat]

StakingModule ==
  [contract : Contracts, targetShare : Nat, stakingModuleFee : Nat, treasuryFee : Nat,
   status : {"Active", "DepositsPaused", "Stopped"},
   exitedValidatorsCount : Nat, lastDepositBlock : Nat]

(***************************************************************************)
(* A key ready for deposit is known by its operator and the credentials it *)
(* was signed for; "settled" are the counts the module was last told to be *)
(* complete, by which it distributes rewards and penalties.                *)
(***************************************************************************)
ReadyKey == Operators \X (Credentials \union {ZeroCredentials})

SettledCounts == [exited : Counts, stuck : Counts]

ModuleContract ==
  [deposited : Counts, exited : Counts, stuck : Counts, refunded : Counts,
   ready : Seq(ReadyKey), nonce : Nat,
   settled : SettledCounts]

StakingRouterTypeOK ==
  /\ stakingModules \in Seq(StakingModule)
  /\ Len(stakingModules) <= MAX_STAKING_MODULES_COUNT
  /\ withdrawalCredentials \in Credentials \union {ZeroCredentials}
  /\ contracts \in [Contracts -> ModuleContract]

Registered(id) == id \in DOMAIN stakingModules

RegisteredContracts == {stakingModules[id].contract : id \in DOMAIN stakingModules}

TotalExited(c) == SumFunction(contracts[c].exited)

TotalDeposited(c) == SumFunction(contracts[c].deposited)

------------------------------------------------------------------------------

(***************************************************************************)
(* The module contracts.  A count may repeat the known one, exits do not   *)
(* decrease unless corrected, and exited and stuck stay among the          *)
(* deposited.  An operator with more validators stuck than were refunded   *)
(* is penalized: none of its keys is ready, until one becomes so again.    *)
(***************************************************************************)
Penalized(m, op) == m.refunded[op] < m.stuck[op]

KeysWithout(ready, op) ==
  FoldLeft(LAMBDA kept, key : IF key[1] = op THEN kept ELSE Append(kept, key), <<>>, ready)

WithoutPenalizedKeys(m, op) ==
  IF Penalized(m, op) THEN [m EXCEPT !.ready = KeysWithout(@, op)] ELSE m

StuckIsValid(m, op, count) ==
  count = m.stuck[op] \/ count + m.exited[op] <= m.deposited[op]

ExitedIsValid(m, op, count, allowDecrease) ==
  \/ count = m.exited[op]
  \/ /\ allowDecrease \/ count > m.exited[op]
     /\ count + m.stuck[op] <= m.deposited[op]

WithStuck(m, op, count) == WithoutPenalizedKeys([m EXCEPT !.stuck[op] = count], op)

WithExited(m, op, count) == [m EXCEPT !.exited[op] = count]

(***************************************************************************)
(* updateStuckValidatorsCount and updateExitedValidatorsCount, for a list  *)
(* of operators with their counts.                                         *)
(***************************************************************************)
UpdateStuckValidatorsCount(m, counts) ==
  LET one(r, c) ==
        IF c[1] \in Operators /\ StuckIsValid(r.module, c[1], c[2])
        THEN [r EXCEPT !.module = WithStuck(@, c[1], c[2])]
        ELSE [r EXCEPT !.reverted = TRUE]
  IN  FoldLeft(one, [reverted |-> FALSE, module |-> [m EXCEPT !.nonce = @ + 1]], counts)

UpdateExitedValidatorsCount(m, counts) ==
  LET one(r, c) ==
        IF c[1] \in Operators /\ ExitedIsValid(r.module, c[1], c[2], FALSE)
        THEN [r EXCEPT !.module = WithExited(@, c[1], c[2])]
        ELSE [r EXCEPT !.reverted = TRUE]
  IN  FoldLeft(one, [reverted |-> FALSE, module |-> [m EXCEPT !.nonce = @ + 1]], counts)

(***************************************************************************)
(* updateRefundedValidatorsCount of a module: the only change of its keys  *)
(* that leaves its nonce as it is.                                         *)
(***************************************************************************)
WithRefunded(m, op, count) == WithoutPenalizedKeys([m EXCEPT !.refunded[op] = count], op)

OnExitedAndStuckValidatorsCountsUpdated(m) ==
  [m EXCEPT !.settled = [exited |-> m.exited, stuck |-> m.stuck]]

OnWithdrawalCredentialsChanged(m) ==
  IF m.ready = <<>> THEN m ELSE [m EXCEPT !.ready = <<>>, !.nonce = @ + 1]

ObtainDepositData(m, count) ==
  LET keys == SubSeq(m.ready, 1, count)
  IN  [m EXCEPT !.ready = SubSeq(@, count + 1, Len(@)),
                !.nonce = @ + 1,
                !.deposited = [op \in Operators |->
                   @[op] + Cardinality({i \in DOMAIN keys : keys[i][1] = op})]]

(***************************************************************************)
(* Operators add and remove keys; here this stands for whatever makes one  *)
(* more or one less key ready, with a new nonce: vetting, limits, and the  *)
(* end of a penalty.                                                       *)
(***************************************************************************)
AddSigningKey(c, op) ==
  /\ ~Penalized(contracts[c], op)
  /\ contracts' = [contracts EXCEPT ![c].ready = Append(@, <<op, withdrawalCredentials>>),
                                    ![c].nonce = @ + 1]
  /\ UNCHANGED <<stakingModules, withdrawalCredentials>>

RemoveSigningKey(c) ==
  /\ contracts[c].ready # <<>>
  /\ contracts' = [contracts EXCEPT ![c].ready = Front(@), ![c].nonce = @ + 1]
  /\ UNCHANGED <<stakingModules, withdrawalCredentials>>

------------------------------------------------------------------------------

(***************************************************************************)
(* Exited validators, in total from the main data of a report and by node  *)
(* operator from its extra data.  "reported" lists ids with their counts.  *)
(***************************************************************************)
ExitedCountsAreValid(reported) ==
  \A i \in DOMAIN reported :
    LET id == reported[i][1]
    IN  /\ Registered(id)
        /\ reported[i][2] >= stakingModules[id].exitedValidatorsCount
        /\ reported[i][2] <= TotalDeposited(stakingModules[id].contract)

UpdateExitedValidatorsCountByStakingModule(reported) ==
  /\ ExitedCountsAreValid(reported)
  /\ stakingModules' =
       FoldLeft(LAMBDA modules, r : [modules EXCEPT ![r[1]].exitedValidatorsCount = r[2]],
                stakingModules, reported)
  /\ UNCHANGED withdrawalCredentials

(***************************************************************************)
(* reportStakingModule{Stuck, Exited}ValidatorsCountByNodeOperator, on the *)
(* contracts "cs" that earlier calls of the transaction left.              *)
(***************************************************************************)
ReportByNodeOperator(cs, id, counts, kind) ==
  IF Registered(id) /\ counts # <<>>
  THEN LET c == stakingModules[id].contract
           r == IF kind = "stuck" THEN UpdateStuckValidatorsCount(cs[c], counts)
                                  ELSE UpdateExitedValidatorsCount(cs[c], counts)
       IN  [reverted |-> r.reverted, contracts |-> [cs EXCEPT ![c] = r.module]]
  ELSE [reverted |-> TRUE, contracts |-> cs]

(***************************************************************************)
(* onValidatorsCountsByNodeOperatorReportingFinished: only a module all of *)
(* whose exits were reported by operator is told; one that fails is passed *)
(* over.                                                                   *)
(***************************************************************************)
ReportingFinished(cs, failing) ==
  [c \in Contracts |->
     IF /\ c \notin failing
        /\ \E id \in DOMAIN stakingModules :
             /\ stakingModules[id].contract = c
             /\ stakingModules[id].exitedValidatorsCount = SumFunction(cs[c].exited)
     THEN OnExitedAndStuckValidatorsCountsUpdated(cs[c])
     ELSE cs[c]]

UnsafeSetExitedValidatorsCount(id, op, triggerUpdateFinish, correction) ==
  /\ Registered(id)
  /\ LET c       == stakingModules[id].contract
         m       == contracts[c]
         stuck   == WithStuck(m, op, correction.newNodeOperatorStuckValidatorsCount)
         updated == [WithExited(stuck, op, correction.newNodeOperatorExitedValidatorsCount)
                       EXCEPT !.nonce = @ + 1]
     IN  /\ correction.currentModuleExitedValidatorsCount = stakingModules[id].exitedValidatorsCount
         /\ correction.currentNodeOperatorExitedValidatorsCount = m.exited[op]
         /\ correction.currentNodeOperatorStuckValidatorsCount = m.stuck[op]
         /\ StuckIsValid(m, op, correction.newNodeOperatorStuckValidatorsCount)
         /\ ExitedIsValid(stuck, op, correction.newNodeOperatorExitedValidatorsCount, TRUE)
         /\ stakingModules' = [stakingModules EXCEPT ![id].exitedValidatorsCount =
                                 correction.newModuleExitedValidatorsCount]
         /\ contracts' = [contracts EXCEPT ![c] =
              IF triggerUpdateFinish THEN OnExitedAndStuckValidatorsCountsUpdated(updated)
                                     ELSE updated]
  /\ UNCHANGED withdrawalCredentials

------------------------------------------------------------------------------

(***************************************************************************)
(* updateRefundedValidatorsCount: at most all deposited validators.        *)
(***************************************************************************)
UpdateRefundedValidatorsCount(id, op, count) ==
  /\ Registered(id)
  /\ op \in Operators
  /\ LET c == stakingModules[id].contract
     IN  /\ count = contracts[c].refunded[op] \/ count <= contracts[c].deposited[op]
         /\ contracts' = [contracts EXCEPT ![c] = WithRefunded(@, op, count)]
  /\ UNCHANGED <<stakingModules, withdrawalCredentials>>

------------------------------------------------------------------------------

(***************************************************************************)
(* The router's view of a module: the module may not know all exits yet,   *)
(* and after a correction the router may not.                              *)
(***************************************************************************)
OwnActiveValidatorsCount(id) ==   \* mutant: the exits the module knows
  LET c == stakingModules[id].contract IN TotalDeposited(c) - TotalExited(c)

ActiveValidatorsCount(id) ==
  LET c == stakingModules[id].contract
  IN  TotalDeposited(c) - Max({stakingModules[id].exitedValidatorsCount, TotalExited(c)})

AvailableValidatorsCount(id) ==
  IF stakingModules[id].status = "Active"
  THEN Len(contracts[stakingModules[id].contract].ready)
  ELSE 0

TotalActiveValidators ==
  SumFunction([id \in DOMAIN stakingModules |-> ActiveValidatorsCount(id)])

(***************************************************************************)
(* _getDepositsAllocation and getStakingModuleMaxDepositsCount, for so     *)
(* many deposits to allocate: a module is filled up to its target share of *)
(* all the validators there will be, and with the keys it has.             *)
(***************************************************************************)
DepositsAllocation(depositsToAllocate) ==
  LET total == TotalActiveValidators + depositsToAllocate
      active == [id \in DOMAIN stakingModules |-> ActiveValidatorsCount(id)]
      capacities == [id \in DOMAIN stakingModules |->
        Min({(stakingModules[id].targetShare * total) \div TOTAL_BASIS_POINTS,
             active[id] + AvailableValidatorsCount(id)})]
  IN  Allocate(active, capacities, depositsToAllocate)

MaxDepositsCount(id, depositsToAllocate) ==
  DepositsAllocation(depositsToAllocate)[id] - ActiveValidatorsCount(id)

(***************************************************************************)
(* getStakingRewardsDistribution: a stopped module's part goes to the      *)
(* treasury.  "totalFee" is what the modules and the treasury take.        *)
(***************************************************************************)
ValidatorsShare(id) ==
  (ActiveValidatorsCount(id) * FEE_PRECISION_POINTS) \div TotalActiveValidators

FeeOf(id, fee) == (ValidatorsShare(id) * fee) \div TOTAL_BASIS_POINTS

StakingRewardsDistribution ==
  IF TotalActiveValidators = 0
  THEN [modulesFee |-> [id \in DOMAIN stakingModules |-> 0], totalFee |-> 0]
  ELSE [modulesFee |-> [id \in DOMAIN stakingModules |->
                          IF stakingModules[id].status = "Stopped" THEN 0
                          ELSE FeeOf(id, stakingModules[id].stakingModuleFee)],
        totalFee |-> SumFunction([id \in DOMAIN stakingModules |->
                       FeeOf(id, stakingModules[id].stakingModuleFee)
                         + FeeOf(id, stakingModules[id].treasuryFee)])]

(***************************************************************************)
(* deposit, called by Lido with the ether for "count" deposits.            *)
(***************************************************************************)
RouterDeposit(id, count, block) ==
  /\ withdrawalCredentials # ZeroCredentials
  /\ Registered(id)
  /\ stakingModules[id].status = "Active"
  /\ LET c == stakingModules[id].contract
     IN  /\ count <= Len(contracts[c].ready)
         /\ stakingModules' = [stakingModules EXCEPT ![id].lastDepositBlock = block]
         /\ contracts' = IF count = 0 THEN contracts
                         ELSE [contracts EXCEPT ![c] = ObtainDepositData(@, count)]
  /\ UNCHANGED withdrawalCredentials

------------------------------------------------------------------------------

(***************************************************************************)
(* Management.  A new module starts with a deposit of nothing, so that the *)
(* distance between deposits applies to its first.                         *)
(***************************************************************************)
SharesAreValid(targetShare, fee, treasuryFee) ==
  /\ targetShare <= TOTAL_BASIS_POINTS
  /\ fee + treasuryFee <= TOTAL_BASIS_POINTS

AddStakingModule(c, targetShare, fee, treasuryFee, block) ==
  /\ SharesAreValid(targetShare, fee, treasuryFee)
  /\ Len(stakingModules) < MAX_STAKING_MODULES_COUNT
  /\ c \notin RegisteredContracts
  /\ stakingModules' = Append(stakingModules,
       [contract |-> c, targetShare |-> targetShare, stakingModuleFee |-> fee,
        treasuryFee |-> treasuryFee, status |-> "Active",
        exitedValidatorsCount |-> 0, lastDepositBlock |-> block])
  /\ UNCHANGED <<withdrawalCredentials, contracts>>

UpdateStakingModule(id, targetShare, fee, treasuryFee) ==
  /\ SharesAreValid(targetShare, fee, treasuryFee)
  /\ Registered(id)
  /\ stakingModules' = [stakingModules EXCEPT ![id].targetShare = targetShare,
                                              ![id].stakingModuleFee = fee,
                                              ![id].treasuryFee = treasuryFee]
  /\ UNCHANGED <<withdrawalCredentials, contracts>>

SetStakingModuleStatus(id, status) ==
  /\ Registered(id)
  /\ stakingModules[id].status # status
  /\ stakingModules' = [stakingModules EXCEPT ![id].status = status]
  /\ UNCHANGED <<withdrawalCredentials, contracts>>

PauseStakingModule(id) ==
  /\ stakingModules[id].status = "Active"
  /\ SetStakingModuleStatus(id, "DepositsPaused")

ResumeStakingModule(id) ==
  /\ stakingModules[id].status = "DepositsPaused"
  /\ SetStakingModuleStatus(id, "Active")

(***************************************************************************)
(* setWithdrawalCredentials: every module drops its keys; a module that    *)
(* fails to, for a stated reason, gets no deposits until it is resumed.    *)
(***************************************************************************)
ChangeWithdrawalCredentials(credentials, failing) ==
  /\ withdrawalCredentials' = credentials
  /\ contracts' = [c \in Contracts |->
       IF c \in RegisteredContracts \ failing
       THEN OnWithdrawalCredentialsChanged(contracts[c]) ELSE contracts[c]]

SetWithdrawalCredentialsOnly(credentials, failing) ==   \* mutant: a failing module stays active
  /\ ChangeWithdrawalCredentials(credentials, failing)
  /\ UNCHANGED stakingModules

SetWithdrawalCredentials(credentials, failing) ==
  /\ ChangeWithdrawalCredentials(credentials, failing)
  /\ stakingModules' = [id \in DOMAIN stakingModules |->
       IF stakingModules[id].contract \in failing
       THEN [stakingModules[id] EXCEPT !.status = "DepositsPaused"] ELSE stakingModules[id]]

==============================================================================

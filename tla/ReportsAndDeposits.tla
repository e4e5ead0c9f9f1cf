-------------------------- MODULE ReportsAndDeposits --------------------------
(***************************************************************************)
(* The oracles, the staking router and the deposit security module         *)
(* together, on the chain they report about.                               *)
(*                                                                         *)
(* The accounting committee agrees on what it gathered at the end of a     *)
(* reference slot; main and extra data follow until the deadline, which is *)
(* the next reference slot.  Meanwhile validators exit or get stuck, the   *)
(* DAO corrects counts, guardians sign and deposits are made, keys and     *)
(* credentials change.  How a committee agrees is modelled in              *)
(* HashConsensus.                                                          *)
(*                                                                         *)
(* A behaviour follows one of the Scenarios, which says who acts; the      *)
(* others stand still, as what they touch is disjoint.                     *)
(***************************************************************************)
EXTENDS AccountingOracle, ValidatorsExitBusOracle, DepositSecurityModule

CONSTANTS
  Scenarios,       \* by name: end, stakingModules, contracts, credentials, guardians,
                   \* depositable
  consensus,       \* the consensus contract at the start
  FRAME_SLOTS,     \* slots between two reference slots
  Malformed,       \* bound: payloads the accounting committee may wrongly agree on
  ExitPayloads,    \* bound: payloads the exit bus committee may agree on
  Limits,          \* bound: values of settings
  Quorums,         \* bound: quorums of guardians
  Fees,            \* bound: parts of TOTAL_BASIS_POINTS
  MAX_DECISIONS,   \* bound: decisions of the DAO and the owner
  MAX_EVENTS,      \* bound: validators that exit, get stuck, or are freed
  MAX_SIGNATURES,  \* bound: signatures of guardians
  MAX_NONCE,       \* bound: changes of the keys of a module
  MAX_ROOT         \* bound: deposits made by others

ASSUME OraclesAreDistinct == exitBus # accountingOracle

ASSUME BoundsAssumption == Limits \union Quorums \union Fees \subseteq Nat

(***************************************************************************)
(* What is wrong with a malformed accounting report is that the extra data *)
(* it announces does not exist: it passes for the main data, and no call   *)
(* can deliver the rest.                                                   *)
(***************************************************************************)
ASSUME CommitteesAssumption ==
  /\ FRAME_SLOTS \in Nat \ {0}
  /\ \A payload \in Malformed :
       /\ payload[1] = <<>>
       /\ payload[2] = EXTRA_DATA_FORMAT_LIST
       /\ Len(payload[3]) # payload[4]
  /\ ExitPayloads \subseteq Seq(Requests) \X Nat \X Nat

(***************************************************************************)
(* A scenario starts with modules of different contracts, which nobody has *)
(* left yet and whose fees are parts of the rewards, with keys for its     *)
(* credentials, none of them of a penalized operator, and with different   *)
(* guardians.                                                              *)
(***************************************************************************)
ASSUME ScenariosAssumption ==
  \A name \in DOMAIN Scenarios :
    LET s == Scenarios[name]
    IN  /\ s.stakingModules \in Seq(StakingModule)
        /\ Len(s.stakingModules) <= MAX_STAKING_MODULES_COUNT
        /\ IsInjective([id \in DOMAIN s.stakingModules |-> s.stakingModules[id].contract])
        /\ \A id \in DOMAIN s.stakingModules :
             /\ s.stakingModules[id].exitedValidatorsCount = 0
             /\ s.stakingModules[id].stakingModuleFee + s.stakingModules[id].treasuryFee
                  <= TOTAL_BASIS_POINTS
        /\ s.contracts \in [Contracts -> ModuleContract]
        /\ \A c \in Contracts : \A op \in Operators :
             LET m == s.contracts[c]
             IN  m.exited[op] = 0 /\ {m.stuck[op], m.refunded[op]} \subseteq 0..m.deposited[op]
        /\ s.depositable \in Nat
        /\ s.credentials \in Credentials
        /\ \A c \in Contracts : \A i \in DOMAIN s.contracts[c].ready :
             LET key == s.contracts[c].ready[i]
             IN  key[2] = s.credentials /\ ~Penalized(s.contracts[c], key[1])
        /\ s.guardians \in Seq(Addresses)
        /\ IsInjective(s.guardians)

VARIABLES
  scenario,
  chain,       \* the truth: exited and stuck validators by operator
  gathered,    \* what the accounting committee saw at the last reference slot
  reported,    \* exited validators at the slot of the last truthful report processed
  events,      \* how often the chain changed
  decisions    \* decisions taken

worldVars == <<scenario, chain, gathered, reported, events, decisions>>
vars == <<baseOracleVars, routerVars, extraData, exitBusVars, securityVars, worldVars>>

Reports   == scenario = "reports"
Exits     == scenario = "exits"
Deposits  == scenario = "deposits"
Trustless == scenario = "consensus" \* consensus contracts that call at will

------------------------------------------------------------------------------

(***************************************************************************)
(* What a truthful committee gathers: modules with more exits than the     *)
(* router knows, and for every module the operators whose counts are not   *)
(* what it knows, stuck ones first.                                        *)
(***************************************************************************)
Ascending(ids) ==
  CHOOSE s \in [1..Cardinality(ids) -> ids] : StrictlyAscending(s)

ContractOf(id) == stakingModules[id].contract

ExitedInTotal(truth, id) == SumFunction(truth[ContractOf(id)].exited)

NewlyExited(truth) ==
  LET ids == Ascending({id \in DOMAIN stakingModules :
                          ExitedInTotal(truth, id) > stakingModules[id].exitedValidatorsCount})
  IN  [i \in DOMAIN ids |-> <<ids[i], ExitedInTotal(truth, ids[i])>>]

CountsToReport(truth, known) ==
  LET ops == Ascending({op \in Operators : truth[op] # known[op]})
  IN  [i \in DOMAIN ops |-> <<ops[i], truth[ops[i]]>>]

ItemsOf(type, truth) ==
  LET kind == ItemTypes[type]
      ids  == Ascending({id \in DOMAIN stakingModules :
                           truth[ContractOf(id)][kind] # contracts[ContractOf(id)][kind]})
  IN  [i \in DOMAIN ids |->
         <<type, ids[i], CountsToReport(truth[ContractOf(ids[i])][kind],
                                        contracts[ContractOf(ids[i])][kind])>>]

Items(truth) == ItemsOf(1, truth) \o ItemsOf(2, truth)

TruthfulPayload(truth) ==
  IF Items(truth) = <<>>
  THEN <<NewlyExited(truth), EXTRA_DATA_FORMAT_EMPTY, ZeroHash, 0>>
  ELSE <<NewlyExited(truth), EXTRA_DATA_FORMAT_LIST, Items(truth), Len(Items(truth))>>

Gathered(refSlot) ==
  [refSlot |-> refSlot, payload |-> TruthfulPayload(chain), truth |-> chain,
   corrected |-> FALSE]

------------------------------------------------------------------------------

KnownCounts == [c \in Contracts |-> [exited |-> contracts[c].exited, stuck |-> contracts[c].stuck]]

Init ==
  /\ scenario \in DOMAIN Scenarios
  /\ now = 1
  /\ oracle = [o \in Oracles |-> Initialized(consensus, 1, 0)]
  /\ stakingModules = Scenarios[scenario].stakingModules
  /\ contracts = Scenarios[scenario].contracts
  /\ withdrawalCredentials = Scenarios[scenario].credentials
  /\ extraData = NoExtraData
  /\ ExitBusInit
  /\ settings = [maxDepositsPerBlock |-> 2, minDepositBlockDistance |-> 1,
                 pauseIntentValidityPeriodBlocks |-> 1]
  /\ owner = "deployer"
  /\ guardians = Scenarios[scenario].guardians
  /\ guardianIndicesOneBased = [g \in Addresses |->
       Max({i \in DOMAIN guardians : guardians[i] = g} \union {0})]
  /\ quorum = Len(guardians)
  /\ depositRoot = 0
  /\ depositable = Scenarios[scenario].depositable
  /\ canDeposit = TRUE
  /\ seen = Look(0)
  /\ attested = {}
  /\ pauseIntents = {}
  /\ chain = KnownCounts
  /\ gathered = Gathered(0)
  /\ reported = [c \in Contracts |-> 0]
  /\ events = 0
  /\ decisions = 0

(***************************************************************************)
(* A slot ends, with one block.                                            *)
(***************************************************************************)
SlotEnds ==
  /\ now < Scenarios[scenario].end
  /\ now' = now + 1
  /\ gathered' = IF Reports /\ now % FRAME_SLOTS = 0 THEN Gathered(now) ELSE gathered
  /\ seen' = IF Deposits THEN Look(now) ELSE seen
  /\ UNCHANGED <<oracle, routerVars, extraData, exitBusVars, settings, owner, guardianVars,
                 lidoVars, attested, pauseIntents, scenario, chain, reported, events, decisions>>

------------------------------------------------------------------------------

(***************************************************************************)
(* The accounting report: agreed on, lost again, its data submitted.       *)
(***************************************************************************)
AccountingCommittee ==
  /\ Reports
  /\ \/ \E payload \in {gathered.payload} \union Malformed :
          SubmitConsensusReport(accountingOracle, consensus,
            [consensusVersion |-> 1, refSlot |-> gathered.refSlot, payload |-> payload],
            gathered.refSlot, gathered.refSlot + FRAME_SLOTS)
     \/ DiscardConsensusReport(accountingOracle, consensus, gathered.refSlot)
  /\ UNCHANGED <<now, routerVars, extraData, exitBusVars, securityVars, worldVars>>

AccountingMainData ==
  /\ Reports
  /\ oracle[accountingOracle].report.hash # ZeroHash
  /\ LET data == oracle[accountingOracle].report.hash
     IN  /\ SubmitMainData(data)
         /\ reported' = IF data.payload = gathered.payload
                        THEN [c \in Contracts |-> SumFunction(gathered.truth[c].exited)]
                        ELSE reported
  /\ UNCHANGED <<exitBusVars, securityVars, scenario, chain, gathered, events, decisions>>

AccountingExtraData ==
  /\ Reports
  /\ \E failing \in SUBSET RegisteredContracts :
       \/ SubmitReportExtraDataEmpty(failing)
       \/ \E items \in {extraData.dataHash, gathered.payload[3]} \ {ZeroHash} :
            SubmitReportExtraDataList(items, failing)
  /\ UNCHANGED <<exitBusVars, securityVars, worldVars>>

(***************************************************************************)
(* The truth moves on; exits are for ever.                                 *)
(***************************************************************************)
ChainMoves(c, op) ==
  LET exits == [chain EXCEPT ![c].exited[op] = @ + 1]
      stuck == [chain EXCEPT ![c].stuck[op] = @ + 1]
      freed == [chain EXCEPT ![c].stuck[op] = @ - 1]
      stuckExits == [freed EXCEPT ![c].exited[op] = @ + 1]
      active == contracts[c].deposited[op] - chain[c].exited[op] - chain[c].stuck[op]
  IN  /\ Reports
      /\ events < MAX_EVENTS
      /\ events' = events + 1
      /\ \/ active > 0 /\ chain' \in {exits, stuck}
         \/ chain[c].stuck[op] > 0 /\ chain' \in {freed, stuckExits}
      /\ UNCHANGED <<baseOracleVars, routerVars, extraData, exitBusVars, securityVars,
                     scenario, gathered, reported, decisions>>

Decides ==
  /\ decisions < MAX_DECISIONS
  /\ decisions' = decisions + 1

(***************************************************************************)
(* The DAO corrects the counts of an operator to what they are now.        *)
(***************************************************************************)
DaoCorrects(id, op, triggerUpdateFinish) ==
  LET c == stakingModules[id].contract
  IN  /\ Reports
      /\ Decides
      /\ UnsafeSetExitedValidatorsCount(id, op, triggerUpdateFinish,
           [currentModuleExitedValidatorsCount       |-> stakingModules[id].exitedValidatorsCount,
            currentNodeOperatorExitedValidatorsCount |-> contracts[c].exited[op],
            currentNodeOperatorStuckValidatorsCount  |-> contracts[c].stuck[op],
            newModuleExitedValidatorsCount           |-> SumFunction(chain[c].exited),
            newNodeOperatorExitedValidatorsCount     |-> chain[c].exited[op],
            newNodeOperatorStuckValidatorsCount      |-> chain[c].stuck[op]])
      /\ gathered' = [gathered EXCEPT !.corrected = TRUE]
      /\ UNCHANGED <<baseOracleVars, extraData, exitBusVars, securityVars,
                     scenario, chain, reported, events>>

------------------------------------------------------------------------------

(***************************************************************************)
(* The exit bus, with a committee that agrees on anything; and consensus   *)
(* contracts that call with any slot and deadline, one replacing another.  *)
(***************************************************************************)
ExitBusCommittee ==
  /\ Exits
  /\ \E payload \in ExitPayloads :
       SubmitConsensusReport(exitBus, consensus,
         [consensusVersion |-> 1, refSlot |-> now - 1, payload |-> payload],
         now - 1, now - 1 + FRAME_SLOTS)
  /\ UNCHANGED <<now, routerVars, extraData, exitBusVars, securityVars, worldVars>>

ExitBusData ==
  /\ Exits \/ Trustless
  /\ \E data \in {oracle[exitBus].report.hash} \ {ZeroHash} : SubmitExitRequests(data)
  /\ UNCHANGED <<routerVars, extraData, securityVars, worldVars>>

ExitBusPauses ==
  /\ Exits
  /\ \/ Resume
     \/ \E duration \in {1, PAUSE_INFINITELY} : PauseFor(duration)
     \/ PauseUntil(now + 1)
  /\ UNCHANGED <<routerVars, extraData, securityVars, worldVars>>

AnyConsensusContract ==
  /\ Trustless
  /\ \E c \in ConsensusContracts, r \in RefSlots :
       \/ /\ \/ DiscardConsensusReport(exitBus, c, r)
             \/ \E v \in ConsensusVersions, s \in RefSlots, deadline \in {now, now + 1} :
                  SubmitConsensusReport(exitBus, c,
                    [consensusVersion |-> v, refSlot |-> s, payload |-> <<<<>>, 0, 1>>], r, deadline)
          /\ UNCHANGED now
       \/ SetConsensusContract(exitBus, c, r)
  /\ UNCHANGED <<routerVars, extraData, exitBusVars, securityVars, worldVars>>

AnyVersionOrPause ==
  /\ Trustless
  /\ \/ /\ \E v \in ConsensusVersions : SetConsensusVersion(exitBus, v)
        /\ UNCHANGED exitBusVars
     \/ Resume
  /\ UNCHANGED <<routerVars, extraData, securityVars, worldVars>>

------------------------------------------------------------------------------

(***************************************************************************)
(* Guardians look at what the last block left, and sign.                   *)
(***************************************************************************)
GuardianSigns(g, id) ==
  /\ Deposits
  /\ Cardinality(attested) + Cardinality(pauseIntents) < MAX_SIGNATURES
  /\ \/ Attest(g, id) /\ UNCHANGED pauseIntents
     \/ SignPause(g, id) /\ UNCHANGED attested
  /\ UNCHANGED <<baseOracleVars, routerVars, extraData, exitBusVars,
                 settings, owner, guardianVars, lidoVars, seen, worldVars>>

(***************************************************************************)
(* Anybody submits the signatures given, in any order and number.          *)
(***************************************************************************)
SomebodyDeposits ==
  /\ Deposits
  /\ \E a \in attested : \E signers \in BoundedSeq({b.guardian : b \in attested}, Len(guardians)) :
       DepositBufferedEther(a, signers, now)
  /\ UNCHANGED <<baseOracleVars, extraData, exitBusVars, settings, owner, guardianVars,
                 canDeposit, signatureVars, worldVars>>

SomebodyPauses ==
  /\ Deposits
  /\ \/ \E g \in ToSet(guardians), id \in DOMAIN stakingModules : PauseDeposits(g, now, id, now)
     \/ \E i \in pauseIntents : PauseDeposits(i.guardian, i.block, i.stakingModuleId, now)
  /\ UNCHANGED <<baseOracleVars, extraData, exitBusVars, securityVars, worldVars>>

(***************************************************************************)
(* Others deposit to the deposit contract; keys come and go.               *)
(***************************************************************************)
OthersDeposit ==
  /\ Deposits
  /\ depositRoot < MAX_ROOT
  /\ depositRoot' = depositRoot + 1
  /\ UNCHANGED <<baseOracleVars, routerVars, extraData, exitBusVars, settings, owner,
                 guardianVars, depositable, canDeposit, signatureVars, worldVars>>

OperatorsManageKeys ==
  /\ Deposits
  /\ \E c \in Contracts :
       /\ contracts[c].nonce < MAX_NONCE
       /\ \/ \E op \in Operators : AddSigningKey(c, op)
          \/ RemoveSigningKey(c)
  /\ UNCHANGED <<baseOracleVars, extraData, exitBusVars, securityVars, worldVars>>

(***************************************************************************)
(* The DAO and the owner of the security module.  They let a module have   *)
(* deposits only when its keys are for the present credentials.            *)
(***************************************************************************)
KeysAreForPresentCredentials(c) ==
  \A i \in DOMAIN contracts[c].ready : contracts[c].ready[i][2] = withdrawalCredentials

DaoManagesRouter ==
  /\ Deposits
  /\ Decides
  /\ \/ \E c \in Contracts, fee \in Fees, treasuryFee \in Fees :
          /\ KeysAreForPresentCredentials(c)
          /\ AddStakingModule(c, TOTAL_BASIS_POINTS, fee, treasuryFee, now)
     \/ \E id \in DOMAIN stakingModules, share \in Fees, fee \in Fees, treasuryFee \in Fees :
          UpdateStakingModule(id, share, fee, treasuryFee)
     \/ \E id \in DOMAIN stakingModules :
          /\ KeysAreForPresentCredentials(stakingModules[id].contract)
          /\ \/ UnpauseDeposits(id)
             \/ \E status \in {"Active", "DepositsPaused", "Stopped"} :
                  SetStakingModuleStatus(id, status)
     \/ \E id \in DOMAIN stakingModules, op \in Operators, count \in Limits :
          UpdateRefundedValidatorsCount(id, op, count)
     \/ \E credentials \in Credentials \union {ZeroCredentials}, failing \in SUBSET RegisteredContracts :
          SetWithdrawalCredentials(credentials, failing)
  /\ UNCHANGED <<baseOracleVars, extraData, exitBusVars, securityVars,
                 scenario, chain, gathered, reported, events>>

OwnerManagesSecurity ==
  /\ Deposits
  /\ Decides
  /\ \/ /\ \E q \in Quorums :
             \/ \E g \in Addresses : AddGuardian(g, q) \/ RemoveGuardian(g, q)
             \/ SetGuardianQuorum(q)
        /\ UNCHANGED <<settings, owner, lidoVars>>
     \/ /\ \E name \in DOMAIN settings, value \in Limits : SetSetting(name, value)
        /\ UNCHANGED <<owner, guardianVars, lidoVars>>
     \/ SetOwner("agent") /\ UNCHANGED <<settings, guardianVars, lidoVars>>
     \/ /\ canDeposit' = ~canDeposit
        /\ UNCHANGED <<settings, owner, guardianVars, depositRoot, depositable>>
  /\ UNCHANGED <<baseOracleVars, routerVars, extraData, exitBusVars, signatureVars,
                 scenario, chain, gathered, reported, events>>

------------------------------------------------------------------------------

Next ==
  \/ SlotEnds
  \/ AccountingCommittee
  \/ AccountingMainData
  \/ AccountingExtraData
  \/ \E c \in Contracts, op \in Operators : ChainMoves(c, op)
  \/ \E id \in DOMAIN stakingModules, op \in Operators, trigger \in BOOLEAN :
       DaoCorrects(id, op, trigger)
  \/ ExitBusCommittee
  \/ ExitBusData
  \/ ExitBusPauses
  \/ AnyConsensusContract
  \/ AnyVersionOrPause
  \/ \E g \in ToSet(guardians), id \in DOMAIN stakingModules : GuardianSigns(g, id)
  \/ SomebodyDeposits
  \/ SomebodyPauses
  \/ OthersDeposit
  \/ OperatorsManageKeys
  \/ DaoManagesRouter
  \/ OwnerManagesSecurity

Spec == Init /\ [][Next]_vars

------------------------------------------------------------------------------

(***************************************************************************)
(* A truthful report is not refused, at any time in its frame, whatever    *)
(* became of the reports before it: the main data by the router, nor the   *)
(* extra data by the modules, in the order the oracle asks for.  Only a    *)
(* correction made since it was gathered may get in its way                *)
(* (_handleConsensusReportData, _processExtraDataItems).                   *)
(***************************************************************************)
ExtraDataDelivered == extraData.refSlot = gathered.refSlot /\ extraData.submitted

TruthfulReportGoesThrough ==
  Reports /\ ~gathered.corrected =>
    /\ oracle[accountingOracle].lastProcessingRefSlot < gathered.refSlot
         => MainDataIsAccepted(gathered.payload)
    /\ gathered.payload[2] = EXTRA_DATA_FORMAT_LIST /\ ~ExtraDataDelivered
         => ~ProcessExtraDataItems(gathered.payload[3]).reverted

(***************************************************************************)
(* A module is told that its counts are complete only when they are: they  *)
(* are the true counts at the reference slot, and not a mixture of two     *)
(* reports (onValidatorsCountsByNodeOperatorReportingFinished).            *)
(***************************************************************************)
ModulesAreToldTheTruth ==
  [][\A c \in Contracts :
       contracts'[c].settled # contracts[c].settled /\ ~gathered'.corrected
         => contracts'[c].settled = gathered.truth[c]]_vars

(***************************************************************************)
(* The active validators the router counts with, for deposits and fees,    *)
(* leave out every exit of the last truthful report, even while the extra  *)
(* data is missing, and none that did not happen                           *)
(* (_loadStakingModulesCacheItem).  So its subtractions and its assertion  *)
(* hold: no module is allocated fewer validators than it has, none is      *)
(* asked for keys it has not, and fees are at most all of the rewards.     *)
(***************************************************************************)
ActiveCountIsUpToDate ==
  /\ \A id \in DOMAIN stakingModules :
       LET c == stakingModules[id].contract
       IN  /\ ActiveValidatorsCount(id) \in
                (TotalDeposited(c) - SumFunction(chain[c].exited))..(TotalDeposited(c) - reported[c])
           /\ MaxDepositsCount(id, depositable) \in 0..AvailableValidatorsCount(id)
  /\ StakingRewardsDistribution.totalFee <= FEE_PRECISION_POINTS

==============================================================================

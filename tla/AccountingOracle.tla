--------------------------- MODULE AccountingOracle ---------------------------
(***************************************************************************)
(* AccountingOracle: a report comes in two phases.  The main data updates  *)
(* the exited validators by module and starts the extra data phase; the    *)
(* extra data brings stuck and exited validators by node operator.         *)
(*                                                                         *)
(* The payload of a report is <<exited, format, extraHash, itemsCount>>:   *)
(* module ids with their exited validators, and what the extra data will   *)
(* be.  A list of extra data is its own hash; an item is <<type, moduleId, *)
(* counts>>, with counts a sequence of <<operator, count>>.  What the main *)
(* data does to the pool and the withdrawal queue is in Accounting and     *)
(* WithdrawalQueue; the limits of the sanity checker on counts are left    *)
(* out, they only refuse a report.                                         *)
(***************************************************************************)
EXTENDS BaseOracle, StakingRouter

CONSTANT accountingOracle   \* the contract, one of the Oracles

ASSUME AccountingOracleAssumption == accountingOracle \in Oracles

\* No list of extra data has the hash zero.
ASSUME ListsHaveHashes == ZeroHash \notin Seq(Nat \X Nat \X Seq(Nat \X Nat))

VARIABLE extraData   \* EXTRA_DATA_PROCESSING_STATE_POSITION

EXTRA_DATA_FORMAT_EMPTY == 0
EXTRA_DATA_FORMAT_LIST == 1

ItemTypes == <<"stuck", "exited">>   \* EXTRA_DATA_TYPE_*: 1 and 2

NoExtraData ==
  [refSlot |-> 0, dataFormat |-> EXTRA_DATA_FORMAT_EMPTY, submitted |-> FALSE,
   dataHash |-> ZeroHash, itemsCount |-> 0, itemsProcessed |-> 0]

StrictlyAscending(s) == \A i \in 1..Len(s) - 1 : s[i] < s[i + 1]

------------------------------------------------------------------------------

(***************************************************************************)
(* The main data: _handleConsensusReportData.                              *)
(***************************************************************************)
ExtraDataIsDescribed(format, hash, itemsCount) ==
  \/ format = EXTRA_DATA_FORMAT_EMPTY /\ hash = ZeroHash /\ itemsCount = 0
  \/ format = EXTRA_DATA_FORMAT_LIST /\ hash # ZeroHash /\ itemsCount # 0

ExitedByModuleIsAccepted(exited) ==
  /\ StrictlyAscending([i \in DOMAIN exited |-> exited[i][1]])
  /\ \A i \in DOMAIN exited : exited[i][2] # 0
  /\ ExitedCountsAreValid(exited)

MainDataIsAccepted(payload) ==
  /\ ExtraDataIsDescribed(payload[2], payload[3], payload[4])
  /\ ExitedByModuleIsAccepted(payload[1])

SubmitMainData(data) ==
  /\ SubmitReportData(accountingOracle, data)
  /\ MainDataIsAccepted(data.payload)
  /\ UpdateExitedValidatorsCountByStakingModule(data.payload[1])
  /\ extraData' = [refSlot |-> data.refSlot, dataFormat |-> data.payload[2],
                   submitted |-> FALSE, dataHash |-> data.payload[3],
                   itemsCount |-> data.payload[4], itemsProcessed |-> 0]
  /\ UNCHANGED contracts

------------------------------------------------------------------------------

(***************************************************************************)
(* The extra data: _checkCanSubmitExtraData and the two ways to submit it. *)
(***************************************************************************)
MainDataIsProcessed ==
  /\ oracle[accountingOracle].report.hash # ZeroHash
  /\ extraData.refSlot = oracle[accountingOracle].report.refSlot

NotTooLate == now <= oracle[accountingOracle].report.processingDeadlineTime

CanSubmitEvenForAnEarlierSlot(format) ==   \* mutant: the slot is not compared
  /\ oracle[accountingOracle].report.hash # ZeroHash
  /\ NotTooLate
  /\ extraData.dataFormat = format

CanSubmitEvenIfLate(format) ==   \* mutant: no deadline
  /\ MainDataIsProcessed
  /\ extraData.dataFormat = format

CanSubmitInAnyFormat(format) ==   \* mutant: the format is not compared
  /\ MainDataIsProcessed
  /\ NotTooLate

CanSubmitExtraData(format) ==
  /\ MainDataIsProcessed
  /\ NotTooLate
  /\ extraData.dataFormat = format

SubmitReportExtraDataEmpty(failing) ==
  /\ CanSubmitExtraData(EXTRA_DATA_FORMAT_EMPTY)
  /\ ~extraData.submitted
  /\ contracts' = ReportingFinished(contracts, failing)
  /\ extraData' = [extraData EXCEPT !.submitted = TRUE]
  /\ UNCHANGED <<baseOracleVars, stakingModules, withdrawalCredentials>>

(***************************************************************************)
(* _processExtraDataItems: items come in the order of their type, module   *)
(* and first node operator.                                                *)
(***************************************************************************)
SortingKey(item) == <<item[1], item[2], item[3][1][1]>>

Before(a, b) ==
  \/ a[1] < b[1]
  \/ a[1] = b[1] /\ a[2] < b[2]
  \/ a[1] = b[1] /\ a[2] = b[2] /\ a[3] < b[3]

Reported(cs, item) ==
  ReportByNodeOperator(cs, item[2], item[3], ItemTypes[item[1]])

ProcessExtraDataItem(state, item) ==
  IF /\ item[1] \in DOMAIN ItemTypes
     /\ item[2] # 0
     /\ item[3] # <<>>
     /\ Before(state.lastSortingKey, SortingKey(item))
  THEN LET r == Reported(state.contracts, item)
       IN  [reverted       |-> state.reverted \/ r.reverted,
            contracts      |-> r.contracts,
            lastSortingKey |-> SortingKey(item)]
  ELSE [state EXCEPT !.reverted = TRUE]

ProcessExtraDataItems(items) ==
  FoldLeft(ProcessExtraDataItem,
           [reverted |-> items = <<>>, contracts |-> contracts, lastSortingKey |-> <<0, 0, 0>>],
           items)

SubmitReportExtraDataList(items, failing) ==
  LET result == ProcessExtraDataItems(items)
  IN  /\ CanSubmitExtraData(EXTRA_DATA_FORMAT_LIST)
      /\ extraData.itemsProcessed = 0    \* and so not itemsCount, which is not 0
      /\ items = extraData.dataHash
      /\ ~result.reverted
      /\ Len(items) = extraData.itemsCount
      /\ extraData' = [extraData EXCEPT !.submitted = TRUE, !.itemsProcessed = Len(items)]
      /\ contracts' = ReportingFinished(result.contracts, failing)
      /\ UNCHANGED <<baseOracleVars, stakingModules, withdrawalCredentials>>

------------------------------------------------------------------------------

(***************************************************************************)
(* AccountingOracle implements TwoPhaseReports.                            *)
(***************************************************************************)
TwoPhase == INSTANCE TwoPhaseReports WITH
  agreed    <- IF oracle[accountingOracle].report.hash = ZeroHash THEN {}
               ELSE {oracle[accountingOracle].report.refSlot},
  main      <- oracle[accountingOracle].lastProcessingRefSlot,
  delivered <- extraData.submitted

(***************************************************************************)
(* Extra data is taken once, after the main data of its report and before  *)
(* a later report is agreed on (_checkCanSubmitExtraData).                 *)
(***************************************************************************)
ImplementsTwoPhaseReports == TwoPhase!Spec

==============================================================================

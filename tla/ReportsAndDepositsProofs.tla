----------------------- MODULE ReportsAndDepositsProofs -----------------------
(***************************************************************************)
(* Theorems about ReportsAndDeposits, for any scenarios, modules,          *)
(* operators, credentials, guardians and bounds: first the two phases of   *)
(* an accounting report, then the deposits, the requests of the exit bus,  *)
(* and last the counts of validators in reports, deposits and fees.        *)
(***************************************************************************)
EXTENDS ReportsAndDeposits, AllocationProofs

(***************************************************************************)
(* The two phases of an accounting report.  The invariant orders three     *)
(* slots, that of the extra data, of the processing and of the stored      *)
(* report, so that extra data for the slot of the stored report is for     *)
(* the slot being processed; and it relates the two marks of extra data    *)
(* that was taken, as a list is refused by itemsProcessed and not by       *)
(* submitted.                                                              *)
(***************************************************************************)
Report == oracle[accountingOracle].report

Processing == oracle[accountingOracle].lastProcessingRefSlot

WellFormed ==
  /\ DOMAIN oracle = Oracles
  /\ DOMAIN oracle[accountingOracle] = DOMAIN Initialized(consensus, 1, 0)
  /\ DOMAIN Report = {"hash", "refSlot", "processingDeadlineTime"}
  /\ DOMAIN extraData = DOMAIN NoExtraData
  /\ DOMAIN gathered = {"refSlot", "payload", "truth", "corrected"}
  /\ now \in Int
  /\ gathered.refSlot \in Int

SlotsAreOrdered ==
  /\ {extraData.refSlot, Processing, Report.refSlot} \subseteq Int
  /\ extraData.refSlot <= Processing
  /\ Processing <= Report.refSlot

ExtraDataIsMarked ==
  /\ extraData.submitted \in BOOLEAN
  /\ extraData.dataFormat = EXTRA_DATA_FORMAT_LIST =>
       /\ extraData.itemsCount # 0
       /\ extraData.submitted => extraData.itemsProcessed # 0

PhasesInv == WellFormed /\ SlotsAreOrdered /\ ExtraDataIsMarked

(***************************************************************************)
(* What a step does to the accounting oracle: nothing, or one of these.    *)
(***************************************************************************)
OracleUnchanged == oracle'[accountingOracle] = oracle[accountingOracle]

ReportChanges ==
  /\ DOMAIN oracle'[accountingOracle] = DOMAIN oracle[accountingOracle]
  /\ DOMAIN Report' = DOMAIN Report
  /\ oracle'[accountingOracle].lastProcessingRefSlot = Processing
  /\ \/ Report'.hash # ZeroHash /\ Report'.refSlot = gathered.refSlot
        /\ gathered.refSlot >= Report.refSlot /\ gathered.refSlot > Processing
     \/ Report'.hash = ZeroHash /\ Report'.refSlot = Report.refSlot
        /\ Report.refSlot > Processing
  /\ UNCHANGED extraData

MainDataTaken ==
  /\ DOMAIN oracle'[accountingOracle] = DOMAIN oracle[accountingOracle]
  /\ Report' = Report
  /\ Report.hash # ZeroHash
  /\ Processing # Report.refSlot
  /\ oracle'[accountingOracle].lastProcessingRefSlot = Report.refSlot
  /\ DOMAIN extraData' = DOMAIN NoExtraData
  /\ extraData'.refSlot = Report.refSlot
  /\ extraData'.submitted = FALSE
  /\ extraData'.dataFormat = EXTRA_DATA_FORMAT_LIST => extraData'.itemsCount # 0

ExtraDataTaken ==
  /\ OracleUnchanged
  /\ Report.hash # ZeroHash
  /\ extraData.refSlot = Report.refSlot
  /\ DOMAIN extraData' = DOMAIN extraData
  /\ extraData'.refSlot = extraData.refSlot
  /\ extraData'.submitted = TRUE
  /\ extraData'.dataFormat = extraData.dataFormat
  /\ extraData'.itemsCount = extraData.itemsCount
  /\ \/ extraData.dataFormat = EXTRA_DATA_FORMAT_EMPTY /\ ~extraData.submitted
     \/ /\ extraData.dataFormat = EXTRA_DATA_FORMAT_LIST
        /\ extraData.itemsProcessed = 0
        /\ extraData'.itemsProcessed = extraData.itemsCount

NoPhase == OracleUnchanged /\ UNCHANGED extraData

Clocks ==
  /\ DOMAIN oracle' = Oracles
  /\ DOMAIN gathered' = DOMAIN gathered
  /\ now' \in Int
  /\ gathered'.refSlot \in Int

Phase ==
  /\ Clocks
  /\ NoPhase \/ ReportChanges \/ MainDataTaken \/ ExtraDataTaken

LEMMA CommitteeIsAPhase ==
  ASSUME PhasesInv, AccountingCommittee
  PROVE  Phase
<1> USE AccountingOracleAssumption DEF PhasesInv, WellFormed, worldVars
<1>1. Clocks /\ UNCHANGED extraData
  BY DEF AccountingCommittee, SubmitConsensusReport, DiscardConsensusReport, Clocks
<1>2. CASE DiscardConsensusReport(accountingOracle, consensus, gathered.refSlot)
  <2>1. CASE oracle' = oracle
    BY <1>1, <2>1 DEF Phase, NoPhase, OracleUnchanged
  <2>2. CASE /\ gathered.refSlot = Report.refSlot
             /\ Report.refSlot > Processing
             /\ oracle' = [oracle EXCEPT ![accountingOracle].report.hash = ZeroHash]
    <3>1. oracle'[accountingOracle] = [oracle[accountingOracle] EXCEPT !.report.hash = ZeroHash]
      BY <2>2
    <3>2. Report' = [Report EXCEPT !.hash = ZeroHash]
          /\ oracle'[accountingOracle].lastProcessingRefSlot = Processing
          /\ DOMAIN oracle'[accountingOracle] = DOMAIN oracle[accountingOracle]
      BY <3>1 DEF Report, Processing, Initialized
    <3>3. QED
      BY <1>1, <2>2, <3>2 DEF Phase, ReportChanges
  <2>3. QED
    BY <1>2, <2>1, <2>2 DEF DiscardConsensusReport, Report, Processing, SlotsAreOrdered
<1>3. ASSUME NEW hash,
             SubmitConsensusReport(accountingOracle, consensus, hash,
                                   gathered.refSlot, gathered.refSlot + FRAME_SLOTS)
      PROVE  Phase
  BY <1>1, <1>3
  DEF SubmitConsensusReport, Phase, ReportChanges, Report, Processing
<1>4. QED
  BY <1>2, <1>3 DEF AccountingCommittee

LEMMA MainDataIsAPhase ==
  ASSUME PhasesInv, AccountingMainData
  PROVE  Phase
<1> USE AccountingOracleAssumption DEF PhasesInv, WellFormed
<1> DEFINE data == Report.hash
<1>1. SubmitMainData(data) /\ Report.hash # ZeroHash /\ UNCHANGED gathered
  BY DEF AccountingMainData, Report
<1>2. SubmitReportData(accountingOracle, data) /\ data.refSlot = Report.refSlot
  BY <1>1 DEF SubmitMainData, SubmitReportData, CheckConsensusData, Report
<1>3. oracle' = [oracle EXCEPT ![accountingOracle].lastProcessingRefSlot = Report.refSlot]
      /\ Processing # Report.refSlot /\ UNCHANGED now
  BY <1>2 DEF SubmitReportData, StartProcessing, Report, Processing
<1>4. Clocks
  BY <1>1, <1>3 DEF Clocks
<1>5. /\ extraData' = [refSlot |-> data.refSlot, dataFormat |-> data.payload[2],
                       submitted |-> FALSE, dataHash |-> data.payload[3],
                       itemsCount |-> data.payload[4], itemsProcessed |-> 0]
      /\ ExtraDataIsDescribed(data.payload[2], data.payload[3], data.payload[4])
  BY <1>1 DEF SubmitMainData, MainDataIsAccepted
<1> HIDE DEF data
<1>6. extraData'.dataFormat = EXTRA_DATA_FORMAT_LIST => extraData'.itemsCount # 0
  BY <1>5 DEF ExtraDataIsDescribed, EXTRA_DATA_FORMAT_EMPTY, EXTRA_DATA_FORMAT_LIST
<1>7. DOMAIN extraData' = DOMAIN NoExtraData /\ extraData'.refSlot = Report.refSlot
      /\ extraData'.submitted = FALSE
  BY <1>2, <1>5 DEF NoExtraData
<1>8. DOMAIN oracle'[accountingOracle] = DOMAIN oracle[accountingOracle] /\ Report' = Report
      /\ oracle'[accountingOracle].lastProcessingRefSlot = Report.refSlot
  BY <1>3 DEF Report, Initialized
<1>9. QED
  BY <1>1, <1>3, <1>4, <1>6, <1>7, <1>8 DEF Phase, MainDataTaken

LEMMA ExtraDataIsAPhase ==
  ASSUME PhasesInv, AccountingExtraData
  PROVE  Phase
<1> USE DEF PhasesInv, WellFormed, worldVars, baseOracleVars
<1>1. ASSUME NEW failing, SubmitReportExtraDataEmpty(failing)
      PROVE  /\ OracleUnchanged /\ ExtraDataTaken
             /\ UNCHANGED oracle /\ UNCHANGED now
  BY <1>1 DEF SubmitReportExtraDataEmpty, CanSubmitExtraData, MainDataIsProcessed, ExtraDataTaken,
              OracleUnchanged, Report, NoExtraData
<1>2. ASSUME NEW items, NEW failing, SubmitReportExtraDataList(items, failing)
      PROVE  /\ OracleUnchanged /\ ExtraDataTaken
             /\ UNCHANGED oracle /\ UNCHANGED now
  BY <1>2 DEF SubmitReportExtraDataList, CanSubmitExtraData, MainDataIsProcessed, ExtraDataTaken,
              OracleUnchanged, Report, NoExtraData
<1>3. QED
  BY <1>1, <1>2 DEF AccountingExtraData, Phase, Clocks

LEMMA OthersAreNoPhase ==
  ASSUME PhasesInv, NEW o \in Oracles, o # accountingOracle,
         \/ UNCHANGED oracle
         \/ \E v : oracle' = [oracle EXCEPT ![o] = v],
         UNCHANGED extraData, now' \in Int, DOMAIN gathered' = DOMAIN gathered,
         gathered'.refSlot \in Int
  PROVE  Phase
  BY AccountingOracleAssumption
  DEF PhasesInv, WellFormed, Phase, NoPhase, OracleUnchanged, Clocks

LEMMA NextIsAPhase == ASSUME PhasesInv, [Next]_vars PROVE Phase
<1> USE ExitBusAssumption, OraclesAreDistinct
<1> USE DEF PhasesInv, WellFormed, worldVars, baseOracleVars
<1>1. ASSUME UNCHANGED <<oracle, extraData>>, now' \in Int,
             \/ UNCHANGED gathered
             \/ gathered' = [gathered EXCEPT !.corrected = TRUE]
             \/ gathered' = Gathered(now)
      PROVE  Phase
  BY <1>1, OthersAreNoPhase DEF Gathered
<1>2. ASSUME \E v : oracle' = [oracle EXCEPT ![exitBus] = v], UNCHANGED <<now, extraData, gathered>>
      PROVE  Phase
  BY <1>2, OthersAreNoPhase
<1>3. CASE SlotEnds
  BY <1>1, <1>3 DEF SlotEnds
<1>4. CASE AccountingCommittee \/ AccountingMainData \/ AccountingExtraData
  BY <1>4, CommitteeIsAPhase, MainDataIsAPhase, ExtraDataIsAPhase
<1>5. ASSUME NEW c \in Contracts, NEW op \in Operators, ChainMoves(c, op) PROVE Phase
  BY <1>1, <1>5 DEF ChainMoves
<1>6. ASSUME NEW id, NEW op, NEW trigger, DaoCorrects(id, op, trigger) PROVE Phase
  BY <1>1, <1>6 DEF DaoCorrects
<1>7. CASE ExitBusCommittee
  BY <1>2, <1>7 DEF ExitBusCommittee, SubmitConsensusReport
<1>8. CASE ExitBusData
  BY <1>2, <1>8 DEF ExitBusData, SubmitExitRequests, SubmitReportData, StartProcessing
<1>9. CASE ExitBusPauses \/ (Trustless /\ Resume /\ UNCHANGED <<extraData, worldVars>>)
  BY <1>1, <1>9 DEF ExitBusPauses, Resume, Pause, PauseFor, PauseUntil
<1>10. CASE AnyConsensusContract
  <2>1. UNCHANGED <<now, extraData, gathered>>
    BY <1>10 DEF AnyConsensusContract, SetConsensusContract
  <2>2. UNCHANGED oracle \/ \E v : oracle' = [oracle EXCEPT ![exitBus] = v]
    BY <1>10 DEF AnyConsensusContract, SetConsensusContract, SubmitConsensusReport,
                 DiscardConsensusReport
  <2>3. QED
    BY <1>1, <1>2, <2>1, <2>2
<1>11. CASE AnyVersionOrPause
  <2>1. UNCHANGED <<now, extraData, gathered>>
    BY <1>11 DEF AnyVersionOrPause, SetConsensusVersion, Resume
  <2>2. UNCHANGED oracle \/ \E v : oracle' = [oracle EXCEPT ![exitBus] = v]
    BY <1>11 DEF AnyVersionOrPause, SetConsensusVersion, Resume
  <2>3. QED
    BY <1>1, <1>2, <2>1, <2>2
<1>12. ASSUME NEW g, NEW id, GuardianSigns(g, id) PROVE Phase
  BY <1>1, <1>12 DEF GuardianSigns
<1>13. CASE SomebodyDeposits \/ SomebodyPauses \/ OthersDeposit \/ OperatorsManageKeys
  BY <1>1, <1>13 DEF SomebodyDeposits, SomebodyPauses, OthersDeposit, OperatorsManageKeys
<1>14. CASE DaoManagesRouter \/ OwnerManagesSecurity
  BY <1>1, <1>14 DEF DaoManagesRouter, OwnerManagesSecurity
<1>15. CASE UNCHANGED vars
  BY <1>1, <1>15 DEF vars
<1>16. QED
  BY <1>3, <1>4, <1>5, <1>6, <1>7, <1>8, <1>9, <1>10, <1>11, <1>12, <1>13, <1>14, <1>15 DEF Next

(***************************************************************************)
(* The invariant holds at first, and every phase keeps it.                 *)
(***************************************************************************)
LEMMA InitPhases == Init => PhasesInv
<1> SUFFICES ASSUME Init PROVE PhasesInv
  OBVIOUS
<1>1. oracle[accountingOracle] = Initialized(consensus, 1, 0) /\ DOMAIN oracle = Oracles
  BY AccountingOracleAssumption DEF Init
<1>2. WellFormed
  BY <1>1 DEF Init, WellFormed, Report, Initialized, Gathered
<1>3. SlotsAreOrdered
  BY <1>1 DEF Init, SlotsAreOrdered, Report, Processing, Initialized, NoExtraData
<1>4. ExtraDataIsMarked
  BY DEF Init, ExtraDataIsMarked, NoExtraData, EXTRA_DATA_FORMAT_EMPTY, EXTRA_DATA_FORMAT_LIST
<1>5. QED
  BY <1>2, <1>3, <1>4 DEF PhasesInv

LEMMA PhaseKeepsInv == PhasesInv /\ [Next]_vars => PhasesInv'
<1> SUFFICES ASSUME PhasesInv, Phase PROVE PhasesInv'
  BY NextIsAPhase
<1>1. WellFormed'
  <2> USE DEF PhasesInv, WellFormed, Phase, Clocks, Initialized, NoExtraData
  <2>1. CASE NoPhase
    BY <2>1 DEF NoPhase, OracleUnchanged, Report
  <2>2. CASE ReportChanges
    BY <2>2 DEF ReportChanges
  <2>3. CASE MainDataTaken
    BY <2>3 DEF MainDataTaken
  <2>4. CASE ExtraDataTaken
    BY <2>4 DEF ExtraDataTaken, OracleUnchanged, Report
  <2>5. QED
    BY <2>1, <2>2, <2>3, <2>4
<1>2. SlotsAreOrdered'
  <2> USE DEF PhasesInv, WellFormed, SlotsAreOrdered, Phase
  <2>1. CASE NoPhase
    BY <2>1 DEF NoPhase, OracleUnchanged, Report, Processing
  <2>2. CASE ReportChanges
    BY <2>2 DEF ReportChanges, Processing
  <2>3. CASE MainDataTaken
    BY <2>3 DEF MainDataTaken, Processing
  <2>4. CASE ExtraDataTaken
    BY <2>4 DEF ExtraDataTaken, OracleUnchanged, Report, Processing
  <2>5. QED
    BY <2>1, <2>2, <2>3, <2>4
<1>3. ExtraDataIsMarked'
  <2> USE DEF PhasesInv, ExtraDataIsMarked, Phase
  <2>1. CASE NoPhase \/ ReportChanges
    BY <2>1 DEF NoPhase, ReportChanges
  <2>2. CASE MainDataTaken
    BY <2>2 DEF MainDataTaken
  <2>3. CASE ExtraDataTaken
    <3>1. CASE extraData.dataFormat = EXTRA_DATA_FORMAT_LIST
      <4>1. extraData.itemsCount # 0 /\ extraData'.itemsProcessed = extraData.itemsCount
        BY <2>3, <3>1 DEF ExtraDataTaken, EXTRA_DATA_FORMAT_EMPTY, EXTRA_DATA_FORMAT_LIST
      <4>2. extraData'.itemsCount = extraData.itemsCount /\ extraData'.submitted = TRUE
        BY <2>3 DEF ExtraDataTaken
      <4>3. QED
        BY <4>1, <4>2
    <3>2. CASE extraData.dataFormat # EXTRA_DATA_FORMAT_LIST
      BY <2>3, <3>2 DEF ExtraDataTaken
    <3>3. QED
      BY <3>1, <3>2
  <2>4. QED
    BY <2>1, <2>2, <2>3
<1>4. QED
  BY <1>1, <1>2, <1>3 DEF PhasesInv

(***************************************************************************)
(* Extra data is taken once, after the main data of its report and before  *)
(* a later report is agreed on, whatever committees, the DAO and the       *)
(* modules do (_checkCanSubmitExtraData, submitReportExtraDataEmpty and    *)
(* submitReportExtraDataList).                                             *)
(***************************************************************************)
THEOREM ReportsComeInTwoPhases == Spec => ImplementsTwoPhaseReports
<1>1. Init => TwoPhase!Init
  <2> SUFFICES ASSUME Init PROVE TwoPhase!Init
    OBVIOUS
  <2>1. oracle[accountingOracle] = Initialized(consensus, 1, 0) /\ extraData = NoExtraData
    BY AccountingOracleAssumption DEF Init
  <2>2. QED
    BY <2>1 DEF TwoPhase!Init, Initialized, NoExtraData
<1>2. PhasesInv /\ [Next]_vars => [TwoPhase!Next]_TwoPhase!vars
  <2> SUFFICES ASSUME PhasesInv, Phase PROVE [TwoPhase!Next]_TwoPhase!vars
    BY NextIsAPhase
  <2> USE DEF PhasesInv, SlotsAreOrdered, ExtraDataIsMarked, Report, Processing
  <2>1. CASE NoPhase
    BY <2>1 DEF NoPhase, OracleUnchanged, TwoPhase!vars
  <2>2. CASE ReportChanges
    <3>1. CASE Report'.hash = ZeroHash
      <4>1. TwoPhase!Drop
        BY <2>2, <3>1 DEF ReportChanges, TwoPhase!Drop
      <4>2. QED
        BY <4>1 DEF TwoPhase!Next
    <3>2. CASE Report'.hash # ZeroHash
      <4>1. TwoPhase!Agree
        BY <2>2, <3>2 DEF ReportChanges, TwoPhase!Agree, WellFormed
      <4>2. QED
        BY <4>1 DEF TwoPhase!Next
    <3>3. QED
      BY <3>1, <3>2
  <2>3. CASE MainDataTaken
    <3>1. TwoPhase!TakeMain
      BY <2>3 DEF MainDataTaken, TwoPhase!TakeMain
    <3>2. QED
      BY <3>1 DEF TwoPhase!Next
  <2>4. CASE ExtraDataTaken
    <3>1. TwoPhase!TakeExtra
      BY <2>4 DEF ExtraDataTaken, OracleUnchanged, TwoPhase!TakeExtra,
                  EXTRA_DATA_FORMAT_EMPTY, EXTRA_DATA_FORMAT_LIST
    <3>2. QED
      BY <3>1 DEF TwoPhase!Next
  <2>5. QED
    BY <2>1, <2>2, <2>3, <2>4 DEF Phase
<1>3. QED
  BY <1>1, <1>2, InitPhases, PhaseKeepsInv, PTL DEF Spec, ImplementsTwoPhaseReports, TwoPhase!Spec

------------------------------------------------------------------------------

(***************************************************************************)
(* The deposits.  The invariant DepositsInv says that modules have         *)
(* different contracts, that the two tables of guardians are inverse, that *)
(* a module which may get deposits has keys for the present credentials    *)
(* only, and that a nonce tells the keys but for penalties: what was seen  *)
(* and signed with the present nonce of a module are its present keys and  *)
(* keys of operators that have none left, as a refunded count that is      *)
(* lowered is the only change of keys that leaves the nonce.               *)
(***************************************************************************)
ContractsAreDistinct ==
  \A i, j \in DOMAIN stakingModules :
    stakingModules[i].contract = stakingModules[j].contract => i = j

ForCredentials(ready, credentials) == \A i \in DOMAIN ready : ready[i][2] = credentials

ActiveKeysAreCurrent ==
  \A id \in DOMAIN stakingModules :
    stakingModules[id].status = "Active" =>
      ForCredentials(contracts[stakingModules[id].contract].ready, withdrawalCredentials)

RouterInv == StakingRouterTypeOK /\ ContractsAreDistinct /\ ActiveKeysAreCurrent

GuardiansInv ==
  /\ guardians \in Seq(Addresses)
  /\ guardianIndicesOneBased \in [Addresses -> Nat]
  /\ quorum \in Nat
  /\ \A i \in DOMAIN guardians : guardianIndicesOneBased[guardians[i]] = i
  /\ \A g \in Addresses : IsGuardian(g) =>
       /\ guardianIndicesOneBased[g] \in DOMAIN guardians
       /\ guardians[guardianIndicesOneBased[g]] = g

SettingsInv ==
  /\ "maxDepositsPerBlock" \in DOMAIN settings
  /\ \A name \in DOMAIN settings : settings[name] \in Nat

------------------------------------------------------------------------------

(***************************************************************************)
(* Keys that are gone.  What remains of keys of which some operators lost  *)
(* theirs, one after the other, is what remains without these operators.   *)
(***************************************************************************)
KeyStep(op, kept, key) == IF key[1] = op THEN kept ELSE Append(kept, key)

KeySteps(op, ready) ==
  [pair \in (1..Len(ready)) \X Seq(ReadyKey) |-> KeyStep(op, pair[2], ready[pair[1]])]

LEMMA KeysHaveTrace ==
  ASSUME NEW ready \in Seq(ReadyKey), NEW op
  PROVE  HasFoldTrace(Len(ready), Seq(ReadyKey), <<>>, KeySteps(op, ready), KeysWithout(ready, op))
<1> DEFINE n == Len(ready)
           S == 1..n
           V == Seq(ReadyKey)
           F == KeySteps(op, ready)
           first == <<>>
           body(h) == [s \in SUBSET S |-> IF s = {} THEN first
                         ELSE KeyStep(op, h[s \ {Max(s)}], ready[Max(s)])]
<1>0. n \in Nat /\ DOMAIN ready = S /\ \A i \in S : ready[i] \in ReadyKey
  BY LenProperties, ElementOfSeq
<1>1. F \in [S \X V -> V]
      /\ \A i \in S, st \in V : F[<<i, st>>] = KeyStep(op, st, ready[i])
  <2>1. \A st \in V, key \in ReadyKey : KeyStep(op, st, key) \in V
    BY AppendProperties DEF KeyStep
  <2>2. \A pair \in S \X V : KeyStep(op, pair[2], ready[pair[1]]) \in V
    BY <1>0, <2>1
  <2>3. QED
    BY <2>2 DEF KeySteps
<1>2. first \in V
  OBVIOUS
<1> HIDE DEF V, F, n, first
<1>3. PICK g : FoldsWith(g, n, V, first, F)
  BY <1>0, <1>1, <1>2, FoldExists
<1>4. \A s \in SUBSET S : s # {} => Max(s) \in S
  BY <1>0, HasGreatest
<1>5. g = body(g)
  <2>1. ASSUME NEW s \in SUBSET S PROVE g[s] = body(g)[s]
    <3>1. CASE s = {}
      BY <1>3, <3>1 DEF FoldsWith
    <3>2. CASE s # {}
      <4>1. s \ {Max(s)} \in SUBSET S
        OBVIOUS
      <4>2. g[s \ {Max(s)}] \in V /\ g[s] = F[<<Max(s), g[s \ {Max(s)}]>>]
        BY <1>3, <3>2, <4>1 DEF FoldsWith
      <4>3. g[s] = KeyStep(op, g[s \ {Max(s)}], ready[Max(s)])
        BY <1>1, <1>4, <3>2, <4>2
      <4>4. QED
        BY <3>2, <4>3
    <3>3. QED
      BY <3>1, <3>2
  <2>2. g = [s \in SUBSET S |-> g[s]]
    BY <1>3 DEF FoldsWith
  <2>3. body(g) = [s \in SUBSET S |-> body(g)[s]]
    OBVIOUS
  <2> HIDE DEF body
  <2>4. QED
    BY <2>1, <2>2, <2>3
<1> DEFINE iter == CHOOSE h : h = body(h)
<1>6. iter = body(iter)
  <2> HIDE DEF body
  <2> QED BY <1>5
<1>7. KeysWithout(ready, op) = iter[S]
  BY <1>0 DEF KeysWithout, FoldLeft, MapThenFoldSet, KeyStep, first
<1> HIDE DEF iter
<1>8. iter[{}] = first
  BY <1>6
<1>9. ASSUME NEW s \in SUBSET S, s # {}, iter[s \ {Max(s)}] \in V
      PROVE  iter[s] = F[<<Max(s), iter[s \ {Max(s)}]>>]
  <2>1. iter[s] = KeyStep(op, iter[s \ {Max(s)}], ready[Max(s)])
    BY <1>6, <1>9
  <2>2. QED
    BY <1>1, <1>4, <1>9, <2>1
<1> HIDE DEF body
<1>10. IsFold(iter, n, V, first, F)
  BY <1>8, <1>9 DEF IsFold
<1>11. HasFoldTrace(n, V, first, F, iter[1..n])
  BY <1>0, <1>1, <1>2, <1>10, FoldHasTrace
<1>12. QED
  BY <1>7, <1>11 DEF V, F, n, first

(***************************************************************************)
(* The first k keys without those of op, at their places in "ready".       *)
(***************************************************************************)
PlacesOf(at, kept, ready, op, k) ==
  /\ kept \in Seq(ReadyKey)
  /\ at \in [1..Len(kept) -> 1..k]
  /\ \A i \in 1..Len(kept) : kept[i] = ready[at[i]]
  /\ \A i, j \in 1..Len(kept) : i < j => at[i] < at[j]
  /\ \A p \in 1..k : ready[p][1] # op <=> \E i \in 1..Len(kept) : at[i] = p

LEMMA OneMorePlace ==
  ASSUME NEW ready \in Seq(ReadyKey), NEW op, NEW k \in Nat, k + 1 <= Len(ready),
         NEW kept, NEW at, PlacesOf(at, kept, ready, op, k)
  PROVE  \E to : PlacesOf(to, KeyStep(op, kept, ready[k + 1]), ready, op, k + 1)
<1> DEFINE n == Len(kept)
           key == ready[k + 1]
<1>1. /\ kept \in Seq(ReadyKey) /\ n \in Nat /\ at \in [1..n -> 1..k]
      /\ \A i \in 1..n : kept[i] = ready[at[i]]
      /\ \A i, j \in 1..n : i < j => at[i] < at[j]
      /\ \A p \in 1..k : ready[p][1] # op <=> \E i \in 1..n : at[i] = p
  BY LenProperties DEF PlacesOf
<1>2. Len(ready) \in Nat /\ key \in ReadyKey
  BY LenProperties, ElementOfSeq
<1>3. CASE key[1] = op
  <2>1. KeyStep(op, kept, key) = kept
    BY <1>3 DEF KeyStep
  <2>2. at \in [1..n -> 1..(k + 1)]
    BY <1>1
  <2>3. ASSUME NEW p \in 1..(k + 1) PROVE ready[p][1] # op <=> \E i \in 1..n : at[i] = p
    <3>1. CASE p = k + 1
      BY <1>1, <1>3, <3>1
    <3>2. CASE p # k + 1
      BY <1>1, <3>2
    <3>3. QED
      BY <3>1, <3>2
  <2>4. PlacesOf(at, kept, ready, op, k + 1)
    BY <1>1, <2>2, <2>3 DEF PlacesOf
  <2>5. QED
    BY <2>1, <2>4
<1>4. CASE key[1] # op
  <2> DEFINE more == Append(kept, key)
             to == [i \in 1..(n + 1) |-> IF i = n + 1 THEN k + 1 ELSE at[i]]
  <2>1. KeyStep(op, kept, key) = more
    BY <1>4 DEF KeyStep
  <2>2. /\ more \in Seq(ReadyKey) /\ Len(more) = n + 1
        /\ \A i \in 1..n : more[i] = kept[i]
        /\ more[n + 1] = key
    <3> HIDE DEF key
    <3> QED BY <1>1, <1>2, AppendProperties
  <2>3. /\ to \in [1..(n + 1) -> 1..(k + 1)]
        /\ to[n + 1] = k + 1
        /\ \A i \in 1..n : to[i] = at[i] /\ to[i] \in 1..k
    BY <1>1
  <2> HIDE DEF to, more
  <2>4. \A i \in 1..(n + 1) : more[i] = ready[to[i]]
    <3> SUFFICES ASSUME NEW i \in 1..(n + 1) PROVE more[i] = ready[to[i]]
      OBVIOUS
    <3>1. CASE i = n + 1
      BY <2>2, <2>3, <3>1
    <3>2. CASE i # n + 1
      <4>1. i \in 1..n
        BY <1>1, <3>2
      <4>2. QED
        BY <1>1, <2>2, <2>3, <4>1
    <3>3. QED
      BY <3>1, <3>2
  <2>5. \A i, j \in 1..(n + 1) : i < j => to[i] < to[j]
    <3> SUFFICES ASSUME NEW i \in 1..(n + 1), NEW j \in 1..(n + 1), i < j PROVE to[i] < to[j]
      OBVIOUS
    <3>1. i \in 1..n
      BY <1>1
    <3>2. CASE j = n + 1
      <4>1. to[j] = k + 1 /\ to[i] \in 1..k
        BY <2>3, <3>1, <3>2
      <4>2. \A x \in 1..k : x < k + 1
        OBVIOUS
      <4>3. QED
        BY <4>1, <4>2, Zenon
    <3>3. CASE j # n + 1
      <4>1. j \in 1..n
        <5>1. n \in Nat
          BY <1>1
        <5> HIDE DEF n
        <5> QED BY <3>3, <5>1
      <4>2. at[i] < at[j]
        BY <1>1, <3>1, <4>1
      <4>3. QED
        BY <2>3, <3>1, <4>1, <4>2
    <3>4. QED
      BY <3>2, <3>3
  <2>6. ASSUME NEW p \in 1..(k + 1)
        PROVE  ready[p][1] # op <=> \E i \in 1..(n + 1) : to[i] = p
    <3>1. CASE p = k + 1
      <4>1. n + 1 \in 1..(n + 1) /\ to[n + 1] = p
        BY <1>1, <2>3, <3>1
      <4>2. QED
        BY <1>4, <3>1, <4>1
    <3>2. CASE p # k + 1
      <4>1. p \in 1..k
        BY <3>2
      <4>2. (\E i \in 1..(n + 1) : to[i] = p) <=> \E i \in 1..n : at[i] = p
        <5>1. ASSUME NEW i \in 1..(n + 1), to[i] = p PROVE i \in 1..n /\ at[i] = p
          <6>1. i # n + 1
            BY <2>3, <3>2, <5>1
          <6>2. i \in 1..n
            BY <1>1, <6>1
          <6>3. QED
            BY <2>3, <5>1, <6>2
        <5>2. ASSUME NEW i \in 1..n, at[i] = p PROVE i \in 1..(n + 1) /\ to[i] = p
          BY <1>1, <2>3, <5>2
        <5>3. QED
          BY <5>1, <5>2
      <4>3. QED
        BY <1>1, <4>1, <4>2
    <3>3. QED
      BY <3>1, <3>2
  <2>7. PlacesOf(to, more, ready, op, k + 1)
    BY <2>2, <2>3, <2>4, <2>5, <2>6 DEF PlacesOf
  <2>8. QED
    BY <2>1, <2>7
<1>5. QED
  BY <1>3, <1>4

LEMMA KeysRemain ==
  ASSUME NEW ready \in Seq(ReadyKey), NEW op
  PROVE  /\ KeysWithout(ready, op) \in Seq(ReadyKey)
         /\ Remaining(KeysWithout(ready, op), ready, {op})
<1> DEFINE n == Len(ready)
           V == Seq(ReadyKey)
           F == KeySteps(op, ready)
           result == KeysWithout(ready, op)
<1>1. n \in Nat /\ DOMAIN ready = 1..n
  BY LenProperties
<1>2. PICK trace : FoldTrace(trace, n, V, <<>>, F) /\ trace[n] = result
  BY KeysHaveTrace DEF HasFoldTrace
<1>3. \A k \in 1..n, st \in V : F[<<k, st>>] = KeyStep(op, st, ready[k])
  BY DEF KeySteps
<1> HIDE DEF V, F, result
<1>4. trace \in [0..n -> V] /\ trace[0] = <<>> /\ \A k \in 1..n : trace[k] = F[<<k, trace[k - 1]>>]
  BY <1>2 DEF FoldTrace
<1>5. ASSUME NEW k \in Nat, k + 1 <= n
      PROVE  trace[k + 1] = KeyStep(op, trace[k], ready[k + 1])
  <2>1. k + 1 \in 1..n /\ (k + 1) - 1 = k /\ k \in 0..n
    BY <1>1, <1>5
  <2>2. trace[k + 1] = F[<<k + 1, trace[k]>>] /\ trace[k] \in V
    BY <1>4, <2>1
  <2>3. QED
    BY <1>3, <2>1, <2>2
<1> DEFINE N == {k \in Nat : k <= n => \E at : PlacesOf(at, trace[k], ready, op, k)}
<1>6. 0 \in N
  <2>1. Len(<<>>) = 0 /\ <<>> \in Seq(ReadyKey) /\ <<>> \in [1..0 -> 1..0]
    OBVIOUS
  <2>2. PlacesOf(<<>>, <<>>, ready, op, 0)
    BY <2>1 DEF PlacesOf
  <2>3. QED
    BY <1>4, <2>2
<1>7. ASSUME NEW k \in N PROVE k + 1 \in N
  <2> SUFFICES ASSUME k + 1 <= n PROVE \E at : PlacesOf(at, trace[k + 1], ready, op, k + 1)
    OBVIOUS
  <2>1. k \in Nat /\ k <= n
    BY <1>1
  <2>2. PICK at : PlacesOf(at, trace[k], ready, op, k)
    BY <2>1
  <2> HIDE DEF N
  <2>3. QED
    BY <1>5, <2>1, <2>2, OneMorePlace
<1>8. N = Nat
  <2> HIDE DEF N
  <2> QED BY <1>6, <1>7, AllNaturals DEF N
<1>9. PICK at : PlacesOf(at, result, ready, op, n)
  <2>1. n \in N
    <3> HIDE DEF N
    <3> QED BY <1>1, <1>8
  <2>2. QED
    BY <1>1, <1>2, <2>1
<1>10. result \in Seq(ReadyKey) /\ DOMAIN result = 1..Len(result)
  BY <1>9, LenProperties DEF PlacesOf
<1>11. at \in [DOMAIN result -> DOMAIN ready]
  BY <1>1, <1>9, <1>10 DEF PlacesOf
<1>12. Remaining(result, ready, {op})
  <2>1. /\ \A i \in DOMAIN result : result[i] = ready[at[i]]
        /\ \A i, j \in DOMAIN result : i < j => at[i] < at[j]
        /\ \A p \in DOMAIN ready : ready[p][1] \notin {op} <=> \E i \in DOMAIN result : at[i] = p
    BY <1>1, <1>9, <1>10 DEF PlacesOf
  <2>2. QED
    BY <1>11, <2>1 DEF Remaining
<1>13. QED
  BY <1>10, <1>12 DEF result

LEMMA NothingGone == ASSUME NEW ready \in Seq(ReadyKey) PROVE Remaining(ready, ready, {})
<1> DEFINE at == [i \in DOMAIN ready |-> i]
<1>1. /\ at \in [DOMAIN ready -> DOMAIN ready]
      /\ \A i \in DOMAIN ready : ready[i] = ready[at[i]]
      /\ \A i, j \in DOMAIN ready : i < j => at[i] < at[j]
      /\ \A k \in DOMAIN ready : ready[k][1] \notin {} <=> \E i \in DOMAIN ready : at[i] = k
  OBVIOUS
<1> HIDE DEF at
<1>2. QED
  BY <1>1 DEF Remaining

LEMMA GoneTwice ==
  ASSUME NEW left, NEW ready, NEW seenKeys, NEW first, NEW second,
         Remaining(ready, seenKeys, first), Remaining(left, ready, second)
  PROVE  Remaining(left, seenKeys, first \union second)
<1>1. PICK f \in [DOMAIN ready -> DOMAIN seenKeys] :
        /\ \A i \in DOMAIN ready : ready[i] = seenKeys[f[i]]
        /\ \A i, j \in DOMAIN ready : i < j => f[i] < f[j]
        /\ \A k \in DOMAIN seenKeys :
             seenKeys[k][1] \notin first <=> \E i \in DOMAIN ready : f[i] = k
  BY DEF Remaining
<1>2. PICK g \in [DOMAIN left -> DOMAIN ready] :
        /\ \A i \in DOMAIN left : left[i] = ready[g[i]]
        /\ \A i, j \in DOMAIN left : i < j => g[i] < g[j]
        /\ \A k \in DOMAIN ready : ready[k][1] \notin second <=> \E i \in DOMAIN left : g[i] = k
  BY DEF Remaining
<1> DEFINE at == [i \in DOMAIN left |-> f[g[i]]]
<1>3. at \in [DOMAIN left -> DOMAIN seenKeys] /\ \A i \in DOMAIN left : at[i] = f[g[i]]
  OBVIOUS
<1> HIDE DEF at
<1>4. \A i \in DOMAIN left : left[i] = seenKeys[at[i]]
  BY <1>1, <1>2, <1>3
<1>5. \A i, j \in DOMAIN left : i < j => at[i] < at[j]
  BY <1>1, <1>2, <1>3
<1>6. ASSUME NEW k \in DOMAIN seenKeys
      PROVE  seenKeys[k][1] \notin first \union second <=> \E i \in DOMAIN left : at[i] = k
  <2>1. ASSUME seenKeys[k][1] \notin first \union second PROVE \E i \in DOMAIN left : at[i] = k
    <3>1. PICK j \in DOMAIN ready : f[j] = k
      BY <1>1, <2>1
    <3>2. ready[j][1] \notin second
      BY <1>1, <2>1, <3>1
    <3>3. QED
      BY <1>2, <1>3, <3>1, <3>2
  <2>2. ASSUME NEW i \in DOMAIN left, at[i] = k PROVE seenKeys[k][1] \notin first \union second
    <3>1. g[i] \in DOMAIN ready /\ f[g[i]] = k
      BY <1>3, <2>2
    <3>2. ready[g[i]][1] \notin second
      BY <1>2, <3>1
    <3>3. seenKeys[k][1] \notin first /\ ready[g[i]] = seenKeys[k]
      BY <1>1, <3>1
    <3>4. QED
      BY <3>2, <3>3
  <2>3. QED
    BY <2>1, <2>2
<1>7. QED
  BY <1>3, <1>4, <1>5, <1>6 DEF Remaining

------------------------------------------------------------------------------

(***************************************************************************)
(* The keys that go with a nonce of a module contract m: those it has, but *)
(* for keys of operators that were penalized since.                        *)
(***************************************************************************)
Pinned(nonce, ready, m) ==
  /\ nonce \in Nat
  /\ nonce <= m.nonce
  /\ nonce = m.nonce => \E gone \in SUBSET Operators : Remaining(m.ready, ready, gone)

SeenInv == \A c \in Contracts : Pinned(seen.nonce[c], seen.ready[c], contracts[c])

AttestedInv ==
  \A a \in attested :
    /\ a.guardian \in Addresses
    /\ a.stakingModuleId \in DOMAIN stakingModules
    /\ Pinned(a.nonce, a.ready, contracts[stakingModules[a.stakingModuleId].contract])

DepositsInv ==
  /\ Deposits
  /\ now \in Nat
  /\ RouterInv
  /\ GuardiansInv
  /\ SettingsInv
  /\ SeenInv
  /\ AttestedInv

------------------------------------------------------------------------------

(***************************************************************************)
(* What the router does to a contract: its nonce moves, or its keys stay   *)
(* but for those of penalized operators.                                   *)
(***************************************************************************)
MovesOn(m, n) ==
  \/ n.nonce > m.nonce
  \/ n.nonce = m.nonce /\ \E gone \in SUBSET Operators : Remaining(n.ready, m.ready, gone)

RouterStep ==
  /\ RouterInv'
  /\ \A c \in Contracts : MovesOn(contracts[c], contracts'[c])
  /\ \A id \in DOMAIN stakingModules :
       /\ id \in DOMAIN stakingModules'
       /\ stakingModules'[id].contract = stakingModules[id].contract

LEMMA PinnedStays ==
  ASSUME NEW m \in ModuleContract, NEW n \in ModuleContract, MovesOn(m, n),
         NEW nonce, NEW ready, Pinned(nonce, ready, m)
  PROVE  Pinned(nonce, ready, n)
<1>1. m.nonce \in Nat /\ n.nonce \in Nat /\ nonce \in Nat /\ nonce <= m.nonce /\ m.nonce <= n.nonce
  BY DEF Pinned, MovesOn, ModuleContract
<1>2. ASSUME nonce = n.nonce PROVE \E gone \in SUBSET Operators : Remaining(n.ready, ready, gone)
  <2>1. nonce = m.nonce /\ ~(n.nonce > m.nonce)
    BY <1>1, <1>2
  <2>2. PICK first \in SUBSET Operators : Remaining(m.ready, ready, first)
    BY <2>1 DEF Pinned
  <2>3. PICK second \in SUBSET Operators : Remaining(n.ready, m.ready, second)
    BY <2>1 DEF MovesOn
  <2>4. Remaining(n.ready, ready, first \union second)
    BY <2>2, <2>3, GoneTwice
  <2>5. QED
    BY <2>4
<1>3. QED
  BY <1>1, <1>2 DEF Pinned

LEMMA StaysAsItIs == ASSUME NEW m \in ModuleContract PROVE MovesOn(m, m)
<1>1. m.ready \in Seq(ReadyKey)
  BY DEF ModuleContract
<1>2. Remaining(m.ready, m.ready, {})
  BY <1>1, NothingGone
<1>3. QED
  BY <1>2 DEF MovesOn

(***************************************************************************)
(* A penalty takes keys and nothing else.                                  *)
(***************************************************************************)
LEMMA PenaltyTakesKeys ==
  ASSUME NEW m \in ModuleContract, NEW op \in Operators, NEW n, n = WithoutPenalizedKeys(m, op)
  PROVE  /\ n \in ModuleContract
         /\ MovesOn(m, n)
         /\ n.deposited = m.deposited /\ n.exited = m.exited /\ n.stuck = m.stuck
         /\ n.refunded = m.refunded /\ n.nonce = m.nonce /\ n.settled = m.settled
         /\ \A credentials : ForCredentials(m.ready, credentials)
                                => ForCredentials(n.ready, credentials)
<1>1. CASE ~Penalized(m, op)
  <2>1. n = m
    BY <1>1 DEF WithoutPenalizedKeys
  <2>2. QED
    BY <2>1, StaysAsItIs
<1>2. CASE Penalized(m, op)
  <2>1. PICK left : left = KeysWithout(m.ready, op)
    OBVIOUS
  <2>2. n = [m EXCEPT !.ready = left]
    BY <1>2, <2>1 DEF WithoutPenalizedKeys
  <2>3. m.ready \in Seq(ReadyKey)
    BY DEF ModuleContract
  <2>4. left \in Seq(ReadyKey) /\ Remaining(left, m.ready, {op})
    BY <2>1, <2>3, KeysRemain
  <2>5. n \in ModuleContract
    BY <2>2, <2>4 DEF ModuleContract
  <2>6. /\ n.ready = left /\ n.deposited = m.deposited /\ n.exited = m.exited
        /\ n.stuck = m.stuck /\ n.refunded = m.refunded /\ n.nonce = m.nonce
        /\ n.settled = m.settled
    BY <2>2 DEF ModuleContract
  <2>7. MovesOn(m, n)
    BY <2>4, <2>6 DEF MovesOn
  <2>8. \A credentials : ForCredentials(m.ready, credentials) => ForCredentials(left, credentials)
    BY <2>4 DEF ForCredentials, Remaining
  <2>9. QED
    BY <2>5, <2>6, <2>7, <2>8
<1>3. QED
  BY <1>1, <1>2

LEMMA RefundTold ==
  ASSUME NEW m \in ModuleContract, NEW op \in Operators, NEW count \in Nat,
         NEW n, n = WithRefunded(m, op, count)
  PROVE  /\ n \in ModuleContract
         /\ MovesOn(m, n)
         /\ n.deposited = m.deposited /\ n.exited = m.exited /\ n.settled = m.settled
         /\ \A credentials : ForCredentials(m.ready, credentials)
                                => ForCredentials(n.ready, credentials)
<1>1. PICK k : k = [m.refunded EXCEPT ![op] = count]
  OBVIOUS
<1>2. PICK told : told = [m EXCEPT !.refunded = k]
  OBVIOUS
<1>3. k \in Counts
  BY <1>1 DEF ModuleContract, Counts
<1>4. /\ told \in ModuleContract /\ told.ready = m.ready /\ told.nonce = m.nonce
      /\ told.deposited = m.deposited /\ told.exited = m.exited /\ told.settled = m.settled
  BY <1>2, <1>3 DEF ModuleContract
<1>5. n = WithoutPenalizedKeys(told, op)
  BY <1>1, <1>2 DEF WithRefunded
<1>6. /\ n \in ModuleContract /\ MovesOn(told, n)
      /\ n.deposited = m.deposited /\ n.exited = m.exited /\ n.settled = m.settled
      /\ \A credentials : ForCredentials(m.ready, credentials)
                             => ForCredentials(n.ready, credentials)
  BY <1>4, <1>5, PenaltyTakesKeys
<1>7. MovesOn(m, n)
  BY <1>4, <1>6 DEF MovesOn
<1>8. QED
  BY <1>6, <1>7

LEMMA StuckTold ==
  ASSUME NEW m \in ModuleContract, NEW op \in Operators, NEW count \in Nat
  PROVE  /\ WithStuck(m, op, count) \in ModuleContract
         /\ WithStuck(m, op, count).deposited = m.deposited
         /\ WithStuck(m, op, count).exited = m.exited
         /\ WithStuck(m, op, count).settled = m.settled
         /\ WithStuck(m, op, count).stuck = [m.stuck EXCEPT ![op] = count]
<1>1. PICK k : k = [m.stuck EXCEPT ![op] = count]
  OBVIOUS
<1>2. PICK told : told = [m EXCEPT !.stuck = k]
  OBVIOUS
<1>3. k \in Counts
  BY <1>1 DEF ModuleContract, Counts
<1>4. /\ told \in ModuleContract /\ told.stuck = k
      /\ told.deposited = m.deposited /\ told.exited = m.exited /\ told.settled = m.settled
  BY <1>2, <1>3 DEF ModuleContract
<1>5. WithStuck(m, op, count) = WithoutPenalizedKeys(told, op)
  BY <1>1, <1>2 DEF WithStuck
<1>6. QED
  BY <1>1, <1>4, <1>5, PenaltyTakesKeys

(***************************************************************************)
(* The keys of a contract: added at the end, taken from either end.        *)
(***************************************************************************)
LEMMA PartOfKeys ==
  ASSUME NEW S, NEW s \in Seq(S), NEW a \in 1..Len(s) + 1, NEW b \in 0..Len(s)
  PROVE  /\ SubSeq(s, a, b) \in Seq(S)
         /\ Len(SubSeq(s, a, b)) <= Len(s)
         /\ \A i \in DOMAIN SubSeq(s, a, b) : \E j \in DOMAIN s : SubSeq(s, a, b)[i] = s[j]
<1> DEFINE part == SubSeq(s, a, b)
<1>1. Len(s) \in Nat /\ DOMAIN s = 1..Len(s)
  BY LenProperties
<1>2. \A j \in a..b : s[j] \in S
  BY <1>1, ElementOfSeq
<1>3. /\ part \in Seq(S)
      /\ Len(part) = IF a <= b THEN b - a + 1 ELSE 0
      /\ \A k \in 1..b - a + 1 : part[k] = s[a + k - 1]
  BY <1>1, <1>2, SubSeqProperties
<1>4. DOMAIN part = 1..Len(part)
  <2> HIDE DEF part
  <2> QED BY <1>3, LenProperties
<1>5. ASSUME NEW i \in DOMAIN part PROVE \E j \in DOMAIN s : part[i] = s[j]
  <2> HIDE DEF part
  <2>1. i \in 1..b - a + 1 /\ a + i - 1 \in DOMAIN s
    BY <1>1, <1>3, <1>4
  <2>2. QED
    BY <1>3, <2>1
<1>6. Len(part) <= Len(s)
  <2> HIDE DEF part
  <2> QED BY <1>1, <1>3
<1>7. QED
  BY <1>3, <1>5, <1>6

LEMMA KeyAdded ==
  ASSUME NEW m \in ModuleContract, NEW op \in Operators,
         NEW credentials \in Credentials \union {ZeroCredentials}
  PROVE  LET n == [m EXCEPT !.ready = Append(@, <<op, credentials>>), !.nonce = @ + 1]
         IN  /\ n \in ModuleContract
             /\ MovesOn(m, n)
             /\ n.deposited = m.deposited
             /\ ForCredentials(m.ready, credentials) => ForCredentials(n.ready, credentials)
<1> DEFINE key == <<op, credentials>>
           ready == Append(m.ready, key)
           nonce == m.nonce + 1
           n == [m EXCEPT !.ready = ready, !.nonce = nonce]
<1>1. m.ready \in Seq(ReadyKey) /\ key \in ReadyKey
  BY DEF ModuleContract, ReadyKey
<1>2. /\ ready \in Seq(ReadyKey)
      /\ Len(ready) = Len(m.ready) + 1
      /\ \A i \in 1..Len(m.ready) : ready[i] = m.ready[i]
      /\ ready[Len(m.ready) + 1] = key
  <2> HIDE DEF key
  <2> QED BY <1>1, AppendProperties
<1>3. n \in ModuleContract /\ MovesOn(m, n) /\ n.deposited = m.deposited /\ n.ready = ready
  <2> HIDE DEF ready
  <2>1. n.nonce = m.nonce + 1 /\ n.ready = ready /\ n.deposited = m.deposited /\ m.nonce \in Nat
    BY DEF ModuleContract
  <2>2. n \in ModuleContract
    <3>1. nonce \in Nat
      BY <2>1
    <3> HIDE DEF nonce
    <3> QED BY <1>2, <3>1 DEF ModuleContract
  <2>3. QED
    <3> HIDE DEF n
    <3> QED BY <2>1, <2>2 DEF MovesOn
<1>4. ASSUME ForCredentials(m.ready, credentials) PROVE ForCredentials(ready, credentials)
  <2> HIDE DEF ready
  <2>1. Len(m.ready) \in Nat /\ DOMAIN m.ready = 1..Len(m.ready) /\ DOMAIN ready = 1..Len(ready)
    BY <1>1, <1>2, LenProperties
  <2>2. QED
    BY <1>2, <1>4, <2>1 DEF ForCredentials
<1>5. QED
  BY <1>3, <1>4

LEMMA KeysTaken ==
  ASSUME NEW m \in ModuleContract, NEW a \in 1..Len(m.ready) + 1, NEW b \in 0..Len(m.ready),
         NEW deposited \in Counts
  PROVE  LET n == [m EXCEPT !.ready = SubSeq(@, a, b), !.nonce = @ + 1, !.deposited = deposited]
         IN  /\ n \in ModuleContract
             /\ MovesOn(m, n)
             /\ Len(n.ready) <= Len(m.ready)
             /\ \A credentials : ForCredentials(m.ready, credentials)
                                   => ForCredentials(n.ready, credentials)
<1> DEFINE ready == SubSeq(m.ready, a, b)
           nonce == m.nonce + 1
           n == [m EXCEPT !.ready = ready, !.nonce = nonce, !.deposited = deposited]
<1>1. m.ready \in Seq(ReadyKey)
  BY DEF ModuleContract
<1>2. /\ ready \in Seq(ReadyKey) /\ Len(ready) <= Len(m.ready)
      /\ \A i \in DOMAIN ready : \E j \in DOMAIN m.ready : ready[i] = m.ready[j]
  BY <1>1, PartOfKeys
<1> HIDE DEF ready
<1>3. n \in ModuleContract /\ MovesOn(m, n) /\ n.ready = ready
  <2>1. n.nonce = m.nonce + 1 /\ n.ready = ready /\ m.nonce \in Nat
    BY DEF ModuleContract
  <2>2. n \in ModuleContract
    <3>1. nonce \in Nat
      BY <2>1
    <3> HIDE DEF nonce
    <3> QED BY <1>2, <3>1 DEF ModuleContract
  <2>3. QED
    <3> HIDE DEF n
    <3> QED BY <2>1, <2>2 DEF MovesOn
<1>4. \A credentials : ForCredentials(m.ready, credentials) => ForCredentials(ready, credentials)
  BY <1>2 DEF ForCredentials
<1>5. QED
  BY <1>3, <1>4 DEF ready

LEMMA ModuleFacts ==
  ASSUME StakingRouterTypeOK
  PROVE  /\ Len(stakingModules) \in Nat
         /\ DOMAIN stakingModules = 1..Len(stakingModules)
         /\ \A id \in DOMAIN stakingModules :
              /\ stakingModules[id] \in StakingModule
              /\ stakingModules[id].contract \in Contracts
<1>1. Len(stakingModules) \in Nat /\ DOMAIN stakingModules = 1..Len(stakingModules)
  BY LenProperties DEF StakingRouterTypeOK
<1>2. ASSUME NEW id \in DOMAIN stakingModules PROVE stakingModules[id] \in StakingModule
  BY <1>1, ElementOfSeq DEF StakingRouterTypeOK
<1>3. QED
  BY <1>1, <1>2 DEF StakingModule

LEMMA OneContractStep ==
  ASSUME RouterInv, NEW c \in Contracts, NEW n \in ModuleContract, MovesOn(contracts[c], n),
         contracts' = [contracts EXCEPT ![c] = n],
         UNCHANGED withdrawalCredentials,
         stakingModules' \in Seq(StakingModule), Len(stakingModules') = Len(stakingModules),
         \A id \in DOMAIN stakingModules :
           /\ stakingModules'[id].contract = stakingModules[id].contract
           /\ stakingModules'[id].status = stakingModules[id].status,
         ForCredentials(contracts[c].ready, withdrawalCredentials)
           => ForCredentials(n.ready, withdrawalCredentials)
  PROVE  RouterStep
<1> USE DEF RouterInv, StakingRouterTypeOK
<1>1. DOMAIN stakingModules' = DOMAIN stakingModules
  BY LenProperties
<1>2. /\ contracts' \in [Contracts -> ModuleContract]
      /\ \A d \in Contracts : contracts'[d] = IF d = c THEN n ELSE contracts[d]
  OBVIOUS
<1>3. StakingRouterTypeOK'
  BY <1>2
<1>4. ContractsAreDistinct'
  BY <1>1 DEF ContractsAreDistinct
<1>5. \A id \in DOMAIN stakingModules : stakingModules[id].contract \in Contracts
  BY ModuleFacts
<1>6. ActiveKeysAreCurrent'
  BY <1>1, <1>2, <1>5 DEF ActiveKeysAreCurrent
<1>7. \A d \in Contracts : MovesOn(contracts[d], contracts'[d])
  BY <1>2, StaysAsItIs
<1>8. QED
  BY <1>1, <1>3, <1>4, <1>6, <1>7 DEF RouterStep

------------------------------------------------------------------------------

(***************************************************************************)
(* The operations on the router and on the keys of its modules.            *)
(***************************************************************************)
LEMMA AddKeyStep ==
  ASSUME RouterInv, NEW c \in Contracts, NEW op \in Operators, AddSigningKey(c, op)
  PROVE  RouterStep /\ \A d \in Contracts : contracts'[d].deposited = contracts[d].deposited
<1> DEFINE m == contracts[c]
           n == [m EXCEPT !.ready = Append(@, <<op, withdrawalCredentials>>), !.nonce = @ + 1]
<1>1. /\ contracts \in [Contracts -> ModuleContract]
      /\ m \in ModuleContract
      /\ withdrawalCredentials \in Credentials \union {ZeroCredentials}
      /\ stakingModules \in Seq(StakingModule)
  BY DEF RouterInv, StakingRouterTypeOK
<1>2. contracts' = [contracts EXCEPT ![c] = n] /\ UNCHANGED <<stakingModules, withdrawalCredentials>>
  BY DEF AddSigningKey
<1>3. /\ n \in ModuleContract /\ MovesOn(m, n) /\ n.deposited = m.deposited
      /\ ForCredentials(m.ready, withdrawalCredentials)
           => ForCredentials(n.ready, withdrawalCredentials)
  <2> HIDE DEF m
  <2> QED BY <1>1, KeyAdded
<1> HIDE DEF n
<1>4. RouterStep
  BY <1>1, <1>2, <1>3, OneContractStep
<1>5. \A d \in Contracts : contracts'[d] = IF d = c THEN n ELSE contracts[d]
  BY <1>1, <1>2
<1>6. QED
  BY <1>3, <1>4, <1>5

LEMMA RemoveKeyStep ==
  ASSUME RouterInv, NEW c \in Contracts, RemoveSigningKey(c)
  PROVE  RouterStep /\ \A d \in Contracts : contracts'[d].deposited = contracts[d].deposited
<1> DEFINE m == contracts[c]
           last == Len(m.ready) - 1
           n == [m EXCEPT !.ready = SubSeq(@, 1, last), !.nonce = @ + 1, !.deposited = m.deposited]
<1>1. /\ contracts \in [Contracts -> ModuleContract]
      /\ m \in ModuleContract
      /\ m.ready \in Seq(ReadyKey) /\ m.deposited \in Counts
      /\ stakingModules \in Seq(StakingModule)
  BY DEF RouterInv, StakingRouterTypeOK, ModuleContract
<1>2. /\ contracts' = [contracts EXCEPT ![c] = [m EXCEPT !.ready = SubSeq(@, 1, last), !.nonce = @ + 1]]
      /\ UNCHANGED <<stakingModules, withdrawalCredentials>> /\ m.ready # <<>>
  BY DEF RemoveSigningKey, Front
<1>3. last \in 0..Len(m.ready) /\ 1 \in 1..Len(m.ready) + 1
  <2> HIDE DEF m
  <2> QED BY <1>1, <1>2, EmptySeq, LenProperties
<1>4. /\ n \in ModuleContract /\ MovesOn(m, n) /\ n.deposited = m.deposited
      /\ ForCredentials(m.ready, withdrawalCredentials)
           => ForCredentials(n.ready, withdrawalCredentials)
  <2>1. n.deposited = m.deposited
    BY <1>1 DEF ModuleContract
  <2> HIDE DEF m, last
  <2>2. QED
    BY <1>1, <1>3, <2>1, KeysTaken
<1>5. n = [m EXCEPT !.ready = SubSeq(@, 1, last), !.nonce = @ + 1]
  <2> HIDE DEF m, last
  <2> QED BY <1>1 DEF ModuleContract
<1> HIDE DEF n
<1>6. contracts' = [contracts EXCEPT ![c] = n]
  BY <1>2, <1>5
<1>7. RouterStep
  BY <1>1, <1>2, <1>4, <1>6, OneContractStep
<1>8. \A d \in Contracts : contracts'[d] = IF d = c THEN n ELSE contracts[d]
  BY <1>1, <1>6
<1>9. QED
  BY <1>4, <1>7, <1>8

(***************************************************************************)
(* Modules are added, updated, paused and resumed; their contracts stay.   *)
(***************************************************************************)
LEMMA AddModuleStep ==
  ASSUME RouterInv, NEW c \in Contracts, NEW share \in Nat, NEW fee \in Nat, NEW treasuryFee \in Nat,
         NEW block \in Nat, KeysAreForPresentCredentials(c),
         AddStakingModule(c, share, fee, treasuryFee, block)
  PROVE  RouterStep /\ UNCHANGED contracts
<1> DEFINE module == [contract |-> c, targetShare |-> share, stakingModuleFee |-> fee,
                      treasuryFee |-> treasuryFee, status |-> "Active",
                      exitedValidatorsCount |-> 0, lastDepositBlock |-> block]
           len == Len(stakingModules)
<1>1. module \in StakingModule /\ module.contract = c
  BY DEF StakingModule
<1>2. /\ stakingModules \in Seq(StakingModule) /\ len \in Nat
      /\ DOMAIN stakingModules = 1..len
      /\ contracts \in [Contracts -> ModuleContract]
  BY ModuleFacts DEF RouterInv, StakingRouterTypeOK
<1>3. /\ stakingModules' = Append(stakingModules, module)
      /\ UNCHANGED <<withdrawalCredentials, contracts>>
      /\ len < MAX_STAKING_MODULES_COUNT /\ c \notin RegisteredContracts
  BY DEF AddStakingModule
<1> HIDE DEF module
<1>4. /\ stakingModules' \in Seq(StakingModule) /\ Len(stakingModules') = len + 1
      /\ \A i \in 1..len : stakingModules'[i] = stakingModules[i]
      /\ stakingModules'[len + 1] = module
  BY <1>1, <1>2, <1>3, AppendProperties
<1>5. DOMAIN stakingModules' = 1..len + 1
  BY <1>4, LenProperties
<1>6. StakingRouterTypeOK'
  <2> HIDE DEF len
  <2> QED BY <1>2, <1>3, <1>4, StakingRouterAssumption DEF RouterInv, StakingRouterTypeOK
<1>7. \A i \in 1..len : stakingModules[i].contract # c
  BY <1>2, <1>3 DEF RegisteredContracts
<1>8. \A i \in DOMAIN stakingModules' : i \in 1..len \/ i = len + 1
  BY <1>2, <1>5
<1> HIDE DEF len
<1>9. ContractsAreDistinct'
  BY <1>1, <1>2, <1>4, <1>7, <1>8 DEF RouterInv, ContractsAreDistinct
<1>10. ActiveKeysAreCurrent'
  <2>1. ForCredentials(contracts[c].ready, withdrawalCredentials)
    BY DEF KeysAreForPresentCredentials, ForCredentials
  <2>2. QED
    BY <1>1, <1>2, <1>3, <1>4, <1>8, <2>1 DEF RouterInv, ActiveKeysAreCurrent
<1>11. \A d \in Contracts : MovesOn(contracts[d], contracts'[d])
  BY <1>2, <1>3, StaysAsItIs
<1>12. QED
  BY <1>2, <1>3, <1>4, <1>5, <1>6, <1>9, <1>10, <1>11 DEF RouterStep, RouterInv

LEMMA ModulesStep ==
  ASSUME RouterInv, UNCHANGED <<contracts, withdrawalCredentials>>,
         stakingModules' \in Seq(StakingModule), Len(stakingModules') = Len(stakingModules),
         \A id \in DOMAIN stakingModules :
           /\ stakingModules'[id].contract = stakingModules[id].contract
           /\ \/ stakingModules'[id].status = stakingModules[id].status
              \/ stakingModules'[id].status # "Active"
              \/ KeysAreForPresentCredentials(stakingModules[id].contract)
  PROVE  RouterStep
<1>1. DOMAIN stakingModules' = DOMAIN stakingModules
  BY LenProperties DEF RouterInv, StakingRouterTypeOK
<1>2. StakingRouterTypeOK'
  BY DEF RouterInv, StakingRouterTypeOK
<1>3. ContractsAreDistinct'
  BY <1>1 DEF RouterInv, ContractsAreDistinct
<1>4. ActiveKeysAreCurrent'
  BY <1>1 DEF RouterInv, ActiveKeysAreCurrent, KeysAreForPresentCredentials, ForCredentials
<1>5. \A c \in Contracts : MovesOn(contracts[c], contracts'[c])
  BY StaysAsItIs DEF RouterInv, StakingRouterTypeOK
<1>6. QED
  BY <1>1, <1>2, <1>3, <1>4, <1>5 DEF RouterStep, RouterInv

LEMMA UpdateModuleStep ==
  ASSUME RouterInv, NEW id \in DOMAIN stakingModules, NEW share \in Nat, NEW fee \in Nat,
         NEW treasuryFee \in Nat, UpdateStakingModule(id, share, fee, treasuryFee)
  PROVE  RouterStep /\ UNCHANGED contracts
<1> DEFINE module == [stakingModules[id] EXCEPT !.targetShare = share, !.stakingModuleFee = fee,
                                                !.treasuryFee = treasuryFee]
<1>1. /\ stakingModules \in Seq(StakingModule) /\ stakingModules[id] \in StakingModule
      /\ DOMAIN stakingModules = 1..Len(stakingModules)
  BY ModuleFacts DEF RouterInv, StakingRouterTypeOK
<1>2. module \in StakingModule /\ module.contract = stakingModules[id].contract
      /\ module.status = stakingModules[id].status
  BY <1>1 DEF StakingModule
<1>3. stakingModules' = [stakingModules EXCEPT ![id] = module]
      /\ UNCHANGED <<withdrawalCredentials, contracts>>
  BY DEF UpdateStakingModule
<1> HIDE DEF module
<1>4. QED
  BY <1>1, <1>2, <1>3, ExceptSeq, ModulesStep

LEMMA SetStatusStep ==
  ASSUME RouterInv, NEW id \in DOMAIN stakingModules,
         NEW status \in {"Active", "DepositsPaused", "Stopped"},
         SetStakingModuleStatus(id, status),
         status = "Active" => KeysAreForPresentCredentials(stakingModules[id].contract)
  PROVE  RouterStep /\ UNCHANGED contracts
<1> DEFINE module == [stakingModules[id] EXCEPT !.status = status]
<1>1. /\ stakingModules \in Seq(StakingModule) /\ stakingModules[id] \in StakingModule
      /\ DOMAIN stakingModules = 1..Len(stakingModules)
  BY ModuleFacts DEF RouterInv, StakingRouterTypeOK
<1>2. module \in StakingModule /\ module.contract = stakingModules[id].contract
      /\ module.status = status
  BY <1>1 DEF StakingModule
<1>3. stakingModules' = [stakingModules EXCEPT ![id] = module]
      /\ UNCHANGED <<withdrawalCredentials, contracts>>
  BY DEF SetStakingModuleStatus
<1> HIDE DEF module
<1>4. QED
  BY <1>1, <1>2, <1>3, ExceptSeq, ModulesStep

LEMMA KeysDropped ==
  ASSUME NEW m \in ModuleContract
  PROVE  /\ OnWithdrawalCredentialsChanged(m) \in ModuleContract
         /\ OnWithdrawalCredentialsChanged(m).ready = <<>>
         /\ OnWithdrawalCredentialsChanged(m).deposited = m.deposited
         /\ MovesOn(m, OnWithdrawalCredentialsChanged(m))
<1> DEFINE nonce == m.nonce + 1
           n == [m EXCEPT !.ready = <<>>, !.nonce = nonce]
<1>1. m.nonce \in Nat /\ nonce \in Nat /\ nonce > m.nonce /\ <<>> \in Seq(ReadyKey)
  BY EmptySeq DEF ModuleContract
<1>2. OnWithdrawalCredentialsChanged(m) = IF m.ready = <<>> THEN m ELSE n
  BY DEF OnWithdrawalCredentialsChanged
<1> HIDE DEF nonce
<1>3. n \in ModuleContract /\ n.ready = <<>> /\ n.nonce = nonce /\ n.deposited = m.deposited
  BY <1>1 DEF ModuleContract
<1> HIDE DEF n
<1>4. MovesOn(m, m) /\ MovesOn(m, n)
  BY <1>1, <1>3, StaysAsItIs DEF MovesOn
<1>5. QED
  BY <1>1, <1>2, <1>3, <1>4

(***************************************************************************)
(* The refunded count of an operator changes: a penalty may take its keys. *)
(***************************************************************************)
LEMMA RefundStep ==
  ASSUME RouterInv, NEW id \in DOMAIN stakingModules, NEW op \in Operators, NEW count \in Nat,
         UpdateRefundedValidatorsCount(id, op, count)
  PROVE  /\ RouterStep
         /\ \A c \in Contracts : /\ contracts'[c].deposited = contracts[c].deposited
                                 /\ contracts'[c].exited = contracts[c].exited
<1>1. PICK c : c = stakingModules[id].contract
  OBVIOUS
<1>2. PICK n : n = WithRefunded(contracts[c], op, count)
  OBVIOUS
<1>3. /\ contracts \in [Contracts -> ModuleContract] /\ stakingModules \in Seq(StakingModule)
      /\ c \in Contracts
  BY <1>1, ModuleFacts DEF RouterInv, StakingRouterTypeOK
<1>4. contracts' = [contracts EXCEPT ![c] = n] /\ UNCHANGED <<stakingModules, withdrawalCredentials>>
  BY <1>1, <1>2 DEF UpdateRefundedValidatorsCount
<1>5. /\ n \in ModuleContract /\ MovesOn(contracts[c], n)
      /\ n.deposited = contracts[c].deposited /\ n.exited = contracts[c].exited
      /\ \A credentials : ForCredentials(contracts[c].ready, credentials)
                             => ForCredentials(n.ready, credentials)
  <2>1. PICK m : m = contracts[c]
    OBVIOUS
  <2>2. m \in ModuleContract /\ n = WithRefunded(m, op, count)
    BY <1>2, <1>3, <2>1
  <2>3. /\ n \in ModuleContract /\ MovesOn(m, n)
        /\ n.deposited = m.deposited /\ n.exited = m.exited
        /\ \A credentials : ForCredentials(m.ready, credentials)
                               => ForCredentials(n.ready, credentials)
    BY <2>2, RefundTold
  <2>4. QED
    BY <2>1, <2>3
<1>6. RouterStep
  BY <1>3, <1>4, <1>5, OneContractStep
<1>7. \A d \in Contracts : contracts'[d] = IF d = c THEN n ELSE contracts[d]
  BY <1>3, <1>4
<1>8. QED
  BY <1>5, <1>6, <1>7

(***************************************************************************)
(* The credentials change: what is left with old keys is not active.       *)
(***************************************************************************)
LEMMA SetCredentialsStep ==
  ASSUME RouterInv, NEW credentials \in Credentials \union {ZeroCredentials}, NEW failing,
         SetWithdrawalCredentials(credentials, failing)
  PROVE  RouterStep /\ \A c \in Contracts : contracts'[c].deposited = contracts[c].deposited
<1> DEFINE dropping == RegisteredContracts \ failing
           module(id) == IF stakingModules[id].contract \in failing
                         THEN [stakingModules[id] EXCEPT !.status = "DepositsPaused"]
                         ELSE stakingModules[id]
<1>1. /\ contracts \in [Contracts -> ModuleContract] /\ stakingModules \in Seq(StakingModule)
      /\ Len(stakingModules) \in Nat /\ DOMAIN stakingModules = 1..Len(stakingModules)
      /\ \A id \in DOMAIN stakingModules : /\ stakingModules[id] \in StakingModule
                                           /\ stakingModules[id].contract \in Contracts
  BY ModuleFacts DEF RouterInv, StakingRouterTypeOK
<1>2. /\ withdrawalCredentials' = credentials
      /\ contracts' = [c \in Contracts |->
           IF c \in dropping THEN OnWithdrawalCredentialsChanged(contracts[c]) ELSE contracts[c]]
      /\ stakingModules' = [id \in DOMAIN stakingModules |-> module(id)]
  BY DEF SetWithdrawalCredentials, ChangeWithdrawalCredentials
<1>3. \A id \in DOMAIN stakingModules :
        /\ module(id) \in StakingModule
        /\ module(id).contract = stakingModules[id].contract
        /\ stakingModules[id].contract \in failing => module(id).status # "Active"
        /\ stakingModules[id].contract \notin failing =>
             /\ stakingModules[id].contract \in dropping
             /\ module(id).status = stakingModules[id].status
  BY <1>1 DEF StakingModule, RegisteredContracts
<1> HIDE DEF dropping, module
<1>4. \A c \in Contracts :
        /\ contracts'[c] \in ModuleContract
        /\ MovesOn(contracts[c], contracts'[c])
        /\ contracts'[c].deposited = contracts[c].deposited
        /\ c \in dropping => contracts'[c].ready = <<>>
  BY <1>1, <1>2, KeysDropped, StaysAsItIs
<1>5. /\ stakingModules' \in Seq(StakingModule) /\ Len(stakingModules') = Len(stakingModules)
      /\ DOMAIN stakingModules' = DOMAIN stakingModules
  <2>1. stakingModules' \in [1..Len(stakingModules) -> StakingModule]
    BY <1>1, <1>2, <1>3
  <2>2. stakingModules' \in Seq(StakingModule)
    BY <1>1, <2>1, IsASeq
  <2>3. QED
    BY <1>1, <2>1, <2>2, LenProperties
<1>6. StakingRouterTypeOK'
  BY <1>1, <1>2, <1>4, <1>5 DEF RouterInv, StakingRouterTypeOK
<1>7. \A id \in DOMAIN stakingModules : stakingModules'[id].contract = stakingModules[id].contract
  BY <1>2, <1>3
<1>8. ContractsAreDistinct'
  BY <1>5, <1>7 DEF RouterInv, ContractsAreDistinct
<1>9. ActiveKeysAreCurrent'
  <2>1. ASSUME NEW id \in DOMAIN stakingModules, stakingModules'[id].status = "Active"
        PROVE  contracts'[stakingModules'[id].contract].ready = <<>>
    BY <1>1, <1>2, <1>3, <1>4, <1>7, <2>1
  <2>2. DOMAIN <<>> = {}
    OBVIOUS
  <2>3. QED
    BY <1>5, <2>1, <2>2 DEF ActiveKeysAreCurrent, ForCredentials
<1>10. QED
  BY <1>4, <1>5, <1>6, <1>7, <1>8, <1>9 DEF RouterStep, RouterInv

(***************************************************************************)
(* A deposit takes the first keys of an active module.                     *)
(***************************************************************************)
LEMMA DepositStep ==
  ASSUME RouterInv, NEW id, NEW count \in Nat, NEW block \in Nat, RouterDeposit(id, count, block)
  PROVE  /\ RouterStep
         /\ id \in DOMAIN stakingModules
         /\ stakingModules[id].status = "Active"
         /\ LET c == stakingModules[id].contract
            IN  /\ \A d \in Contracts \ {c} : contracts'[d] = contracts[d]
                /\ Len(contracts'[c].ready) <= Len(contracts[c].ready)
<1> DEFINE c == stakingModules[id].contract
           m == contracts[c]
           keys == SubSeq(m.ready, 1, count)
           deposited == [op \in Operators |->
             m.deposited[op] + Cardinality({i \in DOMAIN keys : keys[i][1] = op})]
           from == count + 1
           to == Len(m.ready)
           n == [m EXCEPT !.ready = SubSeq(@, from, to), !.nonce = @ + 1, !.deposited = deposited]
           module == [stakingModules[id] EXCEPT !.lastDepositBlock = block]
<1>1. /\ id \in DOMAIN stakingModules /\ stakingModules[id].status = "Active"
      /\ count <= Len(m.ready)
      /\ stakingModules' = [stakingModules EXCEPT ![id] = module]
      /\ contracts' = contracts \/ contracts' = [contracts EXCEPT ![c] = ObtainDepositData(m, count)]
      /\ UNCHANGED withdrawalCredentials
  BY DEF RouterDeposit, Registered
<1>2. /\ contracts \in [Contracts -> ModuleContract] /\ stakingModules \in Seq(StakingModule)
      /\ DOMAIN stakingModules = 1..Len(stakingModules)
      /\ stakingModules[id] \in StakingModule /\ c \in Contracts
  BY <1>1, ModuleFacts DEF RouterInv, StakingRouterTypeOK
<1>3. m \in ModuleContract /\ m.ready \in Seq(ReadyKey) /\ m.deposited \in [Operators -> Nat]
  BY <1>2 DEF ModuleContract, Counts
<1>4. module \in StakingModule /\ module.contract = c /\ module.status = stakingModules[id].status
  BY <1>2 DEF StakingModule
<1>5. /\ stakingModules' \in Seq(StakingModule) /\ Len(stakingModules') = Len(stakingModules)
      /\ \A j \in DOMAIN stakingModules :
           /\ stakingModules'[j].contract = stakingModules[j].contract
           /\ stakingModules'[j].status = stakingModules[j].status
  <2> HIDE DEF module, c
  <2> QED BY <1>1, <1>2, <1>4, ExceptSeq DEF c
<1>6. ObtainDepositData(m, count) = n
  BY DEF ObtainDepositData
<1>7. deposited \in Counts
  <2>1. to \in Nat /\ 1 \in 1..to + 1 /\ count \in 0..to
    <3> HIDE DEF m
    <3> QED BY <1>1, <1>3, LenProperties
  <2>2. keys \in Seq(ReadyKey)
    <3> HIDE DEF m
    <3> QED BY <1>3, <2>1, PartOfKeys
  <2>3. IsFiniteSet(DOMAIN keys)
    <3> HIDE DEF keys
    <3>1. Len(keys) \in Nat /\ DOMAIN keys = 1..Len(keys)
      BY <2>2, LenProperties
    <3>2. QED
      BY <3>1, FS_Interval
  <2>4. ASSUME NEW op \in Operators
        PROVE  Cardinality({i \in DOMAIN keys : keys[i][1] = op}) \in Nat
    <3> DEFINE own == {i \in DOMAIN keys : keys[i][1] = op}
    <3>1. own \in SUBSET DOMAIN keys
      OBVIOUS
    <3> HIDE DEF own, keys
    <3>2. IsFiniteSet(own)
      BY <2>3, <3>1, FS_Subset
    <3>3. Cardinality(own) \in Nat
      BY <3>2, FS_CardinalityType
    <3>4. QED
      BY <3>3 DEF own
  <2>5. QED
    <3> HIDE DEF m, keys
    <3> QED BY <1>3, <2>4 DEF Counts
<1>8. /\ n \in ModuleContract /\ MovesOn(m, n) /\ Len(n.ready) <= Len(m.ready)
      /\ ForCredentials(m.ready, withdrawalCredentials)
           => ForCredentials(n.ready, withdrawalCredentials)
  <2>1. from \in 1..Len(m.ready) + 1 /\ to \in 0..Len(m.ready)
    <3> HIDE DEF m
    <3> QED BY <1>1, <1>3, LenProperties
  <2> HIDE DEF m, deposited, from, to
  <2>2. QED
    BY <1>3, <1>7, <2>1, KeysTaken
<1>9. /\ m \in ModuleContract /\ MovesOn(m, m)
  BY <1>3, StaysAsItIs
<1> HIDE DEF n, module
<1>10. PICK k \in {m, n} : contracts' = [contracts EXCEPT ![c] = k]
  <2>1. CASE contracts' = contracts
    BY <1>2, <2>1
  <2>2. CASE contracts' = [contracts EXCEPT ![c] = ObtainDepositData(m, count)]
    BY <1>6, <2>2
  <2>3. QED
    BY <1>1, <2>1, <2>2
<1>11. /\ k \in ModuleContract /\ MovesOn(m, k) /\ Len(k.ready) <= Len(m.ready)
       /\ ForCredentials(m.ready, withdrawalCredentials)
            => ForCredentials(k.ready, withdrawalCredentials)
  <2>1. Len(m.ready) \in Nat
    <3> HIDE DEF m
    <3> QED BY <1>3, LenProperties
  <2>2. QED
    <3> HIDE DEF m
    <3> QED BY <1>8, <1>9, <1>10, <2>1
<1>12. RouterStep
  <2> HIDE DEF c
  <2> QED BY <1>1, <1>2, <1>5, <1>10, <1>11, OneContractStep
<1>13. QED
  <2> HIDE DEF c
  <2>1. \A d \in Contracts : contracts'[d] = IF d = c THEN k ELSE contracts[d]
    BY <1>2, <1>10
  <2>2. QED
    BY <1>1, <1>2, <1>11, <1>12, <2>1 DEF c

------------------------------------------------------------------------------

(***************************************************************************)
(* The tables of guardians stay inverse to one another.                    *)
(***************************************************************************)
LEMMA AddGuardianKeepsInv ==
  ASSUME GuardiansInv, NEW g \in Addresses, NEW q \in Nat, AddGuardian(g, q)
  PROVE  GuardiansInv'
<1> DEFINE total == Len(guardians)
<1>1. /\ guardians \in Seq(Addresses) /\ guardianIndicesOneBased \in [Addresses -> Nat]
      /\ total \in Nat /\ DOMAIN guardians = 1..total
  BY LenProperties DEF GuardiansInv
<1>2. /\ guardians' = Append(guardians, g) /\ guardianIndicesOneBased[g] = 0 /\ quorum' = q
  BY <1>1 DEF AddGuardian, IsGuardian
<1>3. /\ guardians' \in Seq(Addresses) /\ Len(guardians') = total + 1
      /\ \A i \in 1..total : guardians'[i] = guardians[i]
      /\ guardians'[total + 1] = g
  BY <1>1, <1>2, AppendProperties
<1>4. DOMAIN guardians' = 1..total + 1
  BY <1>3, LenProperties
<1>5. guardianIndicesOneBased' = [guardianIndicesOneBased EXCEPT ![g] = total + 1]
  BY <1>3 DEF AddGuardian
<1> HIDE DEF total
<1>6. /\ guardianIndicesOneBased' \in [Addresses -> Nat]
      /\ guardianIndicesOneBased'[g] = total + 1
      /\ \A h \in Addresses \ {g} : guardianIndicesOneBased'[h] = guardianIndicesOneBased[h]
  BY <1>1, <1>5
<1>7. \A i \in 1..total : guardians[i] \in Addresses /\ guardianIndicesOneBased[guardians[i]] = i
  BY <1>1, ElementOfSeq DEF GuardiansInv, total
<1>8. \A i \in DOMAIN guardians' : guardianIndicesOneBased'[guardians'[i]] = i
  <2>1. ASSUME NEW i \in 1..total PROVE guardianIndicesOneBased'[guardians'[i]] = i
    <3>1. guardians[i] # g
      BY <1>1, <1>2, <1>7
    <3>2. QED
      BY <1>3, <1>6, <1>7, <3>1
  <2>2. \A i \in DOMAIN guardians' : i \in 1..total \/ i = total + 1
    BY <1>1, <1>4
  <2>3. QED
    BY <1>3, <1>6, <2>1, <2>2
<1>9. \A h \in Addresses : IsGuardian(h)' =>
        /\ guardianIndicesOneBased'[h] \in DOMAIN guardians'
        /\ guardians'[guardianIndicesOneBased'[h]] = h
  <2> SUFFICES ASSUME NEW h \in Addresses, guardianIndicesOneBased'[h] > 0
               PROVE  /\ guardianIndicesOneBased'[h] \in DOMAIN guardians'
                      /\ guardians'[guardianIndicesOneBased'[h]] = h
    BY DEF IsGuardian
  <2>1. CASE h = g
    BY <1>1, <1>3, <1>4, <1>6, <2>1
  <2>2. CASE h # g
    <3>1. guardianIndicesOneBased'[h] = guardianIndicesOneBased[h]
      BY <1>6, <2>2
    <3>2. guardianIndicesOneBased[h] \in 1..total /\ guardians[guardianIndicesOneBased[h]] = h
      BY <1>1, <3>1 DEF GuardiansInv, IsGuardian
    <3>3. QED
      BY <1>1, <1>3, <1>4, <3>1, <3>2
  <2>3. QED
    BY <2>1, <2>2
<1>10. QED
  BY <1>2, <1>3, <1>6, <1>8, <1>9 DEF GuardiansInv

LEMMA RemoveGuardianKeepsInv ==
  ASSUME GuardiansInv, NEW g \in Addresses, NEW q \in Nat, RemoveGuardian(g, q)
  PROVE  GuardiansInv'
<1> DEFINE total == Len(guardians)
           rest == total - 1
           index == guardianIndicesOneBased[g]
           last == guardians[total]
           swapped == [guardians EXCEPT ![index] = last]
<1>1. /\ guardians \in Seq(Addresses) /\ guardianIndicesOneBased \in [Addresses -> Nat]
      /\ total \in Nat /\ DOMAIN guardians = 1..total
      /\ index \in 1..total /\ guardians[index] = g
  BY LenProperties DEF GuardiansInv, RemoveGuardian
<1>2. total \in 1..total /\ rest \in 0..total /\ total = rest + 1
  BY <1>1
<1>3. /\ \A i \in 1..total : guardians[i] \in Addresses /\ guardianIndicesOneBased[guardians[i]] = i
      /\ last \in Addresses
  BY <1>1, <1>2, ElementOfSeq DEF GuardiansInv
<1>4. /\ swapped \in Seq(Addresses) /\ Len(swapped) = total
      /\ \A i \in 1..total : swapped[i] = IF i = index THEN last ELSE guardians[i]
  <2> HIDE DEF index, last
  <2> QED BY <1>1, <1>3, ExceptSeq
<1>5. /\ guardians' = SubSeq(swapped, 1, rest) /\ quorum' = q
      /\ guardianIndicesOneBased' = [guardianIndicesOneBased EXCEPT ![last] = index, ![g] = 0]
  <2> HIDE DEF swapped
  <2>1. guardians' = Front(swapped)
    BY DEF RemoveGuardian, Last, swapped
  <2>2. QED
    BY <1>4, <2>1 DEF RemoveGuardian, Front, Last
<1> HIDE DEF swapped, last, index, rest, total
<1>6. /\ guardians' \in Seq(Addresses) /\ DOMAIN guardians' = 1..rest
      /\ \A i \in 1..rest : guardians'[i] = swapped[i]
  <2>1. \A i \in 1..rest : swapped[i] \in Addresses
    BY <1>1, <1>2, <1>3, <1>4
  <2>2. /\ SubSeq(swapped, 1, rest) \in Seq(Addresses)
        /\ Len(SubSeq(swapped, 1, rest)) = IF 1 <= rest THEN rest - 1 + 1 ELSE 0
        /\ \A k \in 1..rest - 1 + 1 : SubSeq(swapped, 1, rest)[k] = swapped[1 + k - 1]
    BY <1>1, <1>2, <2>1, SubSeqProperties
  <2>3. rest \in Nat /\ rest - 1 + 1 = rest
    BY <1>1, <1>2
  <2>4. Len(guardians') = rest /\ guardians' \in Seq(Addresses)
    BY <1>5, <2>2, <2>3
  <2>5. ASSUME NEW i \in 1..rest PROVE guardians'[i] = swapped[i]
    <3>1. 1 + i - 1 = i
      BY <2>3
    <3>2. QED
      BY <1>5, <2>2, <2>3, <3>1
  <2>6. QED
    BY <2>4, <2>5, LenProperties
<1>7. /\ guardianIndicesOneBased' \in [Addresses -> Nat]
      /\ guardianIndicesOneBased'[g] = 0
      /\ last # g => guardianIndicesOneBased'[last] = index
      /\ \A h \in Addresses \ {g, last} : guardianIndicesOneBased'[h] = guardianIndicesOneBased[h]
  BY <1>1, <1>3, <1>5
<1>8. last = g <=> index = total
  BY <1>1, <1>2, <1>3 DEF last, index
<1>9. ASSUME NEW i \in 1..rest
      PROVE  guardianIndicesOneBased'[guardians'[i]] = i
  <2>1. i \in 1..total /\ i # total
    BY <1>1, <1>2
  <2>2. CASE i = index
    BY <1>4, <1>6, <1>7, <1>8, <2>1, <2>2
  <2>3. CASE i # index
    <3>1. guardians'[i] = guardians[i] /\ guardianIndicesOneBased[guardians[i]] = i
          /\ guardians[i] \in Addresses
      BY <1>3, <1>4, <1>6, <2>1, <2>3
    <3>2. guardians[i] # g /\ guardians[i] # last
      BY <1>2, <1>3, <2>1, <2>3, <3>1 DEF last, index
    <3>3. QED
      BY <1>7, <3>1, <3>2
  <2>4. QED
    BY <2>2, <2>3
<1>10. ASSUME NEW h \in Addresses, guardianIndicesOneBased'[h] > 0
       PROVE  /\ guardianIndicesOneBased'[h] \in 1..rest
              /\ guardians'[guardianIndicesOneBased'[h]] = h
  <2>1. h # g
    BY <1>7, <1>10
  <2>2. CASE h = last
    <3>1. guardianIndicesOneBased'[h] = index /\ index # total
      BY <1>7, <1>8, <2>1, <2>2
    <3>2. index \in 1..rest
      BY <1>1, <1>2, <3>1
    <3>3. QED
      BY <1>1, <1>4, <1>6, <2>2, <3>1, <3>2
  <2>3. CASE h # last
    <3> DEFINE k == guardianIndicesOneBased[h]
    <3>1. guardianIndicesOneBased'[h] = k
      BY <1>7, <2>1, <2>3
    <3>2. k \in 1..total /\ guardians[k] = h
      BY <1>1, <1>10, <3>1 DEF GuardiansInv, IsGuardian
    <3> HIDE DEF k
    <3>3. k # total /\ k # index
      BY <1>1, <2>1, <2>3, <3>2 DEF last
    <3>4. k \in 1..rest
      BY <1>1, <1>2, <3>2, <3>3
    <3>5. QED
      BY <1>4, <1>6, <3>1, <3>2, <3>3, <3>4
  <2>4. QED
    BY <2>2, <2>3
<1>11. QED
  BY <1>5, <1>6, <1>7, <1>9, <1>10 DEF GuardiansInv, IsGuardian

------------------------------------------------------------------------------

(***************************************************************************)
(* Signers in strictly ascending order are different.                      *)
(***************************************************************************)
LEMMA LeastIndex ==
  ASSUME NEW S \in SUBSET Nat, S # {}
  PROVE  \E m \in S : \A n \in S : m <= n
<1> DEFINE Less == {pair \in Nat \X Nat : pair[1] < pair[2]}
<1>1. IsWellFoundedOn(Less, Nat)
  BY NatLessThanWellFounded DEF OpToRel
<1>2. PICK m \in S : \A n \in S : ~ (<<n, m>> \in Less)
  <2> HIDE DEF Less
  <2> QED BY <1>1, WFMin
<1>3. ASSUME NEW n \in S PROVE m <= n
  <2>1. n < m => <<n, m>> \in Less
    OBVIOUS
  <2>2. ~ (n < m)
    <3> HIDE DEF Less
    <3> QED BY <1>2, <2>1
  <2>3. QED
    BY <2>2
<1>4. QED
  BY <1>3

LEMMA AscendingSignersDiffer ==
  ASSUME NEW n \in Nat, NEW s \in [1..n -> Nat], \A i \in 1..n - 1 : s[i] < s[i + 1]
  PROVE  IsInjective(s)
<1>1. ASSUME NEW i \in 1..n, NEW j \in 1..n, i < j PROVE s[i] < s[j]
  <2> DEFINE Wrong == {k \in 1..n : i < k /\ ~ (s[i] < s[k])}
  <2>1. CASE Wrong = {}
    BY <1>1, <2>1
  <2>2. CASE Wrong # {}
    <3>1. Wrong \in SUBSET Nat
      OBVIOUS
    <3>2. PICK k \in Wrong : \A l \in Wrong : k <= l
      <4> HIDE DEF Wrong
      <4> QED BY <2>2, <3>1, LeastIndex
    <3>3. k \in 1..n /\ i < k /\ ~ (s[i] < s[k])
      OBVIOUS
    <3> DEFINE before == k - 1
    <3>4. before \in 1..n - 1 /\ before \in 1..n /\ before + 1 = k /\ i <= before
      BY <3>3
    <3>5. before \notin Wrong
      <4> HIDE DEF Wrong
      <4> QED BY <3>1, <3>2, <3>4
    <3>6. i = before \/ s[i] < s[before]
      <4> HIDE DEF before
      <4> QED BY <3>4, <3>5
    <3> HIDE DEF before
    <3>7. s[before] < s[k]
      BY <3>4
    <3>8. s[i] \in Nat /\ s[before] \in Nat /\ s[k] \in Nat
      BY <3>3, <3>4
    <3>9. QED
      BY <3>3, <3>6, <3>7, <3>8
  <2>3. QED
    BY <2>1, <2>2
<1>2. ASSUME NEW i \in 1..n, NEW j \in 1..n, s[i] = s[j] PROVE i = j
  <2>1. s[i] \in Nat /\ s[j] \in Nat
    OBVIOUS
  <2>2. ~ (i < j) /\ ~ (j < i)
    BY <1>1, <1>2, <2>1
  <2>3. QED
    BY <2>2
<1>3. QED
  BY <1>2 DEF IsInjective

(***************************************************************************)
(* Signatures that are accepted come from a quorum of the guardians, who   *)
(* have seen the keys at hand.                                             *)
(***************************************************************************)
LEMMA AcceptedIsVetted ==
  ASSUME DepositsInv, NEW message \in attested,
         NEW signers \in BoundedSeq({b.guardian : b \in attested}, Len(guardians)),
         DepositBufferedEther(message, signers, now)
  PROVE  Vetted(message.stakingModuleId)
<1> DEFINE id == message.stakingModuleId
           c == stakingModules[id].contract
           vetting == {g \in ToSet(guardians) : \E a \in attested :
                         /\ a.guardian = g
                         /\ a.stakingModuleId = id
                         /\ a.depositRoot = depositRoot
                         /\ \E gone \in SUBSET Operators :
                              Remaining(contracts[c].ready, a.ready, gone)}
           n == Len(signers)
<1>1. /\ quorum # 0 /\ Len(signers) >= quorum
      /\ message.depositRoot = depositRoot
      /\ message.nonce = contracts[c].nonce
      /\ VerifySignatures(message, signers)
  BY DEF DepositBufferedEther
<1>2. \A a \in attested : a.guardian \in Addresses
  BY DEF DepositsInv, AttestedInv
<1>3. n \in Nat /\ signers \in [1..n -> Addresses]
  <2>1. Len(guardians) \in Nat
    BY LenProperties DEF DepositsInv, GuardiansInv
  <2>2. PICK k \in 0..Len(guardians) : signers \in [1..k -> {b.guardian : b \in attested}]
    BY <2>1 DEF BoundedSeq, SeqOf
  <2>3. k \in Nat /\ signers \in [1..k -> Addresses]
    BY <1>2, <2>1, <2>2
  <2>4. signers \in Seq(Addresses)
    BY <2>3, IsASeq
  <2>5. Len(signers) = k
    BY <2>3, <2>4, LenProperties
  <2>6. QED
    BY <2>3, <2>5
<1>4. ASSUME NEW i \in 1..n PROVE signers[i] \in vetting
  <2>1. signers[i] \in Addresses /\ IsGuardian(signers[i]) /\ Signed(signers[i], message)
    BY <1>1, <1>3 DEF VerifySignatures
  <2>2. signers[i] \in ToSet(guardians)
    BY <2>1 DEF DepositsInv, GuardiansInv, ToSet
  <2>3. PICK a \in attested : /\ a.guardian = signers[i]
                              /\ a.depositRoot = depositRoot
                              /\ a.stakingModuleId = id
                              /\ a.nonce = contracts[c].nonce
    BY <1>1, <2>1 DEF Signed
  <2>4. \E gone \in SUBSET Operators : Remaining(contracts[c].ready, a.ready, gone)
    BY <2>3 DEF DepositsInv, AttestedInv, Pinned
  <2>5. QED
    BY <2>2, <2>3, <2>4
<1>5. IsInjective(signers)
  <2>1. signers \in [1..n -> Nat] /\ n \in Nat
    BY <1>3, DepositSecurityAssumption
  <2>2. \A i \in 1..n - 1 : signers[i] < signers[i + 1]
    BY <1>1 DEF VerifySignatures
  <2> HIDE DEF n
  <2>3. QED
    BY <2>1, <2>2, AscendingSignersDiffer
<1>6. IsFiniteSet(vetting)
  <2>1. \A i \in DOMAIN guardians : guardians[i] \in Addresses
    BY ElementOfSeq, LenProperties DEF DepositsInv, GuardiansInv
  <2>2. vetting \in SUBSET Addresses
    BY <2>1 DEF ToSet
  <2> HIDE DEF vetting
  <2>3. QED
    BY <2>2, FS_Subset, DepositSecurityAssumption
<1>7. Cardinality(vetting) \in Nat /\ n <= Cardinality(vetting)
  <2> HIDE DEF vetting, n
  <2>1. signers \in Injection(1..n, vetting)
    BY <1>3, <1>4, <1>5 DEF Injection
  <2>2. Cardinality(1..n) <= Cardinality(vetting)
    BY <1>6, <2>1, FS_Injection
  <2>3. Cardinality(1..n) = n
    BY <1>3, FS_Interval
  <2>4. QED
    BY <1>6, <2>2, <2>3, FS_CardinalityType
<1>8. quorum \in Nat
  BY DEF DepositsInv, GuardiansInv
<1>9. Cardinality(vetting) >= quorum
  <2> HIDE DEF vetting
  <2> QED BY <1>1, <1>3, <1>7, <1>8
<1>10. QED
  <2> HIDE DEF id
  <2> QED BY <1>1, <1>9 DEF Vetted, id

(***************************************************************************)
(* The number of deposits is a number.                                     *)
(***************************************************************************)
LEMMA SmallerOfTwo == ASSUME NEW a \in Nat, NEW b \in Nat PROVE Min({a, b}) \in Nat
<1>1. \E x \in {a, b} : \A y \in {a, b} : x <= y
  OBVIOUS
<1>2. Min({a, b}) \in {a, b}
  BY <1>1 DEF Min
<1>3. QED
  BY <1>2

------------------------------------------------------------------------------

(***************************************************************************)
(* Every step keeps the invariant, and what it deposits is vetted and for  *)
(* the credentials of now.                                                 *)
(***************************************************************************)
UnderTheirCredentials(id) ==
  LET c == stakingModules[id].contract
      keys == DepositedKeys(contracts[c], contracts'[c])
  IN  \A i \in DOMAIN keys : keys[i][2] = withdrawalCredentials

DepositsAreGood ==
  \A id \in DOMAIN stakingModules : DepositsTo(id) => Vetted(id) /\ UnderTheirCredentials(id)

Good == DepositsInv' /\ DepositsAreGood

NoDeposit == \A c \in Contracts : contracts'[c].deposited = contracts[c].deposited

LEMMA NoDepositIsGood == ASSUME DepositsInv, NoDeposit PROVE DepositsAreGood
  BY ModuleFacts DEF DepositsInv, RouterInv, NoDeposit, DepositsAreGood, DepositsTo

LEMMA SignaturesStay ==
  ASSUME DepositsInv, RouterStep, UNCHANGED <<seen, attested>>
  PROVE  SeenInv' /\ AttestedInv'
<1>1. ASSUME NEW c \in Contracts
      PROVE  /\ contracts[c] \in ModuleContract /\ contracts'[c] \in ModuleContract
             /\ MovesOn(contracts[c], contracts'[c])
  BY DEF DepositsInv, RouterStep, RouterInv, StakingRouterTypeOK
<1>2. SeenInv'
  BY <1>1, PinnedStays DEF DepositsInv, SeenInv
<1>3. ASSUME NEW a \in attested
      PROVE  /\ a.guardian \in Addresses
             /\ a.stakingModuleId \in DOMAIN stakingModules'
             /\ Pinned(a.nonce, a.ready, contracts'[stakingModules'[a.stakingModuleId].contract])
  <2> DEFINE id == a.stakingModuleId
             c == stakingModules[id].contract
  <2>1. a.guardian \in Addresses /\ id \in DOMAIN stakingModules
        /\ Pinned(a.nonce, a.ready, contracts[c])
    BY DEF DepositsInv, AttestedInv
  <2>2. id \in DOMAIN stakingModules' /\ stakingModules'[id].contract = c
    BY <2>1 DEF RouterStep
  <2>3. c \in Contracts
    BY <2>1, ModuleFacts DEF DepositsInv, RouterInv
  <2> HIDE DEF c
  <2>4. Pinned(a.nonce, a.ready, contracts'[c])
    BY <1>1, <2>1, <2>3, PinnedStays
  <2>5. QED
    BY <2>1, <2>2, <2>4
<1>4. AttestedInv'
  BY <1>3 DEF AttestedInv
<1>5. QED
  BY <1>2, <1>4

LEMMA RouterStepIsGood ==
  ASSUME DepositsInv, RouterStep, NoDeposit, now' \in Nat,
         UNCHANGED <<scenario, settings, guardianVars, seen, attested>>
  PROVE  Good
<1>1. SeenInv' /\ AttestedInv'
  BY SignaturesStay
<1>2. Deposits' /\ GuardiansInv' /\ SettingsInv'
  BY DEF DepositsInv, Deposits, GuardiansInv, IsGuardian, SettingsInv, guardianVars
<1>3. QED
  BY <1>1, <1>2, NoDepositIsGood DEF DepositsInv, RouterStep, Good

LEMMA RouterUnchanged ==
  ASSUME DepositsInv, UNCHANGED routerVars
  PROVE  RouterStep /\ NoDeposit
<1>1. RouterInv'
  BY DEF DepositsInv, RouterInv, StakingRouterTypeOK, ContractsAreDistinct, ActiveKeysAreCurrent,
         routerVars
<1>2. \A c \in Contracts : MovesOn(contracts[c], contracts'[c])
  BY StaysAsItIs DEF DepositsInv, RouterInv, StakingRouterTypeOK, routerVars
<1>3. QED
  BY <1>1, <1>2 DEF RouterStep, NoDeposit, routerVars

LEMMA SlotEndsIsGood == ASSUME DepositsInv, SlotEnds PROVE Good
<1>1. RouterStep /\ NoDeposit
  BY RouterUnchanged DEF SlotEnds
<1>2. UNCHANGED <<scenario, settings, guardianVars, attested, contracts>> /\ now' \in Nat
      /\ seen' = Look(now)
  BY DEF SlotEnds, DepositsInv, routerVars
<1>3. SeenInv'
  <2>1. ASSUME NEW c \in Contracts PROVE Pinned(seen'.nonce[c], seen'.ready[c], contracts[c])
    <3>1. seen'.nonce[c] = contracts[c].nonce /\ seen'.ready[c] = contracts[c].ready
      BY <1>2 DEF Look
    <3>2. contracts[c].nonce \in Nat /\ contracts[c].ready \in Seq(ReadyKey)
      BY DEF DepositsInv, RouterInv, StakingRouterTypeOK, ModuleContract
    <3>3. Remaining(contracts[c].ready, seen'.ready[c], {})
      BY <3>1, <3>2, NothingGone
    <3>4. QED
      BY <3>1, <3>2, <3>3 DEF Pinned
  <2>2. QED
    BY <1>2, <2>1 DEF SeenInv
<1>4. AttestedInv'
  BY <1>2 DEF DepositsInv, AttestedInv, SlotEnds, routerVars
<1>5. Deposits' /\ GuardiansInv' /\ SettingsInv'
  BY <1>2 DEF DepositsInv, Deposits, GuardiansInv, IsGuardian, SettingsInv, guardianVars
<1>6. QED
  BY <1>1, <1>2, <1>3, <1>4, <1>5, NoDepositIsGood DEF DepositsInv, RouterStep, Good

LEMMA SigningIsGood ==
  ASSUME DepositsInv, NEW g \in ToSet(guardians), NEW id \in DOMAIN stakingModules,
         GuardianSigns(g, id)
  PROVE  Good
<1>1. RouterStep /\ NoDeposit
  BY RouterUnchanged DEF GuardianSigns
<1>2. UNCHANGED <<scenario, now, settings, guardianVars, seen, contracts, stakingModules>>
  BY DEF GuardianSigns, worldVars, baseOracleVars, routerVars
<1>3. SeenInv'
  BY <1>2 DEF DepositsInv, SeenInv
<1>4. Deposits' /\ GuardiansInv' /\ SettingsInv'
  BY <1>2 DEF DepositsInv, Deposits, GuardiansInv, IsGuardian, SettingsInv, guardianVars
<1>5. CASE UNCHANGED attested
  <2>1. AttestedInv'
    BY <1>2, <1>5 DEF DepositsInv, AttestedInv
  <2>2. QED
    BY <1>1, <1>2, <1>3, <1>4, <2>1, NoDepositIsGood DEF DepositsInv, RouterStep, Good
<1>6. CASE Attest(g, id)
  <2> DEFINE c == stakingModules[id].contract
             a == [guardian |-> g, block |-> seen.block, depositRoot |-> seen.depositRoot,
                   stakingModuleId |-> id, nonce |-> seen.nonce[c], ready |-> seen.ready[c]]
  <2>1. attested' = attested \union {a}
    BY <1>6 DEF Attest
  <2>2. c \in Contracts
    BY ModuleFacts DEF DepositsInv, RouterInv
  <2>3. g \in Addresses
    BY ElementOfSeq, LenProperties DEF DepositsInv, GuardiansInv, ToSet
  <2>4. /\ a.guardian \in Addresses /\ a.stakingModuleId = id
        /\ Pinned(a.nonce, a.ready, contracts[c])
    BY <2>2, <2>3 DEF DepositsInv, SeenInv
  <2> HIDE DEF a
  <2>5. AttestedInv'
    BY <1>2, <2>1, <2>4 DEF DepositsInv, AttestedInv
  <2>6. QED
    BY <1>1, <1>2, <1>3, <1>4, <2>5, NoDepositIsGood DEF DepositsInv, RouterStep, Good
<1>7. QED
  BY <1>5, <1>6 DEF GuardianSigns

LEMMA DepositingIsGood == ASSUME DepositsInv, SomebodyDeposits PROVE Good
<1>1. /\ UNCHANGED <<scenario, now, settings, guardianVars, seen, attested>>
      /\ \E a \in attested : \E signers \in BoundedSeq({b.guardian : b \in attested}, Len(guardians)) :
           DepositBufferedEther(a, signers, now)
  BY DEF SomebodyDeposits, worldVars, baseOracleVars, signatureVars
<1>2. PICK a \in attested, signers \in BoundedSeq({b.guardian : b \in attested}, Len(guardians)) :
        DepositBufferedEther(a, signers, now)
  BY <1>1
<1> DEFINE id == a.stakingModuleId
           max == settings.maxDepositsPerBlock
           count == Min({max, MaxDepositsCount(id, depositable)})
           c == stakingModules[id].contract
<1>3. RouterDeposit(id, count, now) /\ MaxDepositsCount(id, depositable) \in Nat
  BY <1>2 DEF DepositBufferedEther, LidoDeposit
<1>4. count \in Nat /\ now \in Nat
  BY <1>3, SmallerOfTwo DEF DepositsInv, SettingsInv
<1>5. /\ RouterStep
      /\ id \in DOMAIN stakingModules
      /\ stakingModules[id].status = "Active"
      /\ \A d \in Contracts \ {c} : contracts'[d] = contracts[d]
      /\ Len(contracts'[c].ready) <= Len(contracts[c].ready)
  <2> HIDE DEF count, id
  <2> QED BY <1>3, <1>4, DepositStep DEF DepositsInv
<1>6. Vetted(id)
  BY <1>2, AcceptedIsVetted
<1>7. /\ c \in Contracts /\ contracts[c] \in ModuleContract /\ contracts'[c] \in ModuleContract
  BY <1>5, ModuleFacts DEF DepositsInv, RouterStep, RouterInv, StakingRouterTypeOK
<1>8. UnderTheirCredentials(id)
  <2> DEFINE m == contracts[c]
             taken == Len(m.ready) - Len(contracts'[c].ready)
             keys == SubSeq(m.ready, 1, taken)
  <2>1. ForCredentials(m.ready, withdrawalCredentials)
    BY <1>5 DEF DepositsInv, RouterInv, ActiveKeysAreCurrent
  <2>2. m.ready \in Seq(ReadyKey) /\ contracts'[c].ready \in Seq(ReadyKey)
    BY <1>7 DEF ModuleContract
  <2>3. taken \in 0..Len(m.ready) /\ 1 \in 1..Len(m.ready) + 1
    <3>1. Len(m.ready) \in Nat /\ Len(contracts'[c].ready) \in Nat
      <4> HIDE DEF c
      <4> QED BY <2>2, LenProperties
    <3>2. Len(contracts'[c].ready) <= Len(m.ready)
      BY <1>5
    <3>3. \A x, y \in Nat : y <= x => x - y \in 0..x /\ 1 \in 1..x + 1
      OBVIOUS
    <3>4. QED
      <4> DEFINE before == Len(m.ready)
                 after == Len(contracts'[c].ready)
      <4>1. before \in Nat /\ after \in Nat /\ after <= before
        BY <3>1, <3>2
      <4>2. taken = before - after
        OBVIOUS
      <4>3. taken \in 0..before /\ 1 \in 1..before + 1
        <5> HIDE DEF before, after, taken
        <5> QED BY <3>3, <4>1, <4>2
      <4>4. QED
        BY <4>3
  <2>4. \A i \in DOMAIN keys : \E j \in DOMAIN m.ready : keys[i] = m.ready[j]
    <3> HIDE DEF m, taken
    <3> QED BY <2>2, <2>3, PartOfKeys
  <2>5. \A i \in DOMAIN keys : keys[i][2] = withdrawalCredentials
    <3> HIDE DEF keys, m
    <3> QED BY <2>1, <2>4 DEF ForCredentials
  <2>6. DepositedKeys(contracts[c], contracts'[c]) = keys
    BY DEF DepositedKeys
  <2>7. QED
    <3> HIDE DEF keys
    <3> QED BY <2>5, <2>6 DEF UnderTheirCredentials
<1>9. DepositsAreGood
  <2> SUFFICES ASSUME NEW k \in DOMAIN stakingModules, DepositsTo(k)
               PROVE  k = id
    BY <1>6, <1>8 DEF DepositsAreGood
  <2>1. stakingModules[k].contract = c
    BY <1>5, ModuleFacts DEF DepositsTo, DepositsInv, RouterInv
  <2>2. QED
    BY <1>5, <2>1 DEF DepositsInv, RouterInv, ContractsAreDistinct
<1>10. SeenInv' /\ AttestedInv'
  BY <1>1, <1>5, SignaturesStay
<1>11. Deposits' /\ GuardiansInv' /\ SettingsInv'
  BY <1>1 DEF DepositsInv, Deposits, GuardiansInv, IsGuardian, SettingsInv, guardianVars
<1>12. QED
  BY <1>1, <1>5, <1>9, <1>10, <1>11 DEF DepositsInv, RouterStep, Good

LEMMA ManagingIsGood == ASSUME DepositsInv, DaoManagesRouter PROVE Good
<1>1. UNCHANGED <<scenario, now, settings, guardianVars, seen, attested>> /\ now \in Nat
  BY DEF DaoManagesRouter, baseOracleVars, securityVars, signatureVars, DepositsInv
<1>2. RouterInv /\ Fees \subseteq Nat /\ TOTAL_BASIS_POINTS \in Nat
  BY BoundsAssumption, StakingRouterAssumption DEF DepositsInv
<1>3. ASSUME RouterStep, NoDeposit PROVE Good
  BY <1>1, <1>3, RouterStepIsGood DEF DepositsInv
<1>4. ASSUME RouterStep, UNCHANGED contracts PROVE Good
  BY <1>3, <1>4 DEF NoDeposit
<1>5. ASSUME NEW c \in Contracts, NEW fee \in Fees, NEW treasuryFee \in Fees,
             KeysAreForPresentCredentials(c),
             AddStakingModule(c, TOTAL_BASIS_POINTS, fee, treasuryFee, now)
      PROVE  Good
  BY <1>1, <1>2, <1>4, <1>5, AddModuleStep
<1>6. ASSUME NEW id \in DOMAIN stakingModules, NEW share \in Fees, NEW fee \in Fees,
             NEW treasuryFee \in Fees, UpdateStakingModule(id, share, fee, treasuryFee)
      PROVE  Good
  BY <1>2, <1>4, <1>6, UpdateModuleStep
<1>7. ASSUME NEW id \in DOMAIN stakingModules, NEW status \in {"Active", "DepositsPaused", "Stopped"},
             KeysAreForPresentCredentials(stakingModules[id].contract),
             SetStakingModuleStatus(id, status)
      PROVE  Good
  BY <1>2, <1>4, <1>7, SetStatusStep
<1>8. ASSUME NEW id \in DOMAIN stakingModules,
             KeysAreForPresentCredentials(stakingModules[id].contract), UnpauseDeposits(id)
      PROVE  Good
  BY <1>7, <1>8 DEF UnpauseDeposits, ResumeStakingModule
<1>9. ASSUME NEW credentials \in Credentials \union {ZeroCredentials}, NEW failing,
             SetWithdrawalCredentials(credentials, failing)
      PROVE  Good
  BY <1>2, <1>3, <1>9, SetCredentialsStep DEF NoDeposit
<1>10. ASSUME NEW id \in DOMAIN stakingModules, NEW op \in Operators, NEW count \in Limits,
              UpdateRefundedValidatorsCount(id, op, count)
       PROVE  Good
  BY <1>2, <1>3, <1>10, RefundStep, BoundsAssumption DEF NoDeposit
<1>11. QED
  BY <1>5, <1>6, <1>7, <1>8, <1>9, <1>10 DEF DaoManagesRouter

LEMMA PausingIsGood == ASSUME DepositsInv, SomebodyPauses PROVE Good
<1>1. UNCHANGED <<scenario, now, settings, guardianVars, seen, attested>> /\ now \in Nat
  BY DEF SomebodyPauses, worldVars, baseOracleVars, securityVars, signatureVars, DepositsInv
<1>2. PICK g, blockNumber, id : PauseDeposits(g, blockNumber, id, now)
  BY DEF SomebodyPauses
<1>3. SetStakingModuleStatus(id, "DepositsPaused") /\ id \in DOMAIN stakingModules
  BY <1>2 DEF PauseDeposits, PauseStakingModule, SetStakingModuleStatus, Registered
<1>4. RouterStep /\ UNCHANGED contracts
  BY <1>3, SetStatusStep DEF DepositsInv
<1>5. QED
  BY <1>1, <1>4, RouterStepIsGood DEF NoDeposit

LEMMA KeysAreManagedGood == ASSUME DepositsInv, OperatorsManageKeys PROVE Good
<1>1. UNCHANGED <<scenario, now, settings, guardianVars, seen, attested>> /\ now \in Nat
  BY DEF OperatorsManageKeys, worldVars, baseOracleVars, securityVars, signatureVars, DepositsInv
<1>2. PICK c \in Contracts : (\E op \in Operators : AddSigningKey(c, op)) \/ RemoveSigningKey(c)
  BY DEF OperatorsManageKeys
<1>3. RouterStep /\ NoDeposit
  BY <1>2, AddKeyStep, RemoveKeyStep DEF DepositsInv, NoDeposit
<1>4. QED
  BY <1>1, <1>3, RouterStepIsGood

LEMMA OwnerIsGood == ASSUME DepositsInv, OwnerManagesSecurity PROVE Good
<1>1. UNCHANGED <<scenario, now, seen, attested, routerVars>>
  BY DEF OwnerManagesSecurity, baseOracleVars, signatureVars
<1>2. GuardiansInv' /\ SettingsInv'
  <2>1. ASSUME NEW q \in Quorums PROVE q \in Nat
    BY BoundsAssumption
  <2>2. ASSUME UNCHANGED guardianVars PROVE GuardiansInv'
    BY <2>2 DEF DepositsInv, GuardiansInv, IsGuardian, guardianVars
  <2>3. ASSUME UNCHANGED settings PROVE SettingsInv'
    BY <2>3 DEF DepositsInv, SettingsInv
  <2>4. ASSUME NEW q \in Quorums,
               \/ \E g \in Addresses : AddGuardian(g, q) \/ RemoveGuardian(g, q)
               \/ SetGuardianQuorum(q)
        PROVE  GuardiansInv'
    <3>1. CASE SetGuardianQuorum(q)
      BY <2>1, <3>1 DEF DepositsInv, GuardiansInv, IsGuardian, SetGuardianQuorum
    <3>2. CASE \E g \in Addresses : AddGuardian(g, q) \/ RemoveGuardian(g, q)
      BY <2>1, <3>2, AddGuardianKeepsInv, RemoveGuardianKeepsInv DEF DepositsInv
    <3>3. QED
      BY <2>4, <3>1, <3>2
  <2>5. ASSUME NEW name \in DOMAIN settings, NEW value \in Limits, SetSetting(name, value)
        PROVE  SettingsInv'
    BY <2>5, BoundsAssumption DEF DepositsInv, SettingsInv, SetSetting
  <2>6. QED
    BY <2>2, <2>3, <2>4, <2>5 DEF OwnerManagesSecurity, guardianVars
<1>3. RouterStep /\ NoDeposit
  BY <1>1, RouterUnchanged
<1>4. SeenInv' /\ AttestedInv'
  BY <1>1, <1>3, SignaturesStay
<1>5. QED
  BY <1>1, <1>2, <1>3, <1>4, NoDepositIsGood DEF DepositsInv, Deposits, RouterStep, Good

LEMMA NextIsGood == ASSUME DepositsInv, [Next]_vars PROVE Good
<1>1. ASSUME UNCHANGED <<scenario, now, settings, guardianVars, seen, attested, routerVars>>
      PROVE  Good
  BY <1>1, RouterUnchanged, RouterStepIsGood DEF DepositsInv
<1>2. CASE OthersDeposit
  BY <1>1, <1>2 DEF OthersDeposit, baseOracleVars, signatureVars, worldVars
<1>3. CASE UNCHANGED vars
  BY <1>1, <1>3 DEF vars, baseOracleVars, securityVars, signatureVars, worldVars
<1>4. ~Reports /\ ~Exits /\ ~Trustless
  BY DEF DepositsInv, Deposits, Reports, Exits, Trustless
<1>5. /\ ~AccountingCommittee /\ ~AccountingMainData /\ ~AccountingExtraData
      /\ \A c, op : ~ChainMoves(c, op)
      /\ \A id, op, trigger : ~DaoCorrects(id, op, trigger)
      /\ ~ExitBusCommittee /\ ~ExitBusData /\ ~ExitBusPauses
      /\ ~AnyConsensusContract /\ ~AnyVersionOrPause
  BY <1>4 DEF AccountingCommittee, AccountingMainData, AccountingExtraData, ChainMoves,
       DaoCorrects, ExitBusCommittee, ExitBusData, ExitBusPauses, AnyConsensusContract,
       AnyVersionOrPause
<1>6. QED
  BY <1>2, <1>3, <1>5, SlotEndsIsGood, SigningIsGood, DepositingIsGood, PausingIsGood,
     KeysAreManagedGood, ManagingIsGood, OwnerIsGood DEF Next

------------------------------------------------------------------------------

(***************************************************************************)
(* The initial state.                                                      *)
(***************************************************************************)
LEMMA IndexOfGuardian ==
  ASSUME NEW s \in Seq(Addresses), IsInjective(s), NEW g \in Addresses
  PROVE  LET indices == {i \in DOMAIN s : s[i] = g} \union {0}
         IN  \/ Max(indices) \in DOMAIN s /\ s[Max(indices)] = g
             \/ Max(indices) = 0 /\ \A i \in DOMAIN s : s[i] # g
<1> DEFINE indices == {i \in DOMAIN s : s[i] = g} \union {0}
<1>1. Len(s) \in Nat /\ DOMAIN s = 1..Len(s)
  BY LenProperties
<1>2. CASE \A i \in DOMAIN s : s[i] # g
  <2>1. indices = {0}
    BY <1>2
  <2>2. Max({0}) = 0
    BY DEF Max
  <2>3. QED
    BY <1>2, <2>1, <2>2
<1>3. ASSUME NEW k \in DOMAIN s, s[k] = g
      PROVE  Max(indices) = k
  <2>1. indices = {k, 0}
    BY <1>3 DEF IsInjective
  <2>2. \E x \in {k, 0} : \A y \in {k, 0} : x >= y
    BY <1>1, <1>3
  <2>3. Max({k, 0}) \in {k, 0} /\ Max({k, 0}) >= k
    BY <2>2 DEF Max
  <2>4. Max({k, 0}) = k
    BY <1>1, <1>3, <2>3
  <2>5. QED
    <3> HIDE DEF indices
    <3> QED BY <2>1, <2>4
<1>4. QED
  BY <1>2, <1>3

LEMMA InitDeposits == ASSUME Init, Deposits PROVE DepositsInv
<1> DEFINE s == Scenarios[scenario]
<1>1. /\ s.stakingModules \in Seq(StakingModule)
      /\ Len(s.stakingModules) <= MAX_STAKING_MODULES_COUNT
      /\ IsInjective([id \in DOMAIN s.stakingModules |-> s.stakingModules[id].contract])
      /\ s.contracts \in [Contracts -> ModuleContract]
      /\ s.credentials \in Credentials
      /\ \A c \in Contracts : \A i \in DOMAIN s.contracts[c].ready :
           s.contracts[c].ready[i][2] = s.credentials
      /\ s.guardians \in Seq(Addresses)
      /\ IsInjective(s.guardians)
  BY ScenariosAssumption DEF Init
<1>2. /\ stakingModules = s.stakingModules /\ contracts = s.contracts
      /\ withdrawalCredentials = s.credentials /\ guardians = s.guardians
      /\ now = 1 /\ quorum = Len(guardians) /\ seen = Look(0) /\ attested = {}
      /\ guardianIndicesOneBased = [g \in Addresses |->
           Max({i \in DOMAIN guardians : guardians[i] = g} \union {0})]
      /\ settings = [maxDepositsPerBlock |-> 2, minDepositBlockDistance |-> 1,
                     pauseIntentValidityPeriodBlocks |-> 1]
  BY DEF Init
<1> HIDE DEF s
<1>3. RouterInv
  <2>1. StakingRouterTypeOK
    BY <1>1, <1>2 DEF StakingRouterTypeOK
  <2>2. ContractsAreDistinct
    BY <1>1, <1>2 DEF ContractsAreDistinct, IsInjective
  <2>3. ActiveKeysAreCurrent
    BY <1>1, <1>2, <2>1, ModuleFacts DEF ActiveKeysAreCurrent, ForCredentials
  <2>4. QED
    BY <2>1, <2>2, <2>3 DEF RouterInv
<1>4. GuardiansInv
  <2>1. /\ guardians \in Seq(Addresses) /\ IsInjective(guardians)
        /\ Len(guardians) \in Nat /\ DOMAIN guardians = 1..Len(guardians)
        /\ \A i \in DOMAIN guardians : guardians[i] \in Addresses
    BY <1>1, <1>2, LenProperties, ElementOfSeq
  <2>2. ASSUME NEW g \in Addresses
        PROVE  \/ /\ guardianIndicesOneBased[g] \in DOMAIN guardians
                  /\ guardians[guardianIndicesOneBased[g]] = g
               \/ /\ guardianIndicesOneBased[g] = 0
                  /\ \A i \in DOMAIN guardians : guardians[i] # g
    BY <1>2, <2>1, IndexOfGuardian
  <2>3. guardianIndicesOneBased \in [Addresses -> Nat]
    <3>1. \A g \in Addresses : guardianIndicesOneBased[g] \in Nat
      BY <2>1, <2>2
    <3>2. QED
      BY <1>2, <3>1
  <2>4. \A i \in DOMAIN guardians : guardianIndicesOneBased[guardians[i]] = i
    BY <2>1, <2>2 DEF IsInjective
  <2>5. ASSUME NEW g \in Addresses, IsGuardian(g)
        PROVE  /\ guardianIndicesOneBased[g] \in DOMAIN guardians
               /\ guardians[guardianIndicesOneBased[g]] = g
    BY <2>2, <2>5 DEF IsGuardian
  <2>6. quorum \in Nat
    BY <1>2, <2>1
  <2>7. QED
    BY <2>1, <2>3, <2>4, <2>5, <2>6 DEF GuardiansInv
<1>5. SettingsInv
  BY <1>2 DEF SettingsInv
<1>6. SeenInv
  <2>1. \A c \in Contracts : contracts[c].nonce \in Nat /\ contracts[c].ready \in Seq(ReadyKey)
    BY <1>3 DEF RouterInv, StakingRouterTypeOK, ModuleContract
  <2>2. \A c \in Contracts : seen.nonce[c] = contracts[c].nonce /\ seen.ready[c] = contracts[c].ready
    BY <1>2 DEF Look
  <2>3. \A c \in Contracts : Remaining(contracts[c].ready, seen.ready[c], {})
    BY <2>1, <2>2, NothingGone
  <2>4. QED
    BY <2>1, <2>2, <2>3 DEF SeenInv, Pinned
<1>7. AttestedInv
  BY <1>2 DEF AttestedInv
<1>8. QED
  BY <1>2, <1>3, <1>4, <1>5, <1>6, <1>7 DEF DepositsInv

------------------------------------------------------------------------------

(***************************************************************************)
(* The requests of a report to the exit bus.  What is stored when the list *)
(* ends is Stored of the state at hand: every request raises the index of  *)
(* its operator there, so no validator is listed twice or was asked before.*)
(***************************************************************************)
LastIndices == [NodeOpKeys -> ValIndices \union {NOT_REQUESTED}]

RequestState ==
  [reverted : BOOLEAN, stored : LastIndices, key : NodeOpKeys \union {NO_KEY},
   index : ValIndices \union {NOT_REQUESTED}, previous : Requests \union {<<0, 0, 0>>}]

FirstState ==
  [reverted |-> FALSE, stored |-> lastRequested, key |-> NO_KEY,
   index |-> NOT_REQUESTED, previous |-> <<0, 0, 0>>]

RequestSteps(requests) ==
  [pair \in (1..Len(requests)) \X RequestState |-> ProcessExitRequest(pair[2], requests[pair[1]])]

KeyOf(r) == <<r[1], r[2]>>

LEMMA KeyOfRequest ==
  ASSUME NEW r \in Requests
  PROVE  /\ KeyOf(r) \in NodeOpKeys /\ r[3] \in ValIndices /\ r[3] \in Nat
         /\ r = <<KeyOf(r)[1], KeyOf(r)[2], r[3]>>
         /\ KeyOf(r)[1] = r[1]
<1>1. PICK m \in ModuleIds, o \in NodeOpIds, i \in ValIndices : r = <<m, o, i>>
  BY DEF Requests
<1>2. KeyOf(r) = <<m, o>> /\ r[3] = i /\ r[1] = m
  BY <1>1 DEF KeyOf
<1>3. KeyOf(r) \in NodeOpKeys
  BY <1>2 DEF NodeOpKeys
<1>4. QED
  BY <1>1, <1>2, <1>3, ExitBusAssumption

LEMMA StoredType ==
  ASSUME NEW state \in RequestState
  PROVE  Stored(state) \in LastIndices
  BY DEF RequestState, Stored, LastIndices

LEMMA RequestKeepsType ==
  ASSUME NEW state \in RequestState, NEW r \in Requests
  PROVE  ProcessExitRequest(state, r) \in RequestState
<1>1. KeyOf(r) \in NodeOpKeys /\ r[3] \in ValIndices
  BY KeyOfRequest
<1>2. Stored(state) \in LastIndices /\ state.stored \in LastIndices
  BY StoredType DEF RequestState
<1>3. DEFINE stored == IF KeyOf(r) = state.key THEN state.stored ELSE Stored(state)
<1>4. stored \in LastIndices
  BY <1>2
<1> HIDE DEF stored
<1>5. CASE ProcessExitRequest(state, r) =
             [state EXCEPT !.stored = stored, !.key = KeyOf(r), !.index = r[3], !.previous = r]
  BY <1>1, <1>4, <1>5 DEF RequestState
<1>6. CASE ProcessExitRequest(state, r) = [state EXCEPT !.reverted = TRUE, !.previous = r]
  BY <1>6 DEF RequestState
<1>7. QED
  BY <1>5, <1>6 DEF ProcessExitRequest, KeyOf, stored

LEMMA RequestIsStored ==
  ASSUME NEW state \in RequestState, NEW r \in Requests, NEW next,
         next = ProcessExitRequest(state, r), ~next.reverted
  PROVE  /\ ~state.reverted
         /\ next.key # NO_KEY
         /\ r[3] > Stored(state)[KeyOf(r)]
         /\ Stored(next) = [Stored(state) EXCEPT ![KeyOf(r)] = r[3]]
<1> DEFINE key == KeyOf(r)
           stored == IF key = state.key THEN state.stored ELSE Stored(state)
           index == IF key = state.key THEN state.index ELSE stored[key]
<1>1. key \in NodeOpKeys /\ key[1] = r[1] /\ key = <<r[1], r[2]>>
  BY KeyOfRequest DEF KeyOf
<1>2. /\ ModuleIsValid(r[1]) /\ r[3] > index
      /\ next = [state EXCEPT !.stored = stored, !.key = key, !.index = r[3], !.previous = r]
  <2>1. CASE Precedes(state.previous, r) /\ ModuleIsValid(r[1]) /\ r[3] > index
    BY <2>1, <1>1 DEF ProcessExitRequest
  <2>2. CASE ~(Precedes(state.previous, r) /\ ModuleIsValid(r[1]) /\ r[3] > index)
    <3>1. next = [state EXCEPT !.reverted = TRUE, !.previous = r]
      BY <2>2, <1>1 DEF ProcessExitRequest
    <3>2. next.reverted
      BY <3>1 DEF RequestState
    <3>3. QED
      BY <3>2
  <2>3. QED
    BY <2>1, <2>2
<1>3. key # NO_KEY
  BY <1>1, <1>2 DEF ModuleIsValid, NO_KEY
<1>4. /\ next.reverted = state.reverted /\ next.stored = stored
      /\ next.key = key /\ next.index = r[3]
  BY <1>2 DEF RequestState
<1>5. CASE key = state.key
  <2>1. Stored(state) = [state.stored EXCEPT ![key] = state.index]
    BY <1>3, <1>5 DEF Stored
  <2>2. Stored(next) = [state.stored EXCEPT ![key] = r[3]]
    BY <1>3, <1>4, <1>5 DEF Stored
  <2>3. state.stored \in LastIndices
    BY DEF RequestState
  <2>4. Stored(state)[key] = state.index
    BY <1>1, <2>1, <2>3 DEF LastIndices
  <2>5. r[3] > Stored(state)[key]
    BY <1>2, <1>5, <2>4
  <2>6. Stored(next) = [Stored(state) EXCEPT ![key] = r[3]]
    <3> HIDE DEF key
    <3> QED BY <2>1, <2>2, <2>3 DEF LastIndices
  <2>7. QED
    BY <1>3, <1>4, <2>5, <2>6
<1>6. CASE key # state.key
  BY <1>2, <1>3, <1>4, <1>6 DEF Stored
<1>7. QED
  BY <1>5, <1>6

LEMMA RequestsHaveTrace ==
  ASSUME NEW requests \in Seq(Requests), lastRequested \in LastIndices
  PROVE  HasFoldTrace(Len(requests), RequestState, FirstState, RequestSteps(requests),
                      FoldLeft(ProcessExitRequest, FirstState, requests))
<1> DEFINE n == Len(requests)
           S == 1..n
           V == RequestState
           F == RequestSteps(requests)
           body(h) == [s \in SUBSET S |-> IF s = {} THEN FirstState
                         ELSE ProcessExitRequest(h[s \ {Max(s)}], requests[Max(s)])]
<1>0. n \in Nat /\ DOMAIN requests = S /\ \A i \in S : requests[i] \in Requests
  BY LenProperties, ElementOfSeq
<1>1. F \in [S \X V -> V]
      /\ \A i \in S, st \in V : F[<<i, st>>] = ProcessExitRequest(st, requests[i])
  <2>1. \A pair \in S \X V : ProcessExitRequest(pair[2], requests[pair[1]]) \in V
    BY <1>0, RequestKeepsType
  <2>2. QED
    BY <2>1 DEF RequestSteps
<1> HIDE DEF V, F, n
<1>2. FirstState \in V
  BY DEF V, FirstState, RequestState
<1>3. PICK g : FoldsWith(g, n, V, FirstState, F)
  BY <1>0, <1>1, <1>2, FoldExists
<1>4. \A s \in SUBSET S : s # {} => Max(s) \in S
  BY <1>0, HasGreatest
<1>5. g = body(g)
  <2>1. ASSUME NEW s \in SUBSET S PROVE g[s] = body(g)[s]
    <3>1. CASE s = {}
      BY <1>3, <3>1 DEF FoldsWith
    <3>2. CASE s # {}
      <4>1. s \ {Max(s)} \in SUBSET S
        OBVIOUS
      <4>2. g[s \ {Max(s)}] \in V /\ g[s] = F[<<Max(s), g[s \ {Max(s)}]>>]
        BY <1>3, <3>2, <4>1 DEF FoldsWith
      <4>3. g[s] = ProcessExitRequest(g[s \ {Max(s)}], requests[Max(s)])
        BY <1>1, <1>4, <3>2, <4>2
      <4>4. QED
        BY <3>2, <4>3
    <3>3. QED
      BY <3>1, <3>2
  <2>2. g = [s \in SUBSET S |-> g[s]]
    BY <1>3 DEF FoldsWith
  <2>3. body(g) = [s \in SUBSET S |-> body(g)[s]]
    OBVIOUS
  <2> HIDE DEF body
  <2>4. QED
    BY <2>1, <2>2, <2>3
<1> DEFINE iter == CHOOSE h : h = body(h)
<1>6. iter = body(iter)
  <2> HIDE DEF body
  <2> QED BY <1>5
<1>7. FoldLeft(ProcessExitRequest, FirstState, requests) = iter[S]
  BY <1>0 DEF FoldLeft, MapThenFoldSet
<1> HIDE DEF iter
<1>8. iter[{}] = FirstState
  BY <1>6
<1>9. ASSUME NEW s \in SUBSET S, s # {}, iter[s \ {Max(s)}] \in V
      PROVE  iter[s] = F[<<Max(s), iter[s \ {Max(s)}]>>]
  <2>1. iter[s] = ProcessExitRequest(iter[s \ {Max(s)}], requests[Max(s)])
    BY <1>6, <1>9
  <2>2. QED
    BY <1>1, <1>4, <1>9, <2>1
<1> HIDE DEF body
<1>10. IsFold(iter, n, V, FirstState, F)
  BY <1>8, <1>9 DEF IsFold
<1>11. HasFoldTrace(n, V, FirstState, F, iter[1..n])
  BY <1>0, <1>1, <1>2, <1>10, FoldHasTrace
<1>12. QED
  BY <1>7, <1>11 DEF V, F, n

(***************************************************************************)
(* What the first k requests of a list, none of them refused, have stored. *)
(***************************************************************************)
Raised(requests, k, stored) ==
  /\ \A j \in 1..k : /\ lastRequested[KeyOf(requests[j])] < requests[j][3]
                     /\ requests[j][3] <= stored[KeyOf(requests[j])]
  /\ \A i \in 1..k, j \in 1..k : i < j => requests[i] # requests[j]
  /\ \A key \in NodeOpKeys :
       \/ stored[key] = lastRequested[key]
       \/ \E j \in 1..k : requests[j] = <<key[1], key[2], stored[key]>>

LEMMA OneMoreRaised ==
  ASSUME NEW requests \in Seq(Requests), lastRequested \in LastIndices,
         NEW k \in Nat, k + 1 \in 1..Len(requests),
         NEW stored \in LastIndices, Raised(requests, k, stored),
         NEW r, r = requests[k + 1], r[3] > stored[KeyOf(r)],
         NEW next, next = [stored EXCEPT ![KeyOf(r)] = r[3]]
  PROVE  Raised(requests, k + 1, next)
<1>1. /\ Len(requests) \in Nat /\ 1..k \subseteq 1..Len(requests)
      /\ 1..(k + 1) = (1..k) \union {k + 1} /\ k + 1 \notin 1..k
      /\ \A i \in 1..Len(requests) : requests[i] \in Requests
  <2>1. Len(requests) \in Nat /\ \A i \in 1..Len(requests) : requests[i] \in Requests
    BY ElementOfSeq, LenProperties
  <2>2. 1..k \subseteq 1..Len(requests) /\ 1..(k + 1) = (1..k) \union {k + 1} /\ k + 1 \notin 1..k
    BY <2>1
  <2>3. QED
    BY <2>1, <2>2
<1>2. r \in Requests /\ KeyOf(r) \in NodeOpKeys /\ r[3] \in Nat
      /\ r = <<KeyOf(r)[1], KeyOf(r)[2], r[3]>>
  BY <1>1, KeyOfRequest
<1>3. \A key \in NodeOpKeys : stored[key] \in Int /\ lastRequested[key] \in Int
  <2>1. \A i \in ValIndices \union {NOT_REQUESTED} : i \in Int
    BY ExitBusAssumption DEF NOT_REQUESTED
  <2>2. \A f \in LastIndices : \A key \in NodeOpKeys : f[key] \in ValIndices \union {NOT_REQUESTED}
    BY DEF LastIndices
  <2>3. QED
    BY <2>1, <2>2
<1>4. next[KeyOf(r)] = r[3] /\ \A key \in NodeOpKeys : key # KeyOf(r) => next[key] = stored[key]
  <2> DEFINE changed == KeyOf(r)
             value == r[3]
  <2>1. next = [stored EXCEPT ![changed] = value] /\ changed \in NodeOpKeys /\ DOMAIN stored = NodeOpKeys
    BY <1>2 DEF LastIndices
  <2> HIDE DEF changed, value
  <2>2. next[changed] = value /\ \A key \in NodeOpKeys : key # changed => next[key] = stored[key]
    BY <2>1
  <2>3. QED
    BY <2>2 DEF changed, value
<1>5. lastRequested[KeyOf(r)] <= stored[KeyOf(r)]
  <2>1. CASE stored[KeyOf(r)] = lastRequested[KeyOf(r)]
    BY <1>2, <1>3, <2>1
  <2>2. ASSUME NEW j \in 1..k, requests[j] = <<KeyOf(r)[1], KeyOf(r)[2], stored[KeyOf(r)]>>
        PROVE  lastRequested[KeyOf(r)] <= stored[KeyOf(r)]
    <3>1. KeyOf(requests[j]) = KeyOf(r) /\ requests[j][3] = stored[KeyOf(r)]
      BY <2>2 DEF KeyOf
    <3>2. lastRequested[KeyOf(requests[j])] < requests[j][3]
      BY <2>2 DEF Raised
    <3>3. QED
      BY <1>2, <1>3, <3>1, <3>2
  <2>3. QED
    BY <1>2, <2>1, <2>2 DEF Raised
<1>6. ASSUME NEW j \in 1..(k + 1)
      PROVE  /\ lastRequested[KeyOf(requests[j])] < requests[j][3]
             /\ requests[j][3] <= next[KeyOf(requests[j])]
  <2>1. CASE j = k + 1
    BY <1>2, <1>3, <1>4, <1>5, <2>1
  <2>2. CASE j # k + 1
    <3>1. j \in 1..k /\ requests[j] \in Requests
      BY <1>1, <2>2
    <3>2. KeyOf(requests[j]) \in NodeOpKeys /\ requests[j][3] \in Nat
      BY <3>1, KeyOfRequest
    <3>3. lastRequested[KeyOf(requests[j])] < requests[j][3]
          /\ requests[j][3] <= stored[KeyOf(requests[j])]
      BY <3>1 DEF Raised
    <3>4. QED
      BY <1>2, <1>3, <1>4, <3>2, <3>3
  <2>3. QED
    BY <2>1, <2>2
<1>7. ASSUME NEW i \in 1..(k + 1), NEW j \in 1..(k + 1), i < j
      PROVE  requests[i] # requests[j]
  <2>1. i \in 1..k
    BY <1>1, <1>7
  <2>2. CASE j \in 1..k
    BY <1>7, <2>1, <2>2 DEF Raised
  <2>3. CASE j = k + 1
    <3>1. SUFFICES ASSUME requests[i] = r PROVE FALSE
      BY <2>3
    <3>2. r[3] <= stored[KeyOf(r)]
      BY <2>1, <3>1 DEF Raised
    <3>3. QED
      BY <1>2, <1>3, <3>2
  <2>4. QED
    BY <1>1, <2>2, <2>3
<1>8. ASSUME NEW key \in NodeOpKeys
      PROVE  \/ next[key] = lastRequested[key]
             \/ \E j \in 1..(k + 1) : requests[j] = <<key[1], key[2], next[key]>>
  <2>1. CASE key = KeyOf(r)
    <3>1. requests[k + 1] = <<key[1], key[2], next[key]>> /\ k + 1 \in 1..(k + 1)
      BY <1>1, <1>2, <1>4, <2>1
    <3>2. QED
      BY <3>1
  <2>2. CASE key # KeyOf(r)
    BY <1>1, <1>4, <2>2, ZenonT(30) DEF Raised
  <2>3. QED
    BY <2>1, <2>2
<1>9. QED
  BY <1>6, <1>7, <1>8 DEF Raised

LEMMA AcceptedRequests ==
  ASSUME NEW requests \in Seq(Requests), lastRequested \in LastIndices,
         NEW result, result = ProcessExitRequestsList(requests), ~result.reverted
  PROVE  result.stored \in LastIndices /\ Raised(requests, Len(requests), result.stored)
<1> DEFINE n == Len(requests)
           V == RequestState
           F == RequestSteps(requests)
           last == FoldLeft(ProcessExitRequest, FirstState, requests)
<1>1. HasFoldTrace(n, V, FirstState, F, last)
  BY RequestsHaveTrace
<1>2. n \in Nat /\ \A i \in 1..n : requests[i] \in Requests
  BY LenProperties, ElementOfSeq
<1>3. result = [reverted |-> last.reverted, stored |-> Stored(last)]
  BY DEF ProcessExitRequestsList, FirstState, FinallyStored
<1> HIDE DEF last, F, n
<1>4. PICK trace : FoldTrace(trace, n, V, FirstState, F) /\ trace[n] = last
  BY <1>1 DEF HasFoldTrace
<1>5. /\ \A k \in 0..n : trace[k] \in V
      /\ trace[0] = FirstState
  BY <1>2, <1>4 DEF FoldTrace
<1>6. ASSUME NEW k \in Nat, k + 1 \in 1..n
      PROVE  trace[k + 1] = ProcessExitRequest(trace[k], requests[k + 1])
  <2>1. trace[k + 1] = F[<<k + 1, trace[k]>>] /\ trace[k] \in V
    BY <1>2, <1>4, <1>5, <1>6 DEF FoldTrace
  <2>2. QED
    BY <1>6, <2>1 DEF F, RequestSteps, n
<1> DEFINE Fine(k) == ~trace[k].reverted => Raised(requests, k, Stored(trace[k]))
           N == {k \in Nat : k <= n => Fine(k)}
<1>7. Fine(0)
  <2>1. Stored(trace[0]) = lastRequested
    BY <1>5 DEF FirstState, Stored
  <2>2. QED
    BY <2>1 DEF Raised
<1>8. ASSUME NEW k \in Nat, k + 1 \in 1..n, Fine(k) PROVE Fine(k + 1)
  <2> SUFFICES ASSUME ~trace[k + 1].reverted PROVE Raised(requests, k + 1, Stored(trace[k + 1]))
    OBVIOUS
  <2> DEFINE r == requests[k + 1]
  <2>1. trace[k] \in V /\ r \in Requests
    BY <1>2, <1>5, <1>8
  <2>2. trace[k + 1] = ProcessExitRequest(trace[k], r)
    BY <1>6, <1>8
  <2> HIDE DEF r
  <2>3. /\ ~trace[k].reverted
        /\ r[3] > Stored(trace[k])[KeyOf(r)]
        /\ Stored(trace[k + 1]) = [Stored(trace[k]) EXCEPT ![KeyOf(r)] = r[3]]
    BY <2>1, <2>2, RequestIsStored
  <2>4. Stored(trace[k]) \in LastIndices
    BY <2>1, StoredType
  <2>5. Raised(requests, k, Stored(trace[k]))
    BY <1>8, <2>3
  <2>6. QED
    BY <1>8, <2>3, <2>4, <2>5, OneMoreRaised DEF r, n
<1> HIDE DEF Fine
<1>9. N = Nat
  <2>1. 0 \in N
    BY <1>7
  <2>2. \A k \in N : k + 1 \in N
    BY <1>2, <1>8
  <2> HIDE DEF N
  <2>3. N \in SUBSET Nat
    BY DEF N
  <2>4. QED
    BY <2>1, <2>2, <2>3, AllNaturals
<1>10. Fine(n)
  BY <1>2, <1>9
<1>11. last \in V
  BY <1>2, <1>4, <1>5
<1>12. QED
  BY <1>3, <1>4, <1>10, <1>11, StoredType DEF Fine, n

------------------------------------------------------------------------------

(***************************************************************************)
(* The exit bus over all reports: the index stored for an operator is one  *)
(* that was asked, and no greater one was.                                 *)
(***************************************************************************)
ListsRequests(hash) ==
  hash # ZeroHash => hash.payload[1] \in Seq(Requests) /\ hash.payload[2] \in Nat

ExitOracleInv ==
  /\ DOMAIN oracle = Oracles
  /\ DOMAIN oracle[exitBus] = DOMAIN Initialized(consensus, 1, 0)
  /\ DOMAIN oracle[exitBus].report = {"hash", "refSlot", "processingDeadlineTime"}
  /\ ListsRequests(oracle[exitBus].report.hash)

AskedInv ==
  /\ lastRequested \in LastIndices
  /\ asked \in [Requests -> {0, 1}]
  /\ \A r \in Requests : asked[r] # 0 => r[3] <= lastRequested[KeyOf(r)]
  /\ \A key \in NodeOpKeys :
       lastRequested[key] # NOT_REQUESTED => asked[<<key[1], key[2], lastRequested[key]>>] = 1
  /\ totalRequestsProcessed = SumFunction(asked)

ExitInv == ExitOracleInv /\ AskedInv

LEMMA RequestsAreFinite == IsFiniteSet(Requests)
<1> DEFINE pairs == (ModuleIds \X NodeOpIds) \X ValIndices
           triple == [x \in pairs |-> <<x[1][1], x[1][2], x[2]>>]
<1>1. IsFiniteSet(pairs)
  BY ExitBusAssumption, FS_Product
<1>2. IsFiniteSet({triple[x] : x \in pairs})
  <2> HIDE DEF pairs, triple
  <2> QED BY <1>1, ImageIsFinite
<1>3. Requests \subseteq {triple[x] : x \in pairs}
  <2> SUFFICES ASSUME NEW m \in ModuleIds, NEW o \in NodeOpIds, NEW i \in ValIndices
               PROVE  <<m, o, i>> \in {triple[x] : x \in pairs}
    BY DEF Requests
  <2>1. <<<<m, o>>, i>> \in pairs /\ triple[<<<<m, o>>, i>>] = <<m, o, i>>
    OBVIOUS
  <2> HIDE DEF pairs, triple
  <2>2. QED
    BY <2>1
<1>4. QED
  <2> HIDE DEF pairs, triple
  <2> QED BY <1>2, <1>3, FS_Subset

LEMMA OneMoreEach ==
  ASSUME NEW f, NEW h, NEW S, Integral(f, S), Integral(h, S), NEW n \in Nat, NEW s,
         \A i \in 1..n : s[i] \in S, \A i \in 1..n, j \in 1..n : s[i] = s[j] => i = j,
         \A i \in 1..n : h[s[i]] = f[s[i]] + 1,
         \A x \in S \ {s[i] : i \in 1..n} : h[x] = f[x]
  PROVE  SumFunctionOnSet(h, S) = SumFunctionOnSet(f, S) + n
<1> DEFINE D == {s[i] : i \in 1..n}
           one == [x \in S |-> 1]
           ones == [i \in 1..n |-> 1]
<1>1. D \in SUBSET S /\ IsFiniteSet(1..n) /\ Cardinality(1..n) = n
  <2>1. IsFiniteSet(1..n) /\ Cardinality(1..n) = n
    BY FS_Interval
  <2>2. QED
    BY <2>1
<1>2. \A x \in D : one[x] = h[x] - f[x]
  <2> SUFFICES ASSUME NEW i \in 1..n PROVE one[s[i]] = h[s[i]] - f[s[i]]
    OBVIOUS
  <2>1. f[s[i]] \in Int /\ h[s[i]] = f[s[i]] + 1 /\ one[s[i]] = 1
    BY DEF Integral
  <2>2. QED
    BY <2>1
<1>3. \A i \in 1..n : one[s[i]] = ones[i] /\ ones[i] = 1 /\ ones[i] \in Int
  OBVIOUS
<1> HIDE DEF one, ones
<1>4. SumFunctionOnSet(one, D) = SumFunctionOnSet(ones, 1..n)
  <2>1. Integral(ones, 1..n) /\ IsFiniteSet(S)
    BY <1>1, <1>3 DEF Integral
  <2>2. \A x, y \in 1..n : s[x] = s[y] => x = y
    OBVIOUS
  <2>3. \A x \in 1..n : s[x] \in S /\ one[s[x]] = ones[x]
    BY <1>3
  <2>4. SumFunctionOnSet(one, {s[x] : x \in 1..n}) = SumFunctionOnSet(ones, 1..n)
    BY <2>1, <2>2, <2>3, SumRenamed
  <2>5. QED
    BY <2>4
<1>5. SumFunctionOnSet(ones, 1..n) = n
  <2>1. \A i \in 1..n : ones[i] = 1
    BY <1>3
  <2>2. SumFunctionOnSet(ones, 1..n) = Cardinality(1..n) * 1
    BY ONLY <1>1, <2>1, SumOfConstant
  <2>3. QED
    BY <1>1, <2>2
<1>6. SumFunctionOnSet(h, S) = SumFunctionOnSet(f, S) + SumFunctionOnSet(one, D)
  <2>1. \A x \in S \ D : h[x] = f[x]
    OBVIOUS
  <2> HIDE DEF D
  <2>2. QED
    BY <1>1, <1>2, <2>1, SumChanges
<1>7. QED
  <2> HIDE DEF D
  <2> QED BY <1>4, <1>5, <1>6

LEMMA AskedKeepsInv ==
  ASSUME AskedInv, NEW requests \in Seq(Requests), NEW result,
         result = ProcessExitRequestsList(requests), ~result.reverted,
         lastRequested' = result.stored,
         totalRequestsProcessed' = totalRequestsProcessed + Len(requests),
         asked' = [r \in Requests |->
           asked[r] + Cardinality({i \in DOMAIN requests : requests[i] = r})]
  PROVE  AskedInv'
<1> DEFINE n == Len(requests)
           stored == result.stored
           D == {requests[i] : i \in 1..n}
<1>1. stored \in LastIndices /\ Raised(requests, n, stored)
  BY AcceptedRequests DEF AskedInv
<1>2. n \in Nat /\ DOMAIN requests = 1..n /\ (\A i \in 1..n : requests[i] \in Requests)
      /\ D \in SUBSET Requests
  <2>1. n \in Nat /\ DOMAIN requests = 1..n /\ (\A i \in 1..n : requests[i] \in Requests)
    BY LenProperties, ElementOfSeq
  <2>2. QED
    BY <2>1
<1> HIDE DEF n, stored
<1>3. \A i \in 1..n, j \in 1..n : requests[i] = requests[j] => i = j
  BY <1>1, <1>2 DEF Raised
<1>4. ASSUME NEW key \in NodeOpKeys
      PROVE  lastRequested[key] \in Int /\ stored[key] \in Int /\ lastRequested[key] <= stored[key]
  <2>1. \A i \in ValIndices \union {NOT_REQUESTED} : i \in Int
    BY ExitBusAssumption DEF NOT_REQUESTED
  <2>2. \A f \in LastIndices : f[key] \in ValIndices \union {NOT_REQUESTED}
    BY DEF LastIndices
  <2>3. lastRequested[key] \in Int /\ stored[key] \in Int
    BY <1>1, <2>1, <2>2 DEF AskedInv
  <2>4. ASSUME NEW j \in 1..n, requests[j] = <<key[1], key[2], stored[key]>>
        PROVE  lastRequested[key] <= stored[key]
    <3>1. key = KeyOf(requests[j]) /\ requests[j][3] = stored[key]
      BY <2>4 DEF KeyOf, NodeOpKeys
    <3>2. QED
      BY <1>1, <2>3, <3>1 DEF Raised
  <2>5. CASE stored[key] = lastRequested[key]
    BY <2>3, <2>5
  <2>6. QED
    BY <1>1, <2>3, <2>4, <2>5 DEF Raised
<1>5. ASSUME NEW i \in 1..n PROVE asked[requests[i]] = 0
  <2> DEFINE r == requests[i]
  <2>1. r \in Requests /\ KeyOf(r) \in NodeOpKeys /\ r[3] \in Nat
    BY <1>2, KeyOfRequest
  <2>2. lastRequested[KeyOf(r)] < r[3] /\ lastRequested[KeyOf(r)] \in Int
    BY <1>1, <1>4, <2>1 DEF Raised
  <2> HIDE DEF r
  <2>3. asked[r] = 0
    BY <2>1, <2>2 DEF AskedInv
  <2>4. QED
    BY <2>3 DEF r
<1>6. ASSUME NEW r \in D PROVE asked[r] = 0 /\ asked'[r] = 1
  <2>1. PICK i \in 1..n : r = requests[i]
    OBVIOUS
  <2>2. {j \in DOMAIN requests : requests[j] = r} = {i}
    BY <1>2, <1>3, <2>1
  <2>3. Cardinality({i}) = 1
    BY FS_Singleton
  <2>4. r \in Requests /\ asked[r] = 0
    BY <1>2, <1>5, <2>1
  <2>5. asked'[r] = asked[r] + Cardinality({j \in DOMAIN requests : requests[j] = r})
    BY <2>4
  <2>6. QED
    BY <2>2, <2>3, <2>4, <2>5
<1>7. ASSUME NEW r \in Requests \ D PROVE asked'[r] = asked[r]
  <2>1. {j \in DOMAIN requests : requests[j] = r} = {}
    BY <1>2
  <2>2. Cardinality({}) = 0
    BY FS_EmptySet
  <2>3. asked'[r] = asked[r] + Cardinality({j \in DOMAIN requests : requests[j] = r})
    OBVIOUS
  <2>4. asked[r] \in {0, 1}
    BY DEF AskedInv
  <2>5. QED
    BY <2>1, <2>2, <2>3, <2>4
<1>8. asked' \in [Requests -> {0, 1}]
  <2>1. \A r \in Requests : asked'[r] \in {0, 1}
    BY <1>6, <1>7 DEF AskedInv
  <2>2. asked' = [r \in Requests |-> asked'[r]]
    OBVIOUS
  <2>3. QED
    BY <2>1, <2>2
<1> HIDE DEF D
<1>9. ASSUME NEW r \in Requests, asked'[r] # 0
      PROVE  r[3] <= stored[KeyOf(r)]
  <2>1. KeyOf(r) \in NodeOpKeys /\ r[3] \in Nat
    BY KeyOfRequest
  <2>2. CASE r \in D
    BY <1>1, <2>2 DEF D, Raised
  <2>3. CASE r \notin D
    <3>1. r[3] <= lastRequested[KeyOf(r)]
      BY <1>7, <1>9, <2>3 DEF AskedInv
    <3>2. QED
      BY <1>4, <2>1, <3>1
  <2>4. QED
    BY <2>2, <2>3
<1>10. ASSUME NEW key \in NodeOpKeys, stored[key] # NOT_REQUESTED
       PROVE  asked'[<<key[1], key[2], stored[key]>>] = 1
  <2> DEFINE r == <<key[1], key[2], stored[key]>>
  <2>1. CASE r \in D
    BY <1>6, <2>1
  <2>2. CASE r \notin D
    <3>1. stored[key] = lastRequested[key]
      BY <1>1, <2>2 DEF D, Raised
    <3>2. asked[r] = 1
      BY <1>10, <3>1 DEF AskedInv
    <3>3. r \in Requests
      <4>1. stored[key] \in ValIndices
        BY <1>1, <1>10 DEF LastIndices
      <4>2. QED
        BY <4>1 DEF Requests, NodeOpKeys
    <3>4. QED
      BY <1>7, <2>2, <3>2, <3>3
  <2>3. QED
    BY <2>1, <2>2
<1>11. SumFunction(asked') = SumFunction(asked) + n
  <2>1. Integral(asked, Requests) /\ Integral(asked', Requests)
    BY <1>8, RequestsAreFinite DEF Integral, AskedInv
  <2>2. \A i \in 1..n : asked'[requests[i]] = asked[requests[i]] + 1
    <3>1. \A i \in 1..n : requests[i] \in D
      BY DEF D
    <3>2. QED
      BY ONLY <1>6, <3>1
  <2>3. \A r \in Requests \ {requests[i] : i \in 1..n} : asked'[r] = asked[r]
    BY <1>7 DEF D
  <2> DEFINE before == asked
             after == asked'
  <2> HIDE DEF before, after
  <2>4. SumFunctionOnSet(after, Requests) = SumFunctionOnSet(before, Requests) + n
    <3>1. Integral(before, Requests) /\ Integral(after, Requests)
      BY <2>1 DEF before, after
    <3>2. \A i \in 1..n : after[requests[i]] = before[requests[i]] + 1
      BY <2>2 DEF before, after
    <3>3. \A r \in Requests \ {requests[i] : i \in 1..n} : after[r] = before[r]
      BY <2>3 DEF before, after
    <3>4. QED
      BY <1>2, <1>3, <3>1, <3>2, <3>3, OneMoreEach, SMTT(30)
  <2>5. DOMAIN asked = Requests /\ DOMAIN asked' = Requests
    BY <1>8 DEF AskedInv
  <2>6. QED
    BY <2>4, <2>5 DEF SumFunction, before, after
<1>12. lastRequested' = stored /\ totalRequestsProcessed' = totalRequestsProcessed + n
  BY DEF stored, n
<1>13. totalRequestsProcessed' = SumFunction(asked')
  BY <1>11, <1>12 DEF AskedInv
<1>14. QED
  BY <1>1, <1>8, <1>9, <1>10, <1>12, <1>13 DEF AskedInv

LEMMA ExitStays ==
  ASSUME ExitInv, UNCHANGED <<lastRequested, asked, totalRequestsProcessed>>,
         \/ UNCHANGED oracle
         \/ \E v : oracle' = [oracle EXCEPT ![accountingOracle] = v]
         \/ \E v : oracle' = [oracle EXCEPT ![exitBus].lastProcessingRefSlot = v]
         \/ \E v : oracle' = [oracle EXCEPT ![exitBus].consensusVersion = v]
         \/ \E v : oracle' = [oracle EXCEPT ![exitBus].consensusContract = v]
         \/ oracle' = [oracle EXCEPT ![exitBus].report.hash = ZeroHash]
         \/ \E hash, refSlot, deadline :
              /\ ListsRequests(hash)
              /\ oracle' = [oracle EXCEPT ![exitBus].report =
                   [hash |-> hash, refSlot |-> refSlot, processingDeadlineTime |-> deadline]]
  PROVE  ExitInv'
<1>1. AskedInv'
  BY DEF ExitInv, AskedInv
<1>2. ExitOracleInv'
  <2> USE ExitBusAssumption, OraclesAreDistinct
  <2>1. CASE UNCHANGED oracle
    BY <2>1 DEF ExitInv, ExitOracleInv
  <2>2. ASSUME NEW v, oracle' = [oracle EXCEPT ![accountingOracle] = v] PROVE ExitOracleInv'
    BY <2>2 DEF ExitInv, ExitOracleInv
  <2>3. ASSUME NEW v, \/ oracle' = [oracle EXCEPT ![exitBus].lastProcessingRefSlot = v]
                      \/ oracle' = [oracle EXCEPT ![exitBus].consensusVersion = v]
                      \/ oracle' = [oracle EXCEPT ![exitBus].consensusContract = v]
        PROVE  ExitOracleInv'
    BY <2>3 DEF ExitInv, ExitOracleInv, Initialized
  <2>4. CASE oracle' = [oracle EXCEPT ![exitBus].report.hash = ZeroHash]
    BY <2>4 DEF ExitInv, ExitOracleInv, Initialized, ListsRequests
  <2>5. ASSUME NEW hash, NEW refSlot, NEW deadline, ListsRequests(hash),
               oracle' = [oracle EXCEPT ![exitBus].report =
                   [hash |-> hash, refSlot |-> refSlot, processingDeadlineTime |-> deadline]]
        PROVE  ExitOracleInv'
    BY <2>5 DEF ExitInv, ExitOracleInv, Initialized
  <2>6. QED
    BY <2>1, <2>2, <2>3, <2>4, <2>5
<1>3. QED
  BY <1>1, <1>2 DEF ExitInv

LEMMA ExitDataKeepsInv ==
  ASSUME ExitInv, NEW data, data = oracle[exitBus].report.hash, data # ZeroHash,
         SubmitExitRequests(data)
  PROVE  ExitInv'
<1> DEFINE requests == data.payload[1]
           result == ProcessExitRequestsList(requests)
<1>1. requests \in Seq(Requests) /\ data.payload[2] \in Nat
  BY DEF ExitInv, ExitOracleInv, ListsRequests
<1>2. /\ ~result.reverted
      /\ Len(requests) = data.payload[2]
      /\ lastRequested' = result.stored
      /\ totalRequestsProcessed' = totalRequestsProcessed + data.payload[2]
      /\ asked' = [r \in Requests |->
           asked[r] + Cardinality({i \in DOMAIN requests : requests[i] = r})]
  BY DEF SubmitExitRequests
<1>3. oracle' = [oracle EXCEPT ![exitBus].lastProcessingRefSlot = oracle[exitBus].report.refSlot]
  BY DEF SubmitExitRequests, SubmitReportData, StartProcessing
<1> DEFINE taken == result
<1>4. taken = ProcessExitRequestsList(requests) /\ ~taken.reverted
      /\ lastRequested' = taken.stored
      /\ totalRequestsProcessed' = totalRequestsProcessed + Len(requests)
  BY <1>2
<1> HIDE DEF requests, taken
<1>5. AskedInv'
  BY <1>1, <1>2, <1>4, AskedKeepsInv DEF ExitInv
<1>6. ExitOracleInv'
  BY <1>3, ExitBusAssumption DEF ExitInv, ExitOracleInv, Initialized
<1>7. QED
  BY <1>5, <1>6 DEF ExitInv

LEMMA ExitNext == ExitInv /\ [Next]_vars => ExitInv'
<1> SUFFICES ASSUME ExitInv, [Next]_vars PROVE ExitInv'
  OBVIOUS
<1> USE DEF baseOracleVars, exitBusVars
<1>1. CASE ExitBusData
  BY <1>1, ExitDataKeepsInv DEF ExitBusData
<1>2. CASE ExitBusCommittee
  <2>1. PICK payload \in ExitPayloads :
          SubmitConsensusReport(exitBus, consensus,
            [consensusVersion |-> 1, refSlot |-> now - 1, payload |-> payload],
            now - 1, now - 1 + FRAME_SLOTS)
    BY <1>2 DEF ExitBusCommittee
  <2> DEFINE hash == [consensusVersion |-> 1, refSlot |-> now - 1, payload |-> payload]
  <2>2. ListsRequests(hash)
    <3>1. payload \in Seq(Requests) \X Nat \X Nat
      BY CommitteesAssumption
    <3>2. hash.payload = payload
      OBVIOUS
    <3> HIDE DEF hash
    <3>3. QED
      BY <3>1, <3>2 DEF ListsRequests
  <2>3. \E refSlot, deadline :
          oracle' = [oracle EXCEPT ![exitBus].report =
                   [hash |-> hash, refSlot |-> refSlot, processingDeadlineTime |-> deadline]]
    BY <2>1 DEF SubmitConsensusReport
  <2> HIDE DEF hash
  <2>4. UNCHANGED <<lastRequested, asked, totalRequestsProcessed>>
    BY <1>2 DEF ExitBusCommittee
  <2>5. QED
    BY <2>2, <2>3, <2>4, ExitStays
<1>3. CASE AnyConsensusContract
  <2>1. UNCHANGED <<lastRequested, asked, totalRequestsProcessed>>
    BY <1>3 DEF AnyConsensusContract
  <2>2. ASSUME NEW c, NEW r, DiscardConsensusReport(exitBus, c, r) PROVE ExitInv'
    BY <2>1, <2>2, ExitStays DEF DiscardConsensusReport
  <2>3. ASSUME NEW c, NEW r, NEW v, NEW s, NEW deadline,
               SubmitConsensusReport(exitBus, c,
                 [consensusVersion |-> v, refSlot |-> s, payload |-> <<<<>>, 0, 1>>], r, deadline)
        PROVE  ExitInv'
    <3> DEFINE hash == [consensusVersion |-> v, refSlot |-> s, payload |-> <<<<>>, 0, 1>>]
    <3>1. ListsRequests(hash)
      <4>1. hash.payload[1] = <<>> /\ hash.payload[2] = 0
        OBVIOUS
      <4> HIDE DEF hash
      <4>2. QED
        BY <4>1 DEF ListsRequests
    <3>2. oracle' = [oracle EXCEPT ![exitBus].report =
                   [hash |-> hash, refSlot |-> r, processingDeadlineTime |-> deadline]]
      BY <2>3 DEF SubmitConsensusReport
    <3> HIDE DEF hash
    <3>3. QED
      BY <2>1, <3>1, <3>2, ExitStays
  <2>4. ASSUME NEW c, NEW r, SetConsensusContract(exitBus, c, r) PROVE ExitInv'
    BY <2>1, <2>4, ExitStays DEF SetConsensusContract
  <2>5. QED
    BY <1>3, <2>2, <2>3, <2>4 DEF AnyConsensusContract
<1>4. CASE AnyVersionOrPause
  <2>1. UNCHANGED <<lastRequested, asked, totalRequestsProcessed>>
    BY <1>4 DEF AnyVersionOrPause, Resume
  <2>2. UNCHANGED oracle \/ \E v : oracle' = [oracle EXCEPT ![exitBus].consensusVersion = v]
    BY <1>4 DEF AnyVersionOrPause, Resume, SetConsensusVersion
  <2>3. QED
    BY <2>1, <2>2, ExitStays
<1>5. CASE ExitBusPauses
  BY <1>5, ExitStays DEF ExitBusPauses, Resume, Pause, PauseFor, PauseUntil
<1>6. CASE AccountingCommittee
  <2>1. UNCHANGED oracle \/ \E v : oracle' = [oracle EXCEPT ![accountingOracle] = v]
    BY <1>6 DEF AccountingCommittee, SubmitConsensusReport, DiscardConsensusReport
  <2>2. QED
    BY <1>6, <2>1, ExitStays DEF AccountingCommittee
<1>7. CASE AccountingMainData
  <2>1. \E v : oracle' = [oracle EXCEPT ![accountingOracle] = v]
    BY <1>7 DEF AccountingMainData, SubmitMainData, SubmitReportData, StartProcessing
  <2>2. QED
    BY <1>7, <2>1, ExitStays DEF AccountingMainData
<1>8. CASE AccountingExtraData
  BY <1>8, ExitStays DEF AccountingExtraData, SubmitReportExtraDataEmpty, SubmitReportExtraDataList
<1>9. CASE SlotEnds \/ SomebodyDeposits \/ SomebodyPauses \/ OthersDeposit
           \/ OperatorsManageKeys \/ DaoManagesRouter \/ OwnerManagesSecurity
  BY <1>9, ExitStays DEF SlotEnds, SomebodyDeposits, SomebodyPauses, OthersDeposit,
       OperatorsManageKeys, DaoManagesRouter, OwnerManagesSecurity
<1>10. ASSUME NEW c, NEW op, ChainMoves(c, op) PROVE ExitInv'
  BY <1>10, ExitStays DEF ChainMoves
<1>11. ASSUME NEW id, NEW op, NEW trigger, DaoCorrects(id, op, trigger) PROVE ExitInv'
  BY <1>11, ExitStays DEF DaoCorrects
<1>12. ASSUME NEW g, NEW id, GuardianSigns(g, id) PROVE ExitInv'
  BY <1>12, ExitStays DEF GuardianSigns
<1>13. CASE UNCHANGED vars
  BY <1>13, ExitStays DEF vars
<1>14. QED
  BY <1>1, <1>2, <1>3, <1>4, <1>5, <1>6, <1>7, <1>8, <1>9, <1>10, <1>11, <1>12, <1>13 DEF Next

LEMMA InitExit == Init => ExitInv
<1> SUFFICES ASSUME Init PROVE ExitInv
  OBVIOUS
<1>1. oracle[exitBus] = Initialized(consensus, 1, 0) /\ DOMAIN oracle = Oracles
  BY ExitBusAssumption DEF Init
<1>2. ExitOracleInv
  BY <1>1 DEF ExitOracleInv, ListsRequests, Initialized
<1>3. /\ lastRequested = [key \in NodeOpKeys |-> NOT_REQUESTED]
      /\ asked = [r \in Requests |-> 0]
      /\ totalRequestsProcessed = 0
  BY DEF Init, ExitBusInit
<1>4. SumFunction(asked) = 0
  <2>1. \A r \in Requests : asked[r] = 0
    BY <1>3
  <2>2. SumFunctionOnSet(asked, Requests) = Cardinality(Requests) * 0
    BY <2>1, RequestsAreFinite, SumOfConstant
  <2>3. Cardinality(Requests) \in Nat
    BY RequestsAreFinite, FS_CardinalityType
  <2>4. DOMAIN asked = Requests
    BY <1>3
  <2>5. QED
    BY <2>2, <2>3, <2>4 DEF SumFunction
<1>5. AskedInv
  BY <1>3, <1>4 DEF AskedInv, LastIndices
<1>6. QED
  BY <1>2, <1>5 DEF ExitInv

LEMMA AskedOnce == ASSUME ExitInv PROVE EveryValidatorIsAskedOnce
<1>1. \A r \in Requests : asked[r] <= 1
  BY DEF ExitInv, AskedInv
<1>2. ASSUME NEW key \in NodeOpKeys
      PROVE  lastRequested[key] = Max(IndicesAsked(key) \union {NOT_REQUESTED})
  <2> DEFINE indices == IndicesAsked(key) \union {NOT_REQUESTED}
             last == lastRequested[key]
  <2>1. \A i \in ValIndices : i \in Nat
    BY ExitBusAssumption
  <2>2. last \in ValIndices \union {NOT_REQUESTED}
    BY DEF ExitInv, AskedInv, LastIndices
  <2>3. last \in indices
    BY <2>2 DEF ExitInv, AskedInv, IndicesAsked
  <2>4. ASSUME NEW i \in indices PROVE i \in Int /\ last \in Int /\ last >= i
    <3>1. CASE i = NOT_REQUESTED
      BY <2>1, <2>2, <3>1 DEF NOT_REQUESTED
    <3>2. CASE i \in IndicesAsked(key)
      <4> DEFINE r == <<key[1], key[2], i>>
      <4>1. i \in ValIndices /\ asked[r] # 0
        BY <3>2 DEF IndicesAsked
      <4>2. r \in Requests /\ KeyOf(r) = key /\ r[3] = i
        BY <4>1 DEF Requests, NodeOpKeys, KeyOf
      <4> HIDE DEF r
      <4>3. i <= last
        BY <4>1, <4>2 DEF ExitInv, AskedInv
      <4>4. QED
        BY <2>1, <2>2, <4>1, <4>3 DEF NOT_REQUESTED
    <3>3. QED
      BY <3>1, <3>2
  <2> HIDE DEF indices, last
  <2>5. Max(indices) = last
    <3>1. \E x \in indices : \A y \in indices : x >= y
      BY <2>3, <2>4
    <3>2. Max(indices) \in indices /\ \A y \in indices : Max(indices) >= y
      BY <3>1 DEF Max
    <3>3. QED
      BY <2>3, <2>4, <3>2
  <2>6. QED
    BY <2>5 DEF indices, last
<1>3. totalRequestsProcessed = SumFunction(asked)
  BY DEF ExitInv, AskedInv
<1>4. QED
  BY <1>1, <1>2, <1>3 DEF EveryValidatorIsAskedOnce

(***************************************************************************)
(* No validator is asked to exit twice, over all reports, and the last     *)
(* index of every operator and the number of requests are what was asked   *)
(* (_processExitRequestsList).                                             *)
(***************************************************************************)
THEOREM NoExitIsAskedTwice == Spec => []EveryValidatorIsAskedOnce
<1>1. Init => ExitInv
  BY InitExit
<1>2. ExitInv /\ [Next]_vars => ExitInv'
  BY ExitNext
<1>3. ExitInv => EveryValidatorIsAskedOnce
  BY AskedOnce
<1>4. QED
  BY <1>1, <1>2, <1>3, PTL DEF Spec

------------------------------------------------------------------------------

(***************************************************************************)
(* The counts.  The chain is ahead of what the committee gathered and of   *)
(* what the modules know, and of what the router knows in total; the       *)
(* router knows the exits of the last truthful report.                     *)
(***************************************************************************)
ChainInv ==
  /\ chain \in [Contracts -> SettledCounts]
  /\ gathered.truth \in [Contracts -> SettledCounts]
  /\ \A c \in Contracts : \A op \in Operators :
       /\ chain[c].exited[op] + chain[c].stuck[op] <= contracts[c].deposited[op]
       /\ gathered.truth[c].exited[op] + gathered.truth[c].stuck[op] <= contracts[c].deposited[op]
       /\ gathered.truth[c].exited[op] <= chain[c].exited[op]
       /\ contracts[c].exited[op] <= chain[c].exited[op]

ModulesInv ==
  /\ StakingRouterTypeOK
  /\ ContractsAreDistinct
  /\ reported \in [Contracts -> Nat]
  /\ depositable \in Nat
  /\ \A id \in DOMAIN stakingModules :
       /\ stakingModules[id].exitedValidatorsCount <= ExitedInTotal(chain, id)
       /\ reported[ContractOf(id)] <= stakingModules[id].exitedValidatorsCount
       /\ stakingModules[id].stakingModuleFee + stakingModules[id].treasuryFee <= TOTAL_BASIS_POINTS

CountsInv == ChainInv /\ ModulesInv

(***************************************************************************)
(* A report that can still be processed is the one of the last reference   *)
(* slot, as gathered or malformed.                                         *)
(***************************************************************************)
InTime == Report.hash # ZeroHash /\ now <= Report.processingDeadlineTime

TimesInv ==
  /\ now \in Nat /\ gathered.refSlot \in Nat
  /\ gathered.refSlot % FRAME_SLOTS = 0
  /\ gathered.refSlot < now
  /\ Report.refSlot <= gathered.refSlot
  /\ Processing \in Nat
  /\ Report.hash # ZeroHash => /\ Report.refSlot # 0
                               /\ Report.processingDeadlineTime = Report.refSlot + FRAME_SLOTS
  /\ InTime => /\ Report.refSlot = gathered.refSlot
               /\ Report.hash.payload \in {gathered.payload} \union Malformed

(***************************************************************************)
(* The exits gathered are those of modules the router knows fewer of; when *)
(* it knows them, the main data was processed or the DAO made corrections. *)
(***************************************************************************)
TrueTotals(exited) ==
  /\ exited \in Seq(Nat \X Nat)
  /\ \A i \in DOMAIN exited :
       /\ exited[i][1] \in DOMAIN stakingModules
       /\ exited[i][2] = ExitedInTotal(gathered.truth, exited[i][1])

Listed(exited, id) == \E i \in DOMAIN exited : exited[i][1] = id

TotalsInv ==
  /\ TrueTotals(gathered.payload[1])
  /\ StrictlyAscending([i \in DOMAIN gathered.payload[1] |-> gathered.payload[1][i][1]])
  /\ \A i \in DOMAIN gathered.payload[1] : gathered.payload[1][i][2] # 0
  /\ \A id \in DOMAIN stakingModules :
       /\ \/ stakingModules[id].exitedValidatorsCount >= ExitedInTotal(gathered.truth, id)
          \/ Listed(gathered.payload[1], id)
       /\ ~gathered.corrected =>
            stakingModules[id].exitedValidatorsCount <= ExitedInTotal(gathered.truth, id)

(***************************************************************************)
(* The extra data gathered holds true counts, and while it is neither      *)
(* delivered nor overtaken by a correction, it is what the modules are     *)
(* wrong about.                                                            *)
(***************************************************************************)
Item == (1..2) \X Nat \X Seq(Operators \X Nat)

KindOf(m, type) == m[ItemTypes[type]]

TrueItem(item, truth) ==
  /\ item \in Item
  /\ item[2] \in DOMAIN stakingModules
  /\ item[3] # <<>>
  /\ \A j \in DOMAIN item[3] :
       item[3][j][2] = KindOf(truth[ContractOf(item[2])], item[1])[item[3][j][1]]

TrueItems(items) ==
  items \in Seq(Item) /\ \A i \in DOMAIN items : TrueItem(items[i], gathered.truth)

Wrong(type, truth, id) == KindOf(truth[ContractOf(id)], type) # KindOf(contracts[ContractOf(id)], type)

WholeItem(item, truth) ==
  \A op \in Operators :
    KindOf(truth[ContractOf(item[2])], item[1])[op] # KindOf(contracts[ContractOf(item[2])], item[1])[op]
      => \E j \in DOMAIN item[3] : item[3][j][1] = op

Later(a, b) == a[1] < b[1] \/ (a[1] = b[1] /\ a[2] < b[2])

Describe(items, truth) ==
  /\ items \in Seq(Item)
  /\ \A i \in DOMAIN items : TrueItem(items[i], truth) /\ WholeItem(items[i], truth)
  /\ \A i, j \in DOMAIN items : i < j => Later(items[i], items[j])
  /\ \A type \in 1..2 : \A id \in DOMAIN stakingModules :
       Wrong(type, truth, id) => \E i \in DOMAIN items : items[i][1] = type /\ items[i][2] = id

DescribesItems(format, hash, count, items) ==
  IF items = <<>> THEN format = EXTRA_DATA_FORMAT_EMPTY /\ hash = ZeroHash /\ count = 0
  ELSE format = EXTRA_DATA_FORMAT_LIST /\ hash = items /\ count = Len(items)

GatheredItems ==
  IF gathered.payload[2] = EXTRA_DATA_FORMAT_LIST THEN gathered.payload[3] ELSE <<>>

ExtraDataInv ==
  /\ TrueItems(GatheredItems)
  /\ DescribesItems(gathered.payload[2], gathered.payload[3], gathered.payload[4], GatheredItems)
  /\ ~gathered.corrected /\ ~ExtraDataDelivered =>
       /\ Describe(GatheredItems, gathered.truth)
       /\ \A c \in Contracts : \A op \in Operators :
            contracts[c].exited[op] <= gathered.truth[c].exited[op]
  /\ gathered.refSlot # 0 /\ extraData.refSlot = gathered.refSlot =>
       \/ /\ extraData.dataFormat = gathered.payload[2]
          /\ extraData.dataHash = gathered.payload[3]
          /\ extraData.itemsCount = gathered.payload[4]
       \/ /\ extraData.dataFormat = EXTRA_DATA_FORMAT_LIST
          /\ Len(extraData.dataHash) # extraData.itemsCount

ReportsInv == Reports /\ PhasesInv /\ CountsInv /\ TimesInv /\ TotalsInv /\ ExtraDataInv

------------------------------------------------------------------------------

LEMMA SumScales ==
  ASSUME NEW f, NEW S, Integral(f, S), NEW c \in Int, NEW h, \A x \in S : h[x] = f[x] * c
  PROVE  SumFunctionOnSet(h, S) = SumFunctionOnSet(f, S) * c
<1> DEFINE P == {s \in SUBSET S : SumFunctionOnSet(h, s) = SumFunctionOnSet(f, s) * c}
<1>1. {} \in P
  BY SumEmpty
<1>2. ASSUME NEW s \in P, NEW x \in S \ s PROVE s \union {x} \in P
  <2>1. IsFiniteSet(s) /\ (\A y \in s \union {x} : f[y] \in Int /\ h[y] \in Int)
    <3>1. IsFiniteSet(s)
      BY FS_Subset DEF Integral
    <3>2. \A y \in S : f[y] \in Int /\ h[y] = f[y] * c
      BY DEF Integral
    <3>3. \A a \in Int : a * c \in Int
      OBVIOUS
    <3>4. QED
      BY <3>1, <3>2, <3>3
  <2>2. SumFunctionOnSet(f, s \union {x}) = f[x] + SumFunctionOnSet(f, s)
    BY <2>1, SumAddsElement
  <2>3. SumFunctionOnSet(h, s \union {x}) = h[x] + SumFunctionOnSet(h, s)
    BY <2>1, SumAddsElement
  <2>4. SumFunctionOnSet(f, s) \in Int /\ f[x] \in Int
    BY <2>1, SumType DEF Integral
  <2>5. SumFunctionOnSet(h, s) = SumFunctionOnSet(f, s) * c /\ h[x] = f[x] * c
    OBVIOUS
  <2>6. \A a, b \in Int : a * c + b * c = (a + b) * c
    OBVIOUS
  <2>7. SumFunctionOnSet(h, s \union {x}) = SumFunctionOnSet(f, s \union {x}) * c
    BY <2>2, <2>3, <2>4, <2>5, <2>6
  <2>8. QED
    BY <2>7
<1>3. P = SUBSET S
  <2>1. IsFiniteSet(S)
    BY DEF Integral
  <2>2. P \in SUBSET (SUBSET S)
    OBVIOUS
  <2> HIDE DEF P
  <2>3. QED
    BY <1>1, <1>2, <2>1, <2>2, AllSubsets
<1>4. QED
  BY <1>3

LEMMA GreaterOfTwo ==
  ASSUME NEW a \in Int, NEW b \in Int
  PROVE  /\ Max({a, b}) = IF a >= b THEN a ELSE b
         /\ Min({a, b}) = IF a <= b THEN a ELSE b
<1>1. \E x \in {a, b} : \A y \in {a, b} : x >= y
  OBVIOUS
<1>2. Max({a, b}) \in {a, b} /\ \A y \in {a, b} : Max({a, b}) >= y
  BY <1>1 DEF Max
<1>3. \E x \in {a, b} : \A y \in {a, b} : x <= y
  OBVIOUS
<1>4. Min({a, b}) \in {a, b} /\ \A y \in {a, b} : Min({a, b}) <= y
  BY <1>3 DEF Min
<1>5. QED
  BY <1>2, <1>4

(***************************************************************************)
(* The totals of counts by operator.                                       *)
(***************************************************************************)
LEMMA CountsAreSummed ==
  ASSUME NEW f \in Counts, NEW h \in Counts, \A op \in Operators : f[op] <= h[op]
  PROVE  SumFunction(f) \in Nat /\ SumFunction(h) \in Nat /\ SumFunction(f) <= SumFunction(h)
<1>1. DOMAIN f = Operators /\ DOMAIN h = Operators /\ IsFiniteSet(Operators)
  BY StakingRouterAssumption DEF Counts
<1>2. \A op \in Operators : f[op] \in Nat /\ h[op] \in Nat
  BY DEF Counts
<1>3. Integral(f, Operators) /\ Integral(h, Operators)
  BY <1>1, <1>2 DEF Integral
<1>4. SumFunctionOnSet(f, Operators) <= SumFunctionOnSet(h, Operators)
  BY <1>3, SumIsMonotone
<1>5. SumFunctionOnSet(f, Operators) \in Nat /\ SumFunctionOnSet(h, Operators) \in Nat
  BY <1>1, <1>2, SumOfNaturals
<1>6. QED
  BY <1>1, <1>4, <1>5 DEF SumFunction

LEMMA TotalsOfModule ==
  ASSUME CountsInv, NEW c \in Contracts
  PROVE  /\ contracts[c] \in ModuleContract /\ chain[c] \in SettledCounts
         /\ gathered.truth[c] \in SettledCounts
         /\ {TotalDeposited(c), TotalExited(c), SumFunction(chain[c].exited),
             SumFunction(gathered.truth[c].exited)} \subseteq Nat
         /\ TotalExited(c) <= SumFunction(chain[c].exited)
         /\ SumFunction(gathered.truth[c].exited) <= SumFunction(chain[c].exited)
         /\ SumFunction(chain[c].exited) <= TotalDeposited(c)
         /\ SumFunction(gathered.truth[c].exited) <= TotalDeposited(c)
<1> DEFINE m == contracts[c]
           t == gathered.truth[c]
           h == chain[c]
<1>1. m \in ModuleContract /\ t \in SettledCounts /\ h \in SettledCounts
  BY DEF CountsInv, ChainInv, ModulesInv, StakingRouterTypeOK
<1>2. ASSUME NEW op \in Operators
      PROVE  /\ h.exited[op] + h.stuck[op] <= m.deposited[op]
             /\ t.exited[op] + t.stuck[op] <= m.deposited[op]
             /\ t.exited[op] <= h.exited[op]
             /\ m.exited[op] <= h.exited[op]
  BY DEF CountsInv, ChainInv
<1> HIDE DEF m, t, h
<1>3. /\ {m.deposited, m.exited, m.stuck, t.exited, t.stuck, h.exited, h.stuck} \subseteq Counts
  BY <1>1 DEF ModuleContract, SettledCounts
<1>4. \A f \in Counts : \A op \in Operators : f[op] \in Nat
  BY DEF Counts
<1>5. ASSUME NEW op \in Operators
      PROVE  h.exited[op] <= m.deposited[op] /\ t.exited[op] <= m.deposited[op]
  <2>1. {m.deposited[op], h.exited[op], h.stuck[op], t.exited[op], t.stuck[op]} \subseteq Nat
    BY <1>3, <1>4
  <2>2. QED
    BY <1>2, <2>1
<1>6. SumFunction(m.exited) \in Nat /\ SumFunction(m.exited) <= SumFunction(h.exited)
  BY <1>2, <1>3, CountsAreSummed
<1>7. SumFunction(t.exited) \in Nat /\ SumFunction(t.exited) <= SumFunction(h.exited)
  BY <1>2, <1>3, CountsAreSummed
<1>8. SumFunction(h.exited) \in Nat /\ SumFunction(m.deposited) \in Nat
      /\ SumFunction(h.exited) <= SumFunction(m.deposited)
  BY <1>3, <1>5, CountsAreSummed
<1>9. SumFunction(t.exited) <= SumFunction(m.deposited)
  BY <1>3, <1>5, CountsAreSummed
<1>10. QED
  BY <1>1, <1>6, <1>7, <1>8, <1>9 DEF m, t, h, TotalExited, TotalDeposited

LEMMA ActiveValidators ==
  ASSUME CountsInv, NEW id \in DOMAIN stakingModules, NEW c, c = stakingModules[id].contract
  PROVE  /\ c \in Contracts
         /\ ActiveValidatorsCount(id) \in
              (TotalDeposited(c) - SumFunction(chain[c].exited))..(TotalDeposited(c) - reported[c])
         /\ ActiveValidatorsCount(id) \in Nat
<1>1. c \in Contracts /\ stakingModules[id].exitedValidatorsCount \in Nat /\ reported[c] \in Nat
  <2>1. c \in Contracts /\ stakingModules[id] \in StakingModule
    BY ModuleFacts DEF CountsInv, ModulesInv
  <2>2. QED
    BY <2>1 DEF CountsInv, ModulesInv, StakingModule
<1>2. stakingModules[id].exitedValidatorsCount <= SumFunction(chain[c].exited)
      /\ reported[c] <= stakingModules[id].exitedValidatorsCount
  BY DEF CountsInv, ModulesInv, ExitedInTotal, ContractOf
<1> DEFINE known == stakingModules[id].exitedValidatorsCount
           own == TotalExited(c)
           onChain == SumFunction(chain[c].exited)
           all == TotalDeposited(c)
<1>3. {own, onChain, all} \subseteq Nat /\ own <= onChain /\ onChain <= all
  BY <1>1, TotalsOfModule
<1>4. ActiveValidatorsCount(id) = all - Max({known, own})
  BY DEF ActiveValidatorsCount
<1> HIDE DEF known, own, onChain, all
<1>5. Max({known, own}) = IF known >= own THEN known ELSE own
  BY <1>1, <1>3, GreaterOfTwo DEF known
<1>6. known \in Nat /\ known <= onChain /\ reported[c] <= known
  BY <1>1, <1>2 DEF known, onChain
<1>7. ActiveValidatorsCount(id) \in (all - onChain)..(all - reported[c]) /\ ActiveValidatorsCount(id) \in Nat
  BY <1>1, <1>3, <1>4, <1>5, <1>6
<1>8. QED
  BY <1>1, <1>7 DEF onChain, all

LEMMA DepositsFit ==
  ASSUME CountsInv, NEW id \in DOMAIN stakingModules
  PROVE  /\ MaxDepositsCount(id, depositable) \in 0..AvailableValidatorsCount(id)
         /\ MaxDepositsCount(id, depositable) <= depositable
<1> DEFINE k == Len(stakingModules)
           total == TotalActiveValidators + depositable
           active == [i \in DOMAIN stakingModules |-> ActiveValidatorsCount(i)]
           share(i) == (stakingModules[i].targetShare * total) \div TOTAL_BASIS_POINTS
           capacities == [i \in DOMAIN stakingModules |->
              Min({share(i), active[i] + AvailableValidatorsCount(i)})]
           after == Allocate(active, capacities, depositable)
<1>1. k \in Nat /\ DOMAIN stakingModules = 1..k /\ IsFiniteSet(1..k)
  BY ModuleFacts, FS_Interval DEF CountsInv, ModulesInv
<1>2. active \in [1..k -> Nat] /\ \A i \in 1..k : active[i] = ActiveValidatorsCount(i)
  BY <1>1, ActiveValidators
<1>3. depositable \in Nat /\ TotalActiveValidators \in Nat
  <2>1. SumFunctionOnSet(active, 1..k) \in Nat
    <3>1. \A i \in 1..k : active[i] \in Nat
      BY <1>2
    <3> HIDE DEF active
    <3>2. QED
      BY <1>1, <3>1, SumOfNaturals
  <2>2. DOMAIN active = 1..k
    BY <1>2
  <2>3. TotalActiveValidators = SumFunctionOnSet(active, 1..k)
    BY <2>2 DEF TotalActiveValidators, SumFunction
  <2>4. QED
    BY <2>1, <2>3 DEF CountsInv, ModulesInv
<1>4. ASSUME NEW i \in 1..k
      PROVE  /\ AvailableValidatorsCount(i) \in Nat
             /\ capacities[i] \in Nat
             /\ capacities[i] <= active[i] + AvailableValidatorsCount(i)
  <2>1. stakingModules[i] \in StakingModule /\ stakingModules[i].contract \in Contracts
    BY <1>1, ModuleFacts DEF CountsInv, ModulesInv
  <2>2. AvailableValidatorsCount(i) \in Nat
    <3>1. contracts[stakingModules[i].contract] \in ModuleContract
      BY <2>1 DEF CountsInv, ModulesInv, StakingRouterTypeOK
    <3>2. \A m \in ModuleContract : Len(m.ready) \in Nat
      <4>1. \A m \in ModuleContract : m.ready \in Seq(ReadyKey)
        BY DEF ModuleContract
      <4>2. QED
        BY <4>1, LenProperties
    <3>3. QED
      BY <3>1, <3>2 DEF AvailableValidatorsCount
  <2>3. share(i) \in Nat
    <3>1. stakingModules[i].targetShare \in Nat
      BY <2>1 DEF StakingModule
    <3>2. total \in Nat
      BY <1>3
    <3>3. TOTAL_BASIS_POINTS \in Nat \ {0}
      BY StakingRouterAssumption
    <3> HIDE DEF total
    <3>4. \A a, b \in Nat : a * b \in Nat
      OBVIOUS
    <3>5. stakingModules[i].targetShare * total \in Nat
      BY <3>1, <3>2, <3>4
    <3>6. QED
      BY <3>3, <3>5, Division
  <2>4. active[i] + AvailableValidatorsCount(i) \in Nat
    BY <1>2, <2>2
  <2>5. capacities[i] = Min({share(i), active[i] + AvailableValidatorsCount(i)})
    BY <1>1
  <2> DEFINE a == share(i)
             b == active[i] + AvailableValidatorsCount(i)
  <2>6. capacities[i] = Min({a, b}) /\ a \in Nat /\ b \in Nat
    BY <2>3, <2>4, <2>5
  <2> HIDE DEF a, b, capacities, active
  <2>7. capacities[i] = IF a <= b THEN a ELSE b
    <3>1. a \in Int /\ b \in Int
      BY <2>6
    <3>2. QED
      BY <2>6, <3>1, GreaterOfTwo
  <2>8. capacities[i] \in Nat /\ capacities[i] <= b
    BY <2>6, <2>7
  <2>9. QED
    BY <2>2, <2>8 DEF b
<1>5. capacities \in [1..k -> Nat]
  <2>1. \A i \in 1..k : capacities[i] \in Nat
    BY <1>4
  <2>2. capacities = [i \in 1..k |-> capacities[i]]
    BY <1>1
  <2> HIDE DEF capacities
  <2>3. QED
    BY <2>1, <2>2
<1>6. MaxDepositsCount(id, depositable) = after[id] - active[id]
  BY DEF MaxDepositsCount, DepositsAllocation
<1> HIDE DEF active, capacities
<1>7. IsInput(k, active, capacities, depositable)
  BY <1>1, <1>2, <1>3, <1>5 DEF IsInput
<1>8. after \in Partial(k, active, capacities, depositable)
  BY <1>7, AllocationEnds
<1> HIDE DEF after
<1>9. /\ after \in [1..k -> Nat]
      /\ \A i \in 1..k : after[i] >= active[i]
      /\ \A i \in 1..k : after[i] > active[i] => after[i] <= capacities[i]
      /\ Allocated(active, after) <= depositable
  BY <1>8 DEF Partial
<1>10. after[id] - active[id] <= Allocated(active, after)
  <2> DEFINE given == Given(active, after)
  <2>1. /\ Allocated(active, after) = SumFunctionOnSet(given, 1..k)
        /\ \A i \in 1..k : given[i] = after[i] - active[i]
    BY <1>1, <1>2, <1>9, AllocatedIsSum
  <2> HIDE DEF given
  <2>2. \A i \in 1..k : given[i] \in Nat
    <3> SUFFICES ASSUME NEW i \in 1..k PROVE given[i] \in Nat
      OBVIOUS
    <3>1. after[i] \in Nat /\ active[i] \in Nat /\ after[i] >= active[i]
      BY <1>2, <1>9
    <3>2. QED
      BY <2>1, <3>1
  <2>3. SumFunctionOnSet(given, 1..k) >= given[id]
    BY <1>1, <2>2, SumCoversSummand
  <2>4. QED
    BY <1>1, <2>1, <2>2, <2>3
<1>11. /\ id \in 1..k /\ after[id] \in Nat /\ active[id] \in Nat /\ capacities[id] \in Nat
       /\ AvailableValidatorsCount(id) \in Nat
       /\ capacities[id] <= active[id] + AvailableValidatorsCount(id)
       /\ Allocated(active, after) \in Int
  BY <1>1, <1>2, <1>4, <1>5, <1>9, AllocatedIsSum
<1>12. after[id] >= active[id] /\ after[id] - active[id] <= AvailableValidatorsCount(id)
  BY <1>9, <1>11
<1>13. QED
  BY <1>3, <1>6, <1>9, <1>10, <1>11, <1>12

(***************************************************************************)
(* The fees: every module takes part of its share of the rewards, and the  *)
(* shares are parts of the whole.                                          *)
(***************************************************************************)
LEMMA PartsOfShare ==
  ASSUME NEW share \in Nat, NEW fee \in Nat, NEW treasuryFee \in Nat, NEW points \in Nat \ {0},
         fee + treasuryFee <= points
  PROVE  /\ (share * fee) \div points \in Nat
         /\ (share * treasuryFee) \div points \in Nat
         /\ (share * fee) \div points + (share * treasuryFee) \div points <= share
<1> DEFINE x == share * fee
           y == share * treasuryFee
           a == x \div points
           b == y \div points
<1>1. x \in Nat /\ y \in Nat
  <2>1. \A i, j \in Nat : i * j \in Nat
    OBVIOUS
  <2>2. QED
    BY <2>1
<1>2. a \in Nat /\ b \in Nat /\ a * points <= x /\ b * points <= y
  BY <1>1, Division
<1>3. x + y <= share * points
  <2>1. x + y = share * (fee + treasuryFee)
    OBVIOUS
  <2>2. fee + treasuryFee \in Nat /\ points \in Nat
    OBVIOUS
  <2>3. (fee + treasuryFee) * share <= points * share
    BY <2>2, MultipleMonotone
  <2>4. \A i, j \in Nat : i * j = j * i
    OBVIOUS
  <2>5. QED
    BY <2>1, <2>2, <2>3, <2>4
<1> HIDE DEF x, y, a, b
<1>4. (a + b) * points <= share * points
  <2>1. (a + b) * points = a * points + b * points
    BY <1>2
  <2>2. {a * points, b * points, x, y, share * points} \subseteq Nat
    <3>1. \A i, j \in Nat : i * j \in Nat
      OBVIOUS
    <3>2. QED
      BY <1>1, <1>2, <3>1
  <2>3. QED
    BY <1>2, <1>3, <2>1, <2>2
<1>5. a + b <= share
  <2> SUFFICES ASSUME share + 1 <= a + b PROVE FALSE
    BY <1>2
  <2>1. (share + 1) * points <= (a + b) * points
    BY <1>2, MultipleMonotone
  <2>2. (share + 1) * points = share * points + points
    OBVIOUS
  <2>3. {share * points, (a + b) * points} \subseteq Nat
    <3>1. \A i, j \in Nat : i * j \in Nat
      OBVIOUS
    <3>2. QED
      BY <1>2, <3>1
  <2>4. QED
    BY <1>4, <2>1, <2>2, <2>3
<1>6. QED
  BY <1>2, <1>5 DEF x, y, a, b

LEMMA FeesArePartOfRewards ==
  ASSUME CountsInv
  PROVE  StakingRewardsDistribution.totalFee <= FEE_PRECISION_POINTS
<1> DEFINE S == DOMAIN stakingModules
           P == FEE_PRECISION_POINTS
           T == TotalActiveValidators
           active == [id \in S |-> ActiveValidatorsCount(id)]
           fees == [id \in S |-> FeeOf(id, stakingModules[id].stakingModuleFee)
                                   + FeeOf(id, stakingModules[id].treasuryFee)]
           shares == [id \in S |-> ValidatorsShare(id)]
<1>1. IsFiniteSet(S) /\ P \in Nat \ {0} /\ TOTAL_BASIS_POINTS \in Nat \ {0}
  BY ModuleFacts, FS_Interval, StakingRouterAssumption DEF CountsInv, ModulesInv
<1>2. \A id \in S : active[id] \in Nat
  BY ActiveValidators
<1>3. T = SumFunctionOnSet(active, S)
  BY DEF TotalActiveValidators, SumFunction
<1>4. CASE T = 0
  BY <1>1, <1>4 DEF StakingRewardsDistribution
<1>5. CASE T # 0
  <2>1. T \in Nat \ {0}
    <3> HIDE DEF active
    <3>1. SumFunctionOnSet(active, S) \in Nat
      BY <1>1, <1>2, SumOfNaturals
    <3>2. QED
      BY <1>3, <1>5, <3>1
  <2>2. ASSUME NEW id \in S
        PROVE  /\ shares[id] \in Nat /\ fees[id] \in Nat
               /\ fees[id] <= shares[id]
               /\ shares[id] * T <= active[id] * P
    <3> DEFINE a == ActiveValidatorsCount(id)
    <3>1. shares[id] = (a * P) \div T /\ active[id] = a
      BY DEF ValidatorsShare
    <3>2. a \in Nat
      BY ActiveValidators
    <3> HIDE DEF a
    <3>3. a * P \in Nat
      <4>1. \A i, j \in Nat : i * j \in Nat
        OBVIOUS
      <4>2. QED
        BY <1>1, <3>2, <4>1
    <3>4. (a * P) \div T \in Nat /\ ((a * P) \div T) * T <= a * P
      BY <2>1, <3>3, Division
    <3> DEFINE share == ValidatorsShare(id)
               fee == stakingModules[id].stakingModuleFee
               treasuryFee == stakingModules[id].treasuryFee
    <3>5. share \in Nat /\ shares[id] = share
      BY <3>1, <3>4
    <3>6. fee \in Nat /\ treasuryFee \in Nat /\ fee + treasuryFee <= TOTAL_BASIS_POINTS
      <4>1. stakingModules[id] \in StakingModule
        BY ModuleFacts DEF CountsInv, ModulesInv
      <4>2. fee + treasuryFee <= TOTAL_BASIS_POINTS
        BY DEF CountsInv, ModulesInv
      <4>3. QED
        BY <4>1, <4>2 DEF StakingModule
    <3>7. fees[id] = (share * fee) \div TOTAL_BASIS_POINTS
                       + (share * treasuryFee) \div TOTAL_BASIS_POINTS
      BY DEF FeeOf
    <3> HIDE DEF share, fee, treasuryFee, shares, fees
    <3>8. /\ (share * fee) \div TOTAL_BASIS_POINTS \in Nat
          /\ (share * treasuryFee) \div TOTAL_BASIS_POINTS \in Nat
          /\ (share * fee) \div TOTAL_BASIS_POINTS
               + (share * treasuryFee) \div TOTAL_BASIS_POINTS <= share
      BY <1>1, <3>5, <3>6, PartsOfShare
    <3>9. fees[id] \in Nat /\ fees[id] <= share
      <4> DEFINE x == (share * fee) \div TOTAL_BASIS_POINTS
                 y == (share * treasuryFee) \div TOTAL_BASIS_POINTS
      <4>1. x \in Nat /\ y \in Nat /\ fees[id] = x + y /\ x + y <= share
        BY <3>7, <3>8
      <4> HIDE DEF x, y
      <4>2. QED
        BY <4>1
    <3>10. QED
      BY <3>1, <3>4, <3>5, <3>9
  <2>3. SumFunctionOnSet(fees, S) <= SumFunctionOnSet(shares, S)
    <3>1. Integral(fees, S) /\ Integral(shares, S)
      BY <1>1, <2>2 DEF Integral
    <3>2. \A id \in S : fees[id] <= shares[id]
      BY <2>2
    <3> HIDE DEF fees, shares
    <3>3. QED
      BY <3>1, <3>2, SumIsMonotone
  <2>4. SumFunctionOnSet(shares, S) * T <= P * T
    <3> DEFINE left == [id \in S |-> shares[id] * T]
               right == [id \in S |-> active[id] * P]
    <3>1. \A id \in S : left[id] = shares[id] * T /\ right[id] = active[id] * P
      OBVIOUS
    <3>2. Integral(shares, S) /\ Integral(active, S)
      BY <1>1, <1>2, <2>2 DEF Integral
    <3>3. Integral(left, S) /\ Integral(right, S)
      <4>1. \A i, j \in Nat : i * j \in Int
        OBVIOUS
      <4>2. \A id \in S : shares[id] \in Nat /\ active[id] \in Nat
        BY <1>2, <2>2
      <4> HIDE DEF left, right, shares, active
      <4>3. \A id \in S : left[id] \in Int /\ right[id] \in Int
        BY <1>1, <2>1, <3>1, <4>1, <4>2
      <4>4. QED
        BY <1>1, <4>3 DEF Integral
    <3>4. \A id \in S : left[id] <= right[id]
      BY <2>2, <3>1
    <3> HIDE DEF left, right, shares, active
    <3>5. SumFunctionOnSet(left, S) <= SumFunctionOnSet(right, S)
      BY <3>3, <3>4, SumIsMonotone
    <3>6. SumFunctionOnSet(left, S) = SumFunctionOnSet(shares, S) * T
      <4>1. T \in Int
        BY <2>1
      <4>2. QED
        BY <3>1, <3>2, <4>1, SumScales
    <3>7. SumFunctionOnSet(right, S) = SumFunctionOnSet(active, S) * P
      <4>1. P \in Int
        BY <1>1
      <4>2. QED
        BY <3>1, <3>2, <4>1, SumScales
    <3>8. SumFunctionOnSet(active, S) * P = P * T
      <4>1. \A i, j \in Nat : i * j = j * i
        OBVIOUS
      <4>2. QED
        BY <1>1, <1>3, <2>1, <4>1 DEF active
    <3>9. QED
      BY <3>5, <3>6, <3>7, <3>8
  <2>5. SumFunctionOnSet(shares, S) <= P
    <3> DEFINE sum == SumFunctionOnSet(shares, S)
    <3>1. sum \in Int
      <4>1. Integral(shares, S)
        BY <1>1, <2>2 DEF Integral
      <4> HIDE DEF shares
      <4>2. QED
        BY <4>1, SumType
    <3>2. sum * T <= P * T
      BY <2>4
    <3> HIDE DEF sum
    <3>3. SUFFICES ASSUME P + 1 <= sum PROVE FALSE
      BY <1>1, <3>1 DEF sum
    <3>4. (P + 1) * T <= sum * T
      BY <1>1, <2>1, <3>1, <3>3, MultipleMonotone
    <3>5. (P + 1) * T = P * T + T /\ P * T \in Int /\ sum * T \in Int
      BY <1>1, <2>1, <3>1
    <3>6. QED
      BY <2>1, <3>2, <3>4, <3>5
  <2>6. StakingRewardsDistribution.totalFee = SumFunctionOnSet(fees, S)
    BY <1>5 DEF StakingRewardsDistribution, SumFunction
  <2>7. SumFunctionOnSet(fees, S) \in Int /\ SumFunctionOnSet(shares, S) \in Int
    <3>1. Integral(fees, S) /\ Integral(shares, S)
      BY <1>1, <2>2 DEF Integral
    <3> HIDE DEF fees, shares
    <3>2. QED
      BY <3>1, SumType
  <2> HIDE DEF fees, shares
  <2>8. QED
    BY <1>1, <2>3, <2>5, <2>6, <2>7
<1>6. QED
  BY <1>4, <1>5

LEMMA CountsAreUpToDate == ASSUME CountsInv PROVE ActiveCountIsUpToDate
  BY ActiveValidators, DepositsFit, FeesArePartOfRewards DEF ActiveCountIsUpToDate

------------------------------------------------------------------------------

(***************************************************************************)
(* The counts while deposits are made: nobody exits, and the deposited     *)
(* validators only grow in number.                                         *)
(***************************************************************************)
NobodyExited ==
  /\ reported = [c \in Contracts |-> 0]
  /\ \A id \in DOMAIN stakingModules : stakingModules[id].exitedValidatorsCount = 0

FeesAreShares(module) ==
  module.stakingModuleFee + module.treasuryFee <= TOTAL_BASIS_POINTS

SameExits(m, n) ==
  n.exited = m.exited /\ n.settled = m.settled /\ \A op \in Operators : n.deposited[op] >= m.deposited[op]

KeepsCounts ==
  /\ \A c \in Contracts : SameExits(contracts[c], contracts'[c])
  /\ \A id \in DOMAIN stakingModules' :
       stakingModules'[id].exitedValidatorsCount = 0 /\ FeesAreShares(stakingModules'[id])

LEMMA ModuleFactsAfter ==
  ASSUME StakingRouterTypeOK'
  PROVE  \A id \in DOMAIN stakingModules' :
           /\ stakingModules'[id] \in StakingModule
           /\ stakingModules'[id].contract \in Contracts
<1>1. DOMAIN stakingModules' = 1..Len(stakingModules')
  BY LenProperties DEF StakingRouterTypeOK
<1>2. ASSUME NEW id \in DOMAIN stakingModules' PROVE stakingModules'[id] \in StakingModule
  BY <1>1, ElementOfSeq DEF StakingRouterTypeOK
<1>3. QED
  BY <1>2 DEF StakingModule

LEMMA CountsStay ==
  ASSUME CountsInv, NobodyExited, KeepsCounts, RouterInv', depositable' \in Nat,
         UNCHANGED <<chain, gathered, reported>>
  PROVE  CountsInv' /\ NobodyExited'
<1>1. contracts \in [Contracts -> ModuleContract] /\ contracts' \in [Contracts -> ModuleContract]
  BY DEF CountsInv, ModulesInv, StakingRouterTypeOK, RouterInv
<1>2. \A f \in Counts : \A op \in Operators : f[op] \in Nat
  BY DEF Counts
<1>3. \A c \in Contracts : /\ contracts[c].deposited \in Counts /\ contracts'[c].deposited \in Counts
                           /\ {chain[c].exited, chain[c].stuck, gathered.truth[c].exited,
                               gathered.truth[c].stuck} \subseteq Counts
  BY <1>1 DEF CountsInv, ChainInv, SettledCounts, ModuleContract
<1>4. ASSUME NEW c \in Contracts, NEW op \in Operators
      PROVE  /\ chain[c].exited[op] + chain[c].stuck[op] <= contracts'[c].deposited[op]
             /\ gathered.truth[c].exited[op] + gathered.truth[c].stuck[op] <= contracts'[c].deposited[op]
             /\ contracts'[c].exited[op] <= chain[c].exited[op]
  <2>1. /\ contracts[c].deposited[op] \in Nat /\ contracts'[c].deposited[op] \in Nat
        /\ {chain[c].exited[op], chain[c].stuck[op], gathered.truth[c].exited[op],
            gathered.truth[c].stuck[op]} \subseteq Nat
    BY <1>2, <1>3
  <2>2. contracts'[c].exited = contracts[c].exited
        /\ contracts'[c].deposited[op] >= contracts[c].deposited[op]
    BY DEF KeepsCounts, SameExits
  <2>3. /\ chain[c].exited[op] + chain[c].stuck[op] <= contracts[c].deposited[op]
        /\ gathered.truth[c].exited[op] + gathered.truth[c].stuck[op] <= contracts[c].deposited[op]
        /\ contracts[c].exited[op] <= chain[c].exited[op]
    BY DEF CountsInv, ChainInv
  <2>4. QED
    BY <2>1, <2>2, <2>3
<1>5. ChainInv'
  BY <1>4 DEF CountsInv, ChainInv
<1>6. ASSUME NEW id \in DOMAIN stakingModules'
      PROVE  /\ stakingModules'[id].exitedValidatorsCount <= ExitedInTotal(chain, id)'
             /\ reported'[ContractOf(id)'] <= stakingModules'[id].exitedValidatorsCount
             /\ stakingModules'[id].stakingModuleFee + stakingModules'[id].treasuryFee <= TOTAL_BASIS_POINTS
  <2> DEFINE c == stakingModules'[id].contract
  <2>1. c \in Contracts
    BY <1>6, ModuleFactsAfter DEF RouterInv
  <2>2. SumFunction(chain[c].exited) \in Nat
    BY <2>1, TotalsOfModule
  <2>3. stakingModules'[id].exitedValidatorsCount = 0 /\ FeesAreShares(stakingModules'[id])
    BY <1>6 DEF KeepsCounts
  <2>4. reported'[c] = 0
    BY <2>1 DEF NobodyExited
  <2>5. QED
    BY <2>2, <2>3, <2>4 DEF ExitedInTotal, ContractOf, FeesAreShares
<1>7. ModulesInv'
  BY <1>6 DEF ModulesInv, CountsInv, RouterInv
<1>8. NobodyExited'
  BY DEF NobodyExited, KeepsCounts
<1>9. QED
  BY <1>5, <1>7, <1>8 DEF CountsInv

LEMMA CountsKept ==
  ASSUME CountsInv, NobodyExited
  PROVE  /\ stakingModules \in Seq(StakingModule) /\ contracts \in [Contracts -> ModuleContract]
         /\ DOMAIN stakingModules = 1..Len(stakingModules) /\ Len(stakingModules) \in Nat
         /\ \A id \in DOMAIN stakingModules :
              /\ stakingModules[id] \in StakingModule
              /\ stakingModules[id].exitedValidatorsCount = 0
              /\ FeesAreShares(stakingModules[id])
         /\ \A c \in Contracts : contracts[c] \in ModuleContract /\ SameExits(contracts[c], contracts[c])
<1>1. StakingRouterTypeOK
  BY DEF CountsInv, ModulesInv
<1>2. \A f \in Counts : \A op \in Operators : f[op] \in Nat
  BY DEF Counts
<1>3. \A c \in Contracts : contracts[c] \in ModuleContract /\ contracts[c].deposited \in Counts
  BY <1>1 DEF StakingRouterTypeOK, ModuleContract
<1>4. \A c \in Contracts : SameExits(contracts[c], contracts[c])
  BY <1>2, <1>3 DEF SameExits
<1>5. \A id \in DOMAIN stakingModules : FeesAreShares(stakingModules[id])
  BY DEF CountsInv, ModulesInv, FeesAreShares
<1>6. QED
  BY <1>1, <1>3, <1>4, <1>5, ModuleFacts DEF StakingRouterTypeOK, NobodyExited

LEMMA OneModuleKeepsCounts ==
  ASSUME CountsInv, NobodyExited, UNCHANGED contracts, NEW id \in DOMAIN stakingModules, NEW module,
         stakingModules' = [stakingModules EXCEPT ![id] = module],
         module.exitedValidatorsCount = 0, FeesAreShares(module)
  PROVE  KeepsCounts
  BY CountsKept DEF KeepsCounts

LEMMA StatusKeepsCounts ==
  ASSUME CountsInv, NobodyExited, NEW id, NEW status, SetStakingModuleStatus(id, status)
  PROVE  KeepsCounts
<1> DEFINE module == [stakingModules[id] EXCEPT !.status = status]
<1>1. id \in DOMAIN stakingModules /\ UNCHANGED contracts
      /\ stakingModules' = [stakingModules EXCEPT ![id] = module]
  BY DEF SetStakingModuleStatus, Registered
<1>2. module.exitedValidatorsCount = 0 /\ FeesAreShares(module)
  BY <1>1, CountsKept DEF StakingModule, FeesAreShares
<1> HIDE DEF module
<1>3. QED
  BY <1>1, <1>2, OneModuleKeepsCounts

LEMMA ManagingKeepsCounts ==
  ASSUME CountsInv, NobodyExited, DaoManagesRouter
  PROVE  KeepsCounts
<1>1. ASSUME NEW c, NEW share, NEW fee, NEW treasuryFee, NEW block,
             AddStakingModule(c, share, fee, treasuryFee, block)
      PROVE  KeepsCounts
  <2> DEFINE module == [contract |-> c, targetShare |-> share, stakingModuleFee |-> fee,
                        treasuryFee |-> treasuryFee, status |-> "Active",
                        exitedValidatorsCount |-> 0, lastDepositBlock |-> block]
  <2>1. module.exitedValidatorsCount = 0 /\ FeesAreShares(module)
    BY <1>1 DEF AddStakingModule, SharesAreValid, FeesAreShares
  <2>2. stakingModules' = Append(stakingModules, module) /\ UNCHANGED contracts
    BY <1>1 DEF AddStakingModule
  <2> HIDE DEF module
  <2>3. \A id \in DOMAIN stakingModules' :
          \/ id \in DOMAIN stakingModules /\ stakingModules'[id] = stakingModules[id]
          \/ stakingModules'[id] = module
    BY <2>2, CountsKept
  <2>4. QED
    BY <2>1, <2>2, <2>3, CountsKept DEF KeepsCounts
<1>2. ASSUME NEW id, NEW share, NEW fee, NEW treasuryFee,
             UpdateStakingModule(id, share, fee, treasuryFee)
      PROVE  KeepsCounts
  <2> DEFINE module == [stakingModules[id] EXCEPT !.targetShare = share, !.stakingModuleFee = fee,
                                                  !.treasuryFee = treasuryFee]
  <2>1. id \in DOMAIN stakingModules /\ UNCHANGED contracts /\ fee + treasuryFee <= TOTAL_BASIS_POINTS
    BY <1>2 DEF UpdateStakingModule, SharesAreValid, Registered
  <2>2. module.exitedValidatorsCount = 0 /\ FeesAreShares(module)
    BY <2>1, CountsKept DEF StakingModule, FeesAreShares
  <2>3. stakingModules' = [stakingModules EXCEPT ![id] = module]
    BY <1>2, <2>1, CountsKept DEF UpdateStakingModule
  <2> HIDE DEF module
  <2>4. QED
    BY <2>1, <2>2, <2>3, OneModuleKeepsCounts
<1>3. ASSUME NEW id, NEW status, SetStakingModuleStatus(id, status)
      PROVE  KeepsCounts
  BY <1>3, StatusKeepsCounts
<1>4. ASSUME NEW id, UnpauseDeposits(id) PROVE KeepsCounts
  BY <1>3, <1>4 DEF UnpauseDeposits, ResumeStakingModule
<1>5. ASSUME NEW credentials, NEW failing, SetWithdrawalCredentials(credentials, failing)
      PROVE  KeepsCounts
  <2>1. \A m \in ModuleContract : SameExits(m, m) => SameExits(m, OnWithdrawalCredentialsChanged(m))
    BY DEF ModuleContract, SameExits, OnWithdrawalCredentialsChanged
  <2>2. \A c \in Contracts : contracts'[c] \in {contracts[c], OnWithdrawalCredentialsChanged(contracts[c])}
    BY <1>5 DEF SetWithdrawalCredentials, ChangeWithdrawalCredentials
  <2>3. \A c \in Contracts : SameExits(contracts[c], contracts'[c])
    BY <2>1, <2>2, CountsKept
  <2>4. DOMAIN stakingModules' = DOMAIN stakingModules
        /\ \A id \in DOMAIN stakingModules :
             stakingModules'[id] \in {stakingModules[id],
                                      [stakingModules[id] EXCEPT !.status = "DepositsPaused"]}
    BY <1>5 DEF SetWithdrawalCredentials
  <2>5. ASSUME NEW id \in DOMAIN stakingModules
        PROVE  /\ stakingModules'[id].exitedValidatorsCount = 0
               /\ FeesAreShares(stakingModules'[id])
    BY <2>4, CountsKept, ZenonT(30) DEF StakingModule, FeesAreShares
  <2>6. QED
    BY <2>3, <2>4, <2>5 DEF KeepsCounts
<1>6. ASSUME NEW id \in DOMAIN stakingModules, NEW op \in Operators, NEW count \in Limits,
             UpdateRefundedValidatorsCount(id, op, count)
      PROVE  KeepsCounts
  <2>1. PICK c : c = stakingModules[id].contract
    OBVIOUS
  <2>2. PICK n : n = WithRefunded(contracts[c], op, count)
    OBVIOUS
  <2>3. contracts \in [Contracts -> ModuleContract] /\ c \in Contracts /\ count \in Nat
    BY <2>1, ModuleFacts, BoundsAssumption DEF CountsInv, ModulesInv, StakingRouterTypeOK
  <2>4. contracts' = [contracts EXCEPT ![c] = n] /\ UNCHANGED stakingModules
    BY <1>6, <2>1, <2>2 DEF UpdateRefundedValidatorsCount
  <2>5. /\ n \in ModuleContract /\ n.deposited = contracts[c].deposited
        /\ n.exited = contracts[c].exited /\ n.settled = contracts[c].settled
        /\ \A p \in Operators : n.deposited[p] >= contracts[c].deposited[p]
    <3>1. /\ n \in ModuleContract /\ n.deposited = contracts[c].deposited
          /\ n.exited = contracts[c].exited /\ n.settled = contracts[c].settled
      BY <2>2, <2>3, RefundTold
    <3>2. \A p \in Operators : n.deposited[p] \in Nat
      BY <3>1 DEF ModuleContract, Counts
    <3>3. QED
      BY <3>1, <3>2
  <2>6. \A d \in Contracts : contracts'[d] = IF d = c THEN n ELSE contracts[d]
    BY <2>3, <2>4
  <2>7. \A d \in Contracts : SameExits(contracts[d], contracts'[d])
    <3>1. \A d \in Contracts, p \in Operators : contracts[d].deposited[p] >= contracts[d].deposited[p]
      BY <2>3 DEF ModuleContract, Counts
    <3>2. QED
      BY <2>5, <2>6, <3>1 DEF SameExits
  <2>8. QED
    BY <2>4, <2>7, CountsKept DEF KeepsCounts
<1>7. QED
  BY <1>1, <1>2, <1>3, <1>4, <1>5, <1>6 DEF DaoManagesRouter

LEMMA PausingKeepsCounts ==
  ASSUME CountsInv, NobodyExited, SomebodyPauses
  PROVE  KeepsCounts
<1>1. PICK g, blockNumber, id : PauseDeposits(g, blockNumber, id, now)
  BY DEF SomebodyPauses
<1>2. SetStakingModuleStatus(id, "DepositsPaused")
  BY <1>1 DEF PauseDeposits, PauseStakingModule
<1>3. QED
  BY <1>2, StatusKeepsCounts

LEMMA KeysKeepCounts ==
  ASSUME CountsInv, NobodyExited, OperatorsManageKeys
  PROVE  KeepsCounts
<1>1. PICK c \in Contracts : (\E op \in Operators : AddSigningKey(c, op)) \/ RemoveSigningKey(c)
  BY DEF OperatorsManageKeys
<1>2. \E ready, nonce : contracts' = [contracts EXCEPT ![c].ready = ready, ![c].nonce = nonce]
  BY <1>1 DEF AddSigningKey, RemoveSigningKey
<1>3. UNCHANGED stakingModules
  BY <1>1 DEF AddSigningKey, RemoveSigningKey
<1>4. PICK ready, nonce : contracts' = [contracts EXCEPT ![c].ready = ready, ![c].nonce = nonce]
  BY <1>2
<1>5. contracts' = [contracts EXCEPT ![c] = [contracts[c] EXCEPT !.ready = ready, !.nonce = nonce]]
  BY <1>4, CountsKept
<1> DEFINE n == [contracts[c] EXCEPT !.ready = ready, !.nonce = nonce]
<1>6. SameExits(contracts[c], n)
  BY CountsKept DEF ModuleContract, SameExits
<1>7. \A d \in Contracts : contracts'[d] = IF d = c THEN n ELSE contracts[d]
  <2> HIDE DEF n
  <2> QED BY <1>5, CountsKept DEF n
<1> HIDE DEF n
<1>8. QED
  BY <1>3, <1>6, <1>7, CountsKept DEF KeepsCounts

LEMMA DepositingKeepsCounts ==
  ASSUME CountsInv, NobodyExited, SettingsInv, SomebodyDeposits
  PROVE  KeepsCounts /\ depositable' \in Nat
<1>1. PICK message, signers : DepositBufferedEther(message, signers, now)
  BY DEF SomebodyDeposits
<1> DEFINE id == message.stakingModuleId
           most == MaxDepositsCount(id, depositable)
           count == Min({settings.maxDepositsPerBlock, most})
           c == stakingModules[id].contract
           m == contracts[c]
<1>2. /\ most \in Nat /\ depositable' = depositable - count /\ RouterDeposit(id, count, now)
  BY <1>1 DEF DepositBufferedEther, LidoDeposit
<1>3. id \in DOMAIN stakingModules
  BY <1>2 DEF RouterDeposit, Registered
<1>4. count \in Nat /\ count <= most
  <2>1. settings.maxDepositsPerBlock \in Nat
    BY DEF SettingsInv
  <2> DEFINE a == settings.maxDepositsPerBlock
  <2>2. a \in Nat /\ most \in Nat /\ count = Min({a, most})
    BY <1>2, <2>1
  <2> HIDE DEF most, count, a
  <2>3. a \in Int /\ most \in Int
    BY <2>2
  <2>4. Min({a, most}) = IF a <= most THEN a ELSE most
    BY <2>3, GreaterOfTwo
  <2>5. QED
    BY <2>2, <2>4
<1>5. depositable' \in Nat
  <2>1. most <= depositable /\ depositable \in Nat
    BY <1>3, DepositsFit DEF CountsInv, ModulesInv
  <2> HIDE DEF count, most
  <2>2. QED
    BY <1>2, <1>4, <2>1
<1>6. /\ stakingModules' = [stakingModules EXCEPT
            ![id] = [stakingModules[id] EXCEPT !.lastDepositBlock = now]]
      /\ contracts' \in {contracts, [contracts EXCEPT ![c] = ObtainDepositData(m, count)]}
      /\ count <= Len(m.ready)
  <2> HIDE DEF count
  <2>1. /\ stakingModules' = [stakingModules EXCEPT ![id].lastDepositBlock = now]
        /\ contracts' = IF count = 0 THEN contracts
                        ELSE [contracts EXCEPT ![c] = ObtainDepositData(@, count)]
        /\ count <= Len(m.ready)
    BY <1>2 DEF RouterDeposit
  <2>2. QED
    BY <1>3, <2>1, CountsKept
<1>7. c \in Contracts /\ m \in ModuleContract
  BY <1>3, CountsKept, ModuleFacts DEF CountsInv, ModulesInv
<1> HIDE DEF most, count, c
<1>8. SameExits(m, ObtainDepositData(m, count))
  <2> DEFINE keys == SubSeq(m.ready, 1, count)
             own(op) == {i \in DOMAIN keys : keys[i][1] = op}
             n == ObtainDepositData(m, count)
  <2>1. m.ready \in Seq(ReadyKey) /\ m.deposited \in Counts
    BY <1>7 DEF ModuleContract
  <2>2. keys \in Seq(ReadyKey)
    <3>1. 1 \in 1..Len(m.ready) + 1 /\ count \in 0..Len(m.ready)
      <4> HIDE DEF m
      <4> QED BY <1>4, <1>6, <2>1, LenProperties
    <3> HIDE DEF m
    <3>2. QED
      BY <2>1, <3>1, PartOfKeys
  <2>3. \A op \in Operators : Cardinality(own(op)) \in Nat
    <3> SUFFICES ASSUME NEW op \in Operators PROVE Cardinality(own(op)) \in Nat
      OBVIOUS
    <3> HIDE DEF keys
    <3>1. DOMAIN keys = 1..Len(keys) /\ Len(keys) \in Nat
      BY <2>2, LenProperties
    <3>2. IsFiniteSet(DOMAIN keys)
      BY <3>1, FS_Interval
    <3>3. own(op) \in SUBSET DOMAIN keys
      OBVIOUS
    <3> HIDE DEF own
    <3>4. QED
      BY <3>2, <3>3, FS_Subset, FS_CardinalityType
  <2>4. n = [m EXCEPT !.ready = SubSeq(@, count + 1, Len(@)), !.nonce = @ + 1,
                      !.deposited = [op \in Operators |-> @[op] + Cardinality(own(op))]]
    BY DEF ObtainDepositData
  <2> HIDE DEF own, n, m
  <2>5. n.exited = m.exited /\ n.settled = m.settled
        /\ \A op \in Operators : n.deposited[op] = m.deposited[op] + Cardinality(own(op))
    BY <1>7, <2>4 DEF ModuleContract
  <2>6. \A op \in Operators : n.deposited[op] >= m.deposited[op]
    <3>1. \A op \in Operators : m.deposited[op] \in Nat
      BY <2>1 DEF Counts
    <3>2. QED
      BY <2>3, <2>5, <3>1
  <2>7. QED
    BY <2>5, <2>6 DEF SameExits, n
<1>9. \A d \in Contracts : SameExits(contracts[d], contracts'[d])
  <2>1. CASE contracts' = contracts
    BY <2>1, CountsKept
  <2>2. CASE contracts' = [contracts EXCEPT ![c] = ObtainDepositData(m, count)]
    <3> DEFINE n == ObtainDepositData(m, count)
    <3>1. \A d \in Contracts : contracts'[d] = IF d = c THEN n ELSE contracts[d]
      <4> HIDE DEF n
      <4> QED BY <2>2, CountsKept DEF n
    <3> HIDE DEF n
    <3>2. QED
      BY <1>8, <3>1, CountsKept DEF n
  <2>3. QED
    BY <1>6, <2>1, <2>2
<1>10. \A j \in DOMAIN stakingModules' :
         stakingModules'[j].exitedValidatorsCount = 0 /\ FeesAreShares(stakingModules'[j])
  <2> DEFINE module == [stakingModules[id] EXCEPT !.lastDepositBlock = now]
  <2>1. module.exitedValidatorsCount = 0 /\ FeesAreShares(module)
    BY <1>3, CountsKept DEF StakingModule, FeesAreShares
  <2>2. stakingModules' = [stakingModules EXCEPT ![id] = module]
    BY <1>6
  <2> HIDE DEF module
  <2>3. QED
    BY <1>3, <2>1, <2>2, CountsKept
<1>11. QED
  BY <1>5, <1>9, <1>10 DEF KeepsCounts

(***************************************************************************)
(* The counts in the scenarios without reports.                            *)
(***************************************************************************)
LEMMA CountsUntouched ==
  ASSUME CountsInv, UNCHANGED <<routerVars, chain, gathered, reported, depositable>>
  PROVE  CountsInv'
  BY DEF CountsInv, ChainInv, ModulesInv, StakingRouterTypeOK, ContractsAreDistinct, ExitedInTotal,
         ContractOf, routerVars

ModulesHearNothing == \A c \in Contracts : contracts'[c].settled = contracts[c].settled

LEMMA DepositsKeepCounts ==
  ASSUME DepositsInv, CountsInv, NobodyExited, [Next]_vars
  PROVE  CountsInv' /\ NobodyExited' /\ ModulesHearNothing
<1>1. RouterInv'
  BY NextIsGood DEF Good, DepositsInv
<1>2. ~Reports /\ ~Exits /\ ~Trustless
  BY DEF DepositsInv, Deposits, Reports, Exits, Trustless
<1>3. ASSUME UNCHANGED <<routerVars, chain, gathered, reported, depositable>>
      PROVE  CountsInv' /\ NobodyExited' /\ ModulesHearNothing
  BY <1>3, CountsUntouched DEF NobodyExited, ModulesHearNothing, routerVars
<1>4. ASSUME KeepsCounts, UNCHANGED <<chain, gathered, reported>>, depositable' \in Nat
      PROVE  CountsInv' /\ NobodyExited' /\ ModulesHearNothing
  BY <1>1, <1>4, CountsStay DEF KeepsCounts, SameExits, ModulesHearNothing
<1>5. depositable \in Nat
  BY DEF CountsInv, ModulesInv
<1>6. CASE SlotEnds
  BY <1>2, <1>3, <1>6 DEF SlotEnds, lidoVars
<1>7. ASSUME NEW g, NEW id, GuardianSigns(g, id)
      PROVE  CountsInv' /\ NobodyExited' /\ ModulesHearNothing
  BY <1>3, <1>7 DEF GuardianSigns, lidoVars, worldVars
<1>8. CASE SomebodyDeposits
  <2>1. KeepsCounts /\ depositable' \in Nat
    BY <1>8, DepositingKeepsCounts DEF DepositsInv
  <2>2. UNCHANGED <<chain, gathered, reported>>
    BY <1>8 DEF SomebodyDeposits, worldVars
  <2>3. QED
    BY <1>4, <2>1, <2>2
<1>9. CASE SomebodyPauses \/ OperatorsManageKeys \/ DaoManagesRouter
  <2>1. KeepsCounts
    BY <1>9, PausingKeepsCounts, KeysKeepCounts, ManagingKeepsCounts
  <2>2. UNCHANGED <<chain, gathered, reported, depositable>>
    BY <1>9 DEF SomebodyPauses, OperatorsManageKeys, DaoManagesRouter, worldVars, securityVars, lidoVars
  <2>3. QED
    BY <1>4, <1>5, <2>1, <2>2
<1>10. CASE OthersDeposit
  BY <1>3, <1>10 DEF OthersDeposit, worldVars
<1>11. CASE OwnerManagesSecurity
  BY <1>3, <1>11 DEF OwnerManagesSecurity, lidoVars
<1>12. CASE UNCHANGED vars
  BY <1>3, <1>12 DEF vars, worldVars, securityVars, lidoVars
<1>13. /\ ~AccountingCommittee /\ ~AccountingMainData /\ ~AccountingExtraData
       /\ \A c, op : ~ChainMoves(c, op)
       /\ \A id, op, trigger : ~DaoCorrects(id, op, trigger)
       /\ ~ExitBusCommittee /\ ~ExitBusData /\ ~ExitBusPauses
       /\ ~AnyConsensusContract /\ ~AnyVersionOrPause
  BY <1>2 DEF AccountingCommittee, AccountingMainData, AccountingExtraData, ChainMoves,
       DaoCorrects, ExitBusCommittee, ExitBusData, ExitBusPauses, AnyConsensusContract,
       AnyVersionOrPause
<1>14. QED
  BY <1>6, <1>7, <1>8, <1>9, <1>10, <1>11, <1>12, <1>13 DEF Next

LEMMA ExitsKeepCounts ==
  ASSUME ~Reports, ~Deposits, CountsInv, [Next]_vars
  PROVE  CountsInv' /\ UNCHANGED routerVars /\ ~Reports' /\ ~Deposits'
<1>1. UNCHANGED <<routerVars, chain, gathered, reported, depositable, scenario>>
  <2>1. CASE SlotEnds
    BY <2>1 DEF SlotEnds, lidoVars
  <2>2. CASE ExitBusCommittee \/ ExitBusData \/ ExitBusPauses
    BY <2>2 DEF ExitBusCommittee, ExitBusData, ExitBusPauses, worldVars, securityVars, lidoVars
  <2>3. CASE AnyConsensusContract \/ AnyVersionOrPause
    BY <2>3 DEF AnyConsensusContract, AnyVersionOrPause, worldVars, securityVars, lidoVars
  <2>4. CASE UNCHANGED vars
    BY <2>4 DEF vars, worldVars, securityVars, lidoVars
  <2>5. /\ ~AccountingCommittee /\ ~AccountingMainData /\ ~AccountingExtraData
        /\ \A c, op : ~ChainMoves(c, op)
        /\ \A id, op, trigger : ~DaoCorrects(id, op, trigger)
    BY DEF AccountingCommittee, AccountingMainData, AccountingExtraData, ChainMoves, DaoCorrects
  <2>6. /\ \A g, id : ~GuardianSigns(g, id)
        /\ ~SomebodyDeposits /\ ~SomebodyPauses /\ ~OthersDeposit /\ ~OperatorsManageKeys
        /\ ~DaoManagesRouter /\ ~OwnerManagesSecurity
    BY DEF GuardianSigns, SomebodyDeposits, SomebodyPauses, OthersDeposit, OperatorsManageKeys,
       DaoManagesRouter, OwnerManagesSecurity
  <2>7. QED
    BY <2>1, <2>2, <2>3, <2>4, <2>5, <2>6 DEF Next
<1>2. QED
  BY <1>1, CountsUntouched DEF Reports, Deposits

LEMMA InitCounts ==
  ASSUME Init
  PROVE  CountsInv /\ NobodyExited
<1> DEFINE s == Scenarios[scenario]
<1>1. /\ s.stakingModules \in Seq(StakingModule)
      /\ Len(s.stakingModules) <= MAX_STAKING_MODULES_COUNT
      /\ IsInjective([id \in DOMAIN s.stakingModules |-> s.stakingModules[id].contract])
      /\ \A id \in DOMAIN s.stakingModules :
           /\ s.stakingModules[id].exitedValidatorsCount = 0
           /\ s.stakingModules[id].stakingModuleFee + s.stakingModules[id].treasuryFee
                <= TOTAL_BASIS_POINTS
      /\ s.contracts \in [Contracts -> ModuleContract]
      /\ \A c \in Contracts : \A op \in Operators :
           /\ s.contracts[c].exited[op] = 0
           /\ s.contracts[c].stuck[op] \in 0..s.contracts[c].deposited[op]
      /\ s.credentials \in Credentials
      /\ s.depositable \in Nat
  BY ScenariosAssumption DEF Init
<1>2. /\ stakingModules = s.stakingModules /\ contracts = s.contracts
      /\ withdrawalCredentials = s.credentials /\ depositable = s.depositable
      /\ chain = KnownCounts /\ gathered = Gathered(0) /\ reported = [c \in Contracts |-> 0]
  BY DEF Init
<1> HIDE DEF s
<1>3. StakingRouterTypeOK /\ ContractsAreDistinct
  BY <1>1, <1>2 DEF StakingRouterTypeOK, ContractsAreDistinct, IsInjective
<1>4. gathered.truth = chain
  BY <1>2 DEF Gathered
<1>5. chain \in [Contracts -> SettledCounts]
  BY <1>1, <1>2 DEF KnownCounts, SettledCounts, ModuleContract
<1>6. \A c \in Contracts : \A op \in Operators : contracts[c].deposited[op] \in Nat
  BY <1>3 DEF StakingRouterTypeOK, ModuleContract, Counts
<1>7. \A c \in Contracts : \A op \in Operators :
        /\ chain[c].exited[op] = 0 /\ contracts[c].exited[op] = 0
        /\ chain[c].stuck[op] \in 0..contracts[c].deposited[op]
  BY <1>1, <1>2 DEF KnownCounts
<1>8. ChainInv
  BY <1>4, <1>5, <1>6, <1>7 DEF ChainInv
<1>9. ASSUME NEW id \in DOMAIN stakingModules
      PROVE  /\ stakingModules[id].exitedValidatorsCount <= ExitedInTotal(chain, id)
             /\ reported[ContractOf(id)] <= stakingModules[id].exitedValidatorsCount
  <2>1. stakingModules[id].contract \in Contracts
    BY <1>3, ModuleFacts
  <2>2. chain[stakingModules[id].contract].exited \in Counts
    BY <1>5, <2>1 DEF SettledCounts
  <2>3. SumFunction(chain[stakingModules[id].contract].exited) \in Nat
    <3>1. \A f \in Counts : SumFunction(f) \in Nat
      BY CountsAreSummed DEF Counts
    <3>2. QED
      BY <2>2, <3>1
  <2>4. QED
    BY <1>1, <1>2, <2>1, <2>3 DEF ExitedInTotal, ContractOf
<1>10. ModulesInv
  BY <1>1, <1>2, <1>3, <1>9 DEF ModulesInv
<1>11. QED
  BY <1>1, <1>2, <1>8, <1>10 DEF CountsInv, NobodyExited

------------------------------------------------------------------------------

(***************************************************************************)
(* The list of a finite set of numbers in ascending order.                 *)
(***************************************************************************)
LEMMA GreatestOfFinite ==
  ASSUME NEW S, IsFiniteSet(S), S \subseteq Nat, S # {}
  PROVE  \E m \in S : \A x \in S : x <= m
<1> DEFINE P == {s \in SUBSET S : s = {} \/ \E m \in s : \A x \in s : x <= m}
<1>1. {} \in P
  OBVIOUS
<1>2. ASSUME NEW s \in P, NEW y \in S \ s PROVE s \union {y} \in P
  <2>1. CASE s = {}
    BY <2>1
  <2>2. CASE s # {}
    <3>1. PICK m \in s : \A x \in s : x <= m
      BY <2>2
    <3>2. m \in Nat /\ y \in Nat
      OBVIOUS
    <3>3. CASE y <= m
      BY <3>1, <3>3
    <3>4. CASE m < y
      <4>1. \A x \in s \union {y} : x <= y
        BY <3>1, <3>2, <3>4
      <4>2. QED
        BY <4>1
    <3>5. QED
      BY <3>2, <3>3, <3>4
  <2>3. QED
    BY <2>1, <2>2
<1>3. P = SUBSET S
  <2>1. P \in SUBSET (SUBSET S)
    OBVIOUS
  <2> HIDE DEF P
  <2> QED BY <1>1, <1>2, <2>1, AllSubsets
<1>4. QED
  BY <1>3

LEMMA AscendingIsInjective ==
  ASSUME NEW n \in Nat, NEW S \in SUBSET Nat, NEW s \in [1..n -> S], StrictlyAscending(s),
         NEW i \in 1..n, NEW j \in 1..n, i < j
  PROVE  s[i] < s[j]
<1>1. s \in Seq(Nat) /\ Len(s) = n
  <2>1. s \in [1..n -> Nat]
    OBVIOUS
  <2>2. QED
    BY <2>1
<1>2. \A k \in 2..n : s[k - 1] < s[k]
  <2> SUFFICES ASSUME NEW k \in 2..n PROVE s[k - 1] < s[k]
    OBVIOUS
  <2>1. k - 1 \in 1..n - 1 /\ (k - 1) + 1 = k
    OBVIOUS
  <2>2. s[k - 1] < s[(k - 1) + 1]
    BY <1>1, <2>1 DEF StrictlyAscending
  <2>3. QED
    BY <2>1, <2>2
<1>3. i \in 1..n - 1 /\ i + 1 \in 1..j
  OBVIOUS
<1>4. s[i] < s[i + 1]
  BY <1>1, <1>3 DEF StrictlyAscending
<1>5. s[i + 1] <= s[j]
  BY <1>1, <1>2, <1>3, AscendingSequence
<1>6. s[i] \in Nat /\ s[j] \in Nat /\ s[i + 1] \in Nat
  <2>1. s \in [1..n -> Nat]
    OBVIOUS
  <2> DEFINE k == i + 1
  <2>2. k \in 1..n
    OBVIOUS
  <2> HIDE DEF k
  <2>3. s[i] \in Nat /\ s[j] \in Nat /\ s[k] \in Nat
    BY <2>1, <2>2
  <2>4. QED
    BY <2>3 DEF k
<1>7. QED
  BY <1>4, <1>5, <1>6

LEMMA AscendingExists ==
  ASSUME NEW S \in SUBSET Nat, IsFiniteSet(S)
  PROVE  \E s \in [1..Cardinality(S) -> S] : StrictlyAscending(s)
<1> DEFINE Ordered(t) == \E s \in [1..Cardinality(t) -> t] : StrictlyAscending(s)
           N == {n \in Nat : \A t \in SUBSET S : Cardinality(t) = n => Ordered(t)}
<1>1. 0 \in N
  <2> SUFFICES ASSUME NEW t \in SUBSET S, Cardinality(t) = 0 PROVE Ordered(t)
    OBVIOUS
  <2>1. <<>> \in [1..Cardinality(t) -> t] /\ Len(<<>>) = 0
    OBVIOUS
  <2>2. StrictlyAscending(<<>>)
    BY <2>1 DEF StrictlyAscending
  <2>3. QED
    BY <2>1, <2>2
<1>2. ASSUME NEW n \in N PROVE n + 1 \in N
  <2>1. n \in Nat /\ \A t \in SUBSET S : Cardinality(t) = n => Ordered(t)
    OBVIOUS
  <2> HIDE DEF N
  <2>2. ASSUME NEW t \in SUBSET S, Cardinality(t) = n + 1 PROVE Ordered(t)
    <3>1. IsFiniteSet(t)
      BY FS_Subset
    <3>2. t # {}
      <4>1. n + 1 # 0
        BY <2>1
      <4>2. QED
        BY <2>2, <4>1, FS_EmptySet
    <3>3. PICK m \in t : \A x \in t : x <= m
      <4>1. t \subseteq Nat
        OBVIOUS
      <4>2. QED
        BY <3>1, <3>2, <4>1, GreatestOfFinite
    <3>4. t \ {m} \in SUBSET S /\ Cardinality(t \ {m}) = n
      <4>1. Cardinality(t \ {m}) = Cardinality(t) - 1
        BY <3>1, FS_RemoveElement
      <4>2. QED
        BY <2>1, <2>2, <4>1
    <3>5. PICK s \in [1..n -> t \ {m}] : StrictlyAscending(s)
      BY <2>1, <3>4
    <3> DEFINE q == [i \in 1..n + 1 |-> IF i = n + 1 THEN m ELSE s[i]]
    <3>6. q \in [1..n + 1 -> t] /\ Len(q) = n + 1
      BY <2>1
    <3>7. ASSUME NEW i \in 1..n PROVE q[i] < q[i + 1]
      <4>1. i + 1 \in 1..n + 1 /\ i # n + 1 /\ q[i] = s[i]
        BY <2>1
      <4>2. CASE i = n
        <5>1. q[i + 1] = m /\ s[i] \in t \ {m}
          BY <2>1, <4>2
        <5>2. m \in Nat /\ s[i] \in Nat /\ s[i] # m
          BY <5>1
        <5>3. s[i] <= m
          BY <3>3, <5>1
        <5>4. QED
          BY <4>1, <5>1, <5>2, <5>3
      <4>3. CASE i # n
        <5>1. i \in 1..n - 1 /\ q[i + 1] = s[i + 1] /\ Len(s) = n
          BY <2>1, <4>3
        <5>2. QED
          BY <3>5, <4>1, <5>1 DEF StrictlyAscending
      <4>4. QED
        BY <4>2, <4>3
    <3> HIDE DEF q
    <3>8. StrictlyAscending(q)
      BY <2>1, <3>6, <3>7 DEF StrictlyAscending
    <3>9. QED
      BY <2>2, <3>6, <3>8
  <2>3. QED
    BY <2>1, <2>2 DEF N
<1>3. N = Nat
  <2> HIDE DEF N
  <2> QED BY <1>1, <1>2, AllNaturals DEF N
<1>4. Cardinality(S) \in N
  <2>1. Cardinality(S) \in Nat
    BY FS_CardinalityType
  <2> HIDE DEF N
  <2> QED BY <1>3, <2>1
<1>5. QED
  BY <1>4

LEMMA AscendingLists ==
  ASSUME NEW S \in SUBSET Nat, IsFiniteSet(S)
  PROVE  LET ids == Ascending(S)
         IN  /\ ids \in Seq(S)
             /\ Len(ids) \in Nat /\ DOMAIN ids = 1..Len(ids)
             /\ \A i \in DOMAIN ids : ids[i] \in S
             /\ \A i, j \in DOMAIN ids : i < j => ids[i] < ids[j]
             /\ \A x \in S : \E i \in DOMAIN ids : ids[i] = x
             /\ StrictlyAscending(ids)
             /\ ids = <<>> => S = {}
<1> DEFINE ids == Ascending(S)
           n == Cardinality(S)
<1>1. n \in Nat
  BY FS_CardinalityType
<1>2. ids \in [1..n -> S] /\ StrictlyAscending(ids)
  <2>1. \E s \in [1..n -> S] : StrictlyAscending(s)
    BY AscendingExists
  <2>2. ids = CHOOSE s \in [1..n -> S] : StrictlyAscending(s)
    BY DEF Ascending
  <2> HIDE DEF ids, n
  <2>3. QED
    BY <2>1, <2>2
<1> HIDE DEF ids
<1>3. \A i, j \in 1..n : i < j => ids[i] < ids[j]
  BY <1>1, <1>2, AscendingIsInjective
<1>4. \A x \in S : \E i \in 1..n : ids[i] = x
  <2> SUFFICES ASSUME NEW x \in S, \A i \in 1..n : ids[i] # x PROVE FALSE
    OBVIOUS
  <2>1. ids \in [1..n -> S \ {x}]
    BY <1>2
  <2>2. IsFiniteSet(S \ {x}) /\ Cardinality(S \ {x}) = n - 1
    BY FS_RemoveElement
  <2>3. IsFiniteSet(1..n) /\ Cardinality(1..n) = n
    BY <1>1, FS_Interval
  <2> HIDE DEF n
  <2>4. PICK i, j \in 1..n : i # j /\ ids[i] = ids[j]
    <3>1. Cardinality(S \ {x}) < Cardinality(1..n)
      BY <1>1, <2>2, <2>3
    <3> DEFINE T == S \ {x}
               I == 1..n
    <3>2. ids \in [I -> T] /\ IsFiniteSet(T) /\ IsFiniteSet(I) /\ Cardinality(T) < Cardinality(I)
      BY <2>1, <2>2, <2>3, <3>1
    <3> HIDE DEF T, I
    <3>3. \E i, j \in I : i # j /\ ids[i] = ids[j]
      BY <3>2, FS_PigeonHole
    <3>4. QED
      BY <3>3 DEF I
  <2>5. ids[i] \in Nat /\ ids[j] \in Nat
    BY <1>2
  <2>6. QED
    BY <1>1, <1>3, <2>4, <2>5
<1> HIDE DEF n
<1>5. ids \in Seq(S) /\ Len(ids) = n /\ DOMAIN ids = 1..n
  BY <1>1, <1>2
<1>6. ids = <<>> => S = {}
  BY <1>1, <1>2, <1>4, <1>5
<1>7. QED
  BY <1>1, <1>2, <1>3, <1>4, <1>5, <1>6 DEF ids

(***************************************************************************)
(* What a committee gathers.                                               *)
(***************************************************************************)
LEMMA TotalsGathered ==
  ASSUME StakingRouterTypeOK, NEW truth, \A id \in DOMAIN stakingModules : ExitedInTotal(truth, id) \in Nat
  PROVE  LET exited == NewlyExited(truth)
         IN  /\ exited \in Seq(Nat \X Nat)
             /\ \A i \in DOMAIN exited :
                  /\ exited[i][1] \in DOMAIN stakingModules
                  /\ exited[i][2] = ExitedInTotal(truth, exited[i][1])
                  /\ exited[i][2] # 0
             /\ StrictlyAscending([i \in DOMAIN exited |-> exited[i][1]])
             /\ \A id \in DOMAIN stakingModules :
                  \/ stakingModules[id].exitedValidatorsCount >= ExitedInTotal(truth, id)
                  \/ Listed(exited, id)
<1> DEFINE S == {id \in DOMAIN stakingModules :
                   ExitedInTotal(truth, id) > stakingModules[id].exitedValidatorsCount}
           ids == Ascending(S)
           exited == NewlyExited(truth)
           firsts == [i \in DOMAIN exited |-> exited[i][1]]
<1>1. /\ IsFiniteSet(DOMAIN stakingModules) /\ DOMAIN stakingModules \subseteq Nat
      /\ \A id \in DOMAIN stakingModules : stakingModules[id].exitedValidatorsCount \in Nat
  BY ModuleFacts, FS_Interval, SMTT(30) DEF StakingModule
<1>2. S \in SUBSET Nat /\ IsFiniteSet(S)
  BY <1>1, FS_Subset
<1> HIDE DEF S
<1>3. /\ Len(ids) \in Nat /\ DOMAIN ids = 1..Len(ids)
      /\ \A i \in DOMAIN ids : ids[i] \in S
      /\ \A x \in S : \E i \in DOMAIN ids : ids[i] = x
      /\ StrictlyAscending(ids)
  BY <1>2, AscendingLists
<1>4. exited = [i \in DOMAIN ids |-> <<ids[i], ExitedInTotal(truth, ids[i])>>]
  BY DEF NewlyExited, S
<1> HIDE DEF ids, exited
<1>5. \A id \in S : /\ id \in DOMAIN stakingModules /\ id \in Nat
                    /\ ExitedInTotal(truth, id) \in Nat /\ ExitedInTotal(truth, id) # 0
  BY <1>1 DEF S
<1>6. DOMAIN exited = 1..Len(ids) /\ exited \in Seq(Nat \X Nat) /\ Len(exited) = Len(ids)
  <2>1. \A i \in 1..Len(ids) : exited[i] \in Nat \X Nat
    BY <1>3, <1>4, <1>5
  <2>2. exited \in [1..Len(ids) -> Nat \X Nat]
    BY <1>3, <1>4, <2>1
  <2>3. QED
    BY <1>3, <2>2
<1>7. \A i \in DOMAIN exited : exited[i][1] = ids[i] /\ exited[i][2] = ExitedInTotal(truth, ids[i])
                               /\ ids[i] \in S
  BY <1>3, <1>4, <1>6
<1>8. StrictlyAscending(firsts)
  <2>1. firsts = [i \in 1..Len(ids) |-> ids[i]] /\ ids \in [1..Len(ids) -> S]
    <3>1. firsts = [i \in 1..Len(ids) |-> ids[i]]
      BY <1>6, <1>7
    <3>2. ids = [i \in 1..Len(ids) |-> ids[i]]
      BY <1>2, <1>3, AscendingLists, LenProperties DEF ids
    <3>3. QED
      BY <1>3, <3>1, <3>2
  <2>2. ids = [i \in 1..Len(ids) |-> ids[i]]
    BY <2>1
  <2>3. QED
    BY <1>3, <2>1, <2>2
<1>9. \A id \in DOMAIN stakingModules :
        \/ stakingModules[id].exitedValidatorsCount >= ExitedInTotal(truth, id)
        \/ Listed(exited, id)
  <2> SUFFICES ASSUME NEW id \in DOMAIN stakingModules,
                      ~(stakingModules[id].exitedValidatorsCount >= ExitedInTotal(truth, id))
               PROVE  Listed(exited, id)
    OBVIOUS
  <2>1. id \in S
    BY <1>1 DEF S
  <2>2. QED
    BY <1>3, <1>6, <1>7, <2>1 DEF Listed
<1>10. QED
  BY <1>5, <1>6, <1>7, <1>8, <1>9 DEF exited

LEMMA CountsListed ==
  ASSUME NEW true \in Counts, NEW known \in Counts
  PROVE  LET list == CountsToReport(true, known)
         IN  /\ list \in Seq(Operators \X Nat)
             /\ \A j \in DOMAIN list : list[j][1] \in Operators /\ list[j][2] = true[list[j][1]]
             /\ \A op \in Operators : true[op] # known[op] => \E j \in DOMAIN list : list[j][1] = op
             /\ true # known => list # <<>>
<1> DEFINE S == {op \in Operators : true[op] # known[op]}
           ops == Ascending(S)
           list == CountsToReport(true, known)
<1>1. S \in SUBSET Nat /\ IsFiniteSet(S) /\ S \subseteq Operators
  BY StakingRouterAssumption, FS_Subset
<1>2. true = [op \in Operators |-> true[op]] /\ known = [op \in Operators |-> known[op]]
      /\ \A op \in Operators : true[op] \in Nat
  BY DEF Counts
<1>3. \A op \in Operators : op \in S <=> true[op] # known[op]
  OBVIOUS
<1>4. true # known => S # {}
  BY <1>2, <1>3
<1> HIDE DEF S
<1>5. /\ Len(ops) \in Nat /\ DOMAIN ops = 1..Len(ops)
      /\ \A i \in DOMAIN ops : ops[i] \in S
      /\ \A x \in S : \E i \in DOMAIN ops : ops[i] = x
  BY <1>1, AscendingLists
<1>6. list = [i \in DOMAIN ops |-> <<ops[i], true[ops[i]]>>]
  BY DEF CountsToReport, S
<1> HIDE DEF ops, list
<1>7. list \in Seq(Operators \X Nat) /\ DOMAIN list = 1..Len(ops)
  <2>1. \A i \in 1..Len(ops) : list[i] \in Operators \X Nat
    BY <1>1, <1>2, <1>5, <1>6
  <2>2. list \in [1..Len(ops) -> Operators \X Nat]
    BY <1>5, <1>6, <2>1
  <2>3. QED
    BY <1>5, <2>2
<1>8. \A j \in DOMAIN list : list[j][1] \in Operators /\ list[j][2] = true[list[j][1]]
  BY <1>1, <1>5, <1>6, <1>7
<1>9. \A op \in Operators : true[op] # known[op] => \E j \in DOMAIN list : list[j][1] = op
  BY <1>3, <1>5, <1>6, <1>7
<1>10. true # known => list # <<>>
  <2> SUFFICES ASSUME true # known PROVE list # <<>>
    OBVIOUS
  <2>1. PICK i \in DOMAIN ops : TRUE
    BY <1>4, <1>5
  <2>2. i \in DOMAIN list
    BY <1>5, <1>7
  <2>3. QED
    BY <2>2
<1>11. QED
  BY <1>7, <1>8, <1>9, <1>10 DEF list

LEMMA KindsAreCounts ==
  ASSUME StakingRouterTypeOK, NEW truth \in [Contracts -> SettledCounts], NEW type \in 1..2,
         NEW c \in Contracts
  PROVE  KindOf(truth[c], type) \in Counts /\ KindOf(contracts[c], type) \in Counts
<1>1. contracts[c] \in ModuleContract /\ truth[c] \in SettledCounts
  BY DEF StakingRouterTypeOK
<1>2. type = 1 \/ type = 2
  OBVIOUS
<1>3. ItemTypes[1] = "stuck" /\ ItemTypes[2] = "exited"
  BY DEF ItemTypes
<1>4. QED
  BY <1>1, <1>2, <1>3 DEF ModuleContract, SettledCounts, KindOf

LEMMA ItemsOfType ==
  ASSUME StakingRouterTypeOK, NEW truth \in [Contracts -> SettledCounts], NEW type \in 1..2
  PROVE  LET items == ItemsOf(type, truth)
         IN  /\ items \in Seq(Item) /\ Len(items) \in Nat /\ DOMAIN items = 1..Len(items)
             /\ \A i \in DOMAIN items : /\ items[i][1] = type
                                        /\ TrueItem(items[i], truth) /\ WholeItem(items[i], truth)
             /\ \A i, j \in DOMAIN items : i < j => items[i][2] < items[j][2]
             /\ \A id \in DOMAIN stakingModules :
                  Wrong(type, truth, id) => \E i \in DOMAIN items : items[i][2] = id
<1> DEFINE S == {id \in DOMAIN stakingModules : Wrong(type, truth, id)}
           ids == Ascending(S)
           items == ItemsOf(type, truth)
           list(id) == CountsToReport(KindOf(truth[ContractOf(id)], type),
                                      KindOf(contracts[ContractOf(id)], type))
<1>1. IsFiniteSet(DOMAIN stakingModules) /\ DOMAIN stakingModules \subseteq Nat
  BY ModuleFacts, FS_Interval
<1>2. S \in SUBSET Nat /\ IsFiniteSet(S)
  BY <1>1, FS_Subset
<1>3. ASSUME NEW id \in S
      PROVE  /\ id \in Nat /\ id \in DOMAIN stakingModules
             /\ list(id) \in Seq(Operators \X Nat) /\ list(id) # <<>>
             /\ \A j \in DOMAIN list(id) :
                  list(id)[j][2] = KindOf(truth[ContractOf(id)], type)[list(id)[j][1]]
             /\ \A op \in Operators :
                  KindOf(truth[ContractOf(id)], type)[op] # KindOf(contracts[ContractOf(id)], type)[op]
                    => \E j \in DOMAIN list(id) : list(id)[j][1] = op
  <2> DEFINE true == KindOf(truth[ContractOf(id)], type)
             known == KindOf(contracts[ContractOf(id)], type)
  <2>1. id \in Nat /\ id \in DOMAIN stakingModules /\ true # known
    BY <1>1 DEF Wrong
  <2>2. ContractOf(id) \in Contracts
    BY <2>1, ModuleFacts DEF ContractOf
  <2>3. true \in Counts /\ known \in Counts
    BY <2>2, KindsAreCounts
  <2>4. list(id) = CountsToReport(true, known)
    OBVIOUS
  <2> HIDE DEF true, known, list
  <2>5. QED
    BY <2>1, <2>3, <2>4, CountsListed DEF true, known
<1>4. items = [i \in DOMAIN ids |-> <<type, ids[i], list(ids[i])>>]
  BY DEF ItemsOf, KindOf, Wrong
<1>5. \A id \in DOMAIN stakingModules : Wrong(type, truth, id) => id \in S
  OBVIOUS
<1> HIDE DEF S
<1>6. /\ Len(ids) \in Nat /\ DOMAIN ids = 1..Len(ids)
      /\ \A i \in DOMAIN ids : ids[i] \in S
      /\ \A i, j \in DOMAIN ids : i < j => ids[i] < ids[j]
      /\ \A x \in S : \E i \in DOMAIN ids : ids[i] = x
  BY <1>2, AscendingLists
<1> HIDE DEF ids, items, list
<1>7. ASSUME NEW i \in 1..Len(ids)
      PROVE  /\ items[i] = <<type, ids[i], list(ids[i])>>
             /\ items[i][1] = type /\ items[i][2] = ids[i] /\ items[i][3] = list(ids[i])
             /\ items[i] \in Item /\ TrueItem(items[i], truth) /\ WholeItem(items[i], truth)
  <2>1. ids[i] \in S /\ items[i] = <<type, ids[i], list(ids[i])>>
    BY <1>4, <1>6
  <2>2. items[i][1] = type /\ items[i][2] = ids[i] /\ items[i][3] = list(ids[i])
    BY <2>1
  <2>3. items[i] \in Item
    BY <1>3, <2>1 DEF Item
  <2>4. TrueItem(items[i], truth)
    BY <1>3, <2>1, <2>2, <2>3 DEF TrueItem
  <2>5. WholeItem(items[i], truth)
    BY <1>3, <2>1, <2>2 DEF WholeItem
  <2>6. QED
    BY <2>1, <2>2, <2>3, <2>4, <2>5
<1>8. items \in Seq(Item) /\ Len(items) = Len(ids) /\ DOMAIN items = 1..Len(ids)
  <2>1. items \in [1..Len(ids) -> Item]
    BY <1>4, <1>6, <1>7
  <2>2. QED
    BY <1>6, <2>1
<1>9. \A i, j \in DOMAIN items : i < j => items[i][2] < items[j][2]
  BY <1>6, <1>7, <1>8
<1>10. \A id \in DOMAIN stakingModules :
         Wrong(type, truth, id) => \E i \in DOMAIN items : items[i][2] = id
  BY <1>5, <1>6, <1>7, <1>8
<1>11. QED
  BY <1>6, <1>7, <1>8, <1>9, <1>10 DEF items

LEMMA ItemsGathered ==
  ASSUME StakingRouterTypeOK, NEW truth \in [Contracts -> SettledCounts]
  PROVE  Describe(Items(truth), truth)
<1> DEFINE s == ItemsOf(1, truth)
           t == ItemsOf(2, truth)
           items == Items(truth)
<1>1. /\ s \in Seq(Item) /\ Len(s) \in Nat /\ DOMAIN s = 1..Len(s)
      /\ \A i \in DOMAIN s : s[i][1] = 1 /\ TrueItem(s[i], truth) /\ WholeItem(s[i], truth)
      /\ \A i, j \in DOMAIN s : i < j => s[i][2] < s[j][2]
      /\ \A id \in DOMAIN stakingModules : Wrong(1, truth, id) => \E i \in DOMAIN s : s[i][2] = id
  BY ItemsOfType
<1>2. /\ t \in Seq(Item) /\ Len(t) \in Nat /\ DOMAIN t = 1..Len(t)
      /\ \A i \in DOMAIN t : t[i][1] = 2 /\ TrueItem(t[i], truth) /\ WholeItem(t[i], truth)
      /\ \A i, j \in DOMAIN t : i < j => t[i][2] < t[j][2]
      /\ \A id \in DOMAIN stakingModules : Wrong(2, truth, id) => \E i \in DOMAIN t : t[i][2] = id
  BY ItemsOfType
<1>3. items = s \o t
  BY DEF Items
<1> HIDE DEF s, t, items
<1>4. /\ items \in Seq(Item) /\ Len(items) = Len(s) + Len(t)
      /\ \A i \in 1..Len(s) + Len(t) : items[i] = IF i <= Len(s) THEN s[i] ELSE t[i - Len(s)]
  BY <1>1, <1>2, <1>3, ConcatProperties
<1>5. DOMAIN items = 1..Len(s) + Len(t)
  BY <1>4, LenProperties
<1>6. ASSUME NEW i \in DOMAIN items
      PROVE  \/ i \in DOMAIN s /\ items[i] = s[i] /\ items[i][1] = 1
             \/ i - Len(s) \in DOMAIN t /\ items[i] = t[i - Len(s)] /\ items[i][1] = 2
                /\ ~(i \in DOMAIN s)
  <2>1. CASE i <= Len(s)
    BY <1>1, <1>4, <1>5, <2>1
  <2>2. CASE ~(i <= Len(s))
    <3>1. i - Len(s) \in DOMAIN t /\ i \notin DOMAIN s
      BY <1>1, <1>2, <1>5, <2>2
    <3>2. QED
      BY <1>2, <1>4, <1>5, <2>2, <3>1
  <2>3. QED
    BY <2>1, <2>2
<1>7. \A i \in DOMAIN items : TrueItem(items[i], truth) /\ WholeItem(items[i], truth)
  BY <1>1, <1>2, <1>6
<1>8. ASSUME NEW i \in DOMAIN items, NEW j \in DOMAIN items, i < j
      PROVE  Later(items[i], items[j])
  <2>1. i \in Int /\ j \in Int
    BY <1>1, <1>2, <1>5
  <2>2. CASE i \in DOMAIN s /\ j \in DOMAIN s
    <3>1. items[i] = s[i] /\ items[j] = s[j] /\ s[i][1] = s[j][1] /\ s[i][2] < s[j][2]
      BY <1>1, <1>4, <1>5, <1>8, <2>2
    <3>2. QED
      BY <3>1 DEF Later
  <2>3. CASE i \in DOMAIN s /\ j \notin DOMAIN s
    <3>1. items[i][1] = 1 /\ items[j][1] = 2
      BY <1>6, <2>3
    <3>2. QED
      BY <3>1 DEF Later
  <2>4. CASE i \notin DOMAIN s
    <3>1. j \notin DOMAIN s
      BY <1>1, <1>5, <1>8, <2>1, <2>4
    <3> DEFINE a == i - Len(s)
               b == j - Len(s)
    <3>2. a \in DOMAIN t /\ b \in DOMAIN t /\ items[i] = t[a] /\ items[j] = t[b]
      BY <1>6, <2>4, <3>1
    <3>3. a < b
      BY <1>1, <1>8, <2>1
    <3> HIDE DEF a, b
    <3>4. t[a][1] = t[b][1] /\ t[a][2] < t[b][2]
      BY <1>2, <3>2, <3>3
    <3>5. QED
      BY <3>2, <3>4 DEF Later
  <2>5. QED
    BY <2>2, <2>3, <2>4
<1>9. ASSUME NEW type \in 1..2, NEW id \in DOMAIN stakingModules, Wrong(type, truth, id)
      PROVE  \E i \in DOMAIN items : items[i][1] = type /\ items[i][2] = id
  <2>1. CASE type = 1
    <3>1. PICK i \in DOMAIN s : s[i][2] = id
      BY <1>1, <1>9, <2>1
    <3>2. i \in DOMAIN items /\ items[i] = s[i]
      BY <1>1, <1>2, <1>4, <1>5
    <3>3. QED
      BY <1>1, <2>1, <3>1, <3>2
  <2>2. CASE type = 2
    <3>1. PICK i \in DOMAIN t : t[i][2] = id
      BY <1>2, <1>9, <2>2
    <3> DEFINE k == i + Len(s)
    <3>2. k \in 1..Len(s) + Len(t) /\ ~(k <= Len(s)) /\ k - Len(s) = i
      BY <1>1, <1>2
    <3> HIDE DEF k
    <3>3. k \in DOMAIN items /\ items[k] = t[i]
      BY <1>4, <1>5, <3>2
    <3>4. QED
      BY <1>2, <2>2, <3>1, <3>3
  <2>3. QED
    BY <2>1, <2>2
<1>10. QED
  BY <1>4, <1>7, <1>8, <1>9 DEF Describe, items

------------------------------------------------------------------------------

(***************************************************************************)
(* A module is told counts of its operators: FoldLeft of these steps.      *)
(***************************************************************************)
StuckStep(r, c) ==
  IF c[1] \in Operators /\ StuckIsValid(r.module, c[1], c[2])
  THEN [r EXCEPT !.module = WithStuck(@, c[1], c[2])]
  ELSE [r EXCEPT !.reverted = TRUE]

ExitedStep(r, c) ==
  IF c[1] \in Operators /\ ExitedIsValid(r.module, c[1], c[2], FALSE)
  THEN [r EXCEPT !.module = WithExited(@, c[1], c[2])]
  ELSE [r EXCEPT !.reverted = TRUE]

CountState == [reverted : BOOLEAN, module : ModuleContract]

FirstCount(m) == [reverted |-> FALSE, module |-> [m EXCEPT !.nonce = @ + 1]]

StuckSteps(counts) ==
  [pair \in (1..Len(counts)) \X CountState |-> StuckStep(pair[2], counts[pair[1]])]

ExitedSteps(counts) ==
  [pair \in (1..Len(counts)) \X CountState |-> ExitedStep(pair[2], counts[pair[1]])]

LEMMA FirstCountIsTyped ==
  ASSUME NEW m \in ModuleContract
  PROVE  FirstCount(m) \in CountState
<1>1. PICK k : k = m.nonce + 1
  OBVIOUS
<1>2. k \in Nat
  BY <1>1 DEF ModuleContract
<1>3. PICK u : u = [m EXCEPT !.nonce = k]
  OBVIOUS
<1>4. u \in ModuleContract
  BY ONLY m \in ModuleContract, <1>2, <1>3 DEF ModuleContract
<1>5. FirstCount(m) = [reverted |-> FALSE, module |-> u]
  BY <1>1, <1>3 DEF FirstCount
<1>6. QED
  BY <1>4, <1>5 DEF CountState

LEMMA StuckCountKeepsType ==
  ASSUME NEW r \in CountState, NEW c \in Operators \X Nat
  PROVE  StuckStep(r, c) \in CountState
<1>1. c[1] \in Operators /\ c[2] \in Nat /\ r.module \in ModuleContract
  BY DEF CountState
<1>2. WithStuck(r.module, c[1], c[2]) \in ModuleContract
  BY <1>1, StuckTold
<1>3. QED
  BY <1>1, <1>2 DEF StuckStep, CountState

LEMMA StuckCountsHaveTrace ==
  ASSUME NEW m \in ModuleContract, NEW counts \in Seq(Operators \X Nat)
  PROVE  HasFoldTrace(Len(counts), CountState, FirstCount(m), StuckSteps(counts),
                      UpdateStuckValidatorsCount(m, counts))
<1> DEFINE n == Len(counts)
           S == 1..n
           V == CountState
           F == StuckSteps(counts)
           first == FirstCount(m)
           body(h) == [s \in SUBSET S |-> IF s = {} THEN first
                         ELSE StuckStep(h[s \ {Max(s)}], counts[Max(s)])]
<1>0. n \in Nat /\ DOMAIN counts = S /\ \A i \in S : counts[i] \in Operators \X Nat
  BY LenProperties, ElementOfSeq
<1>1. F \in [S \X V -> V]
      /\ \A i \in S, st \in V : F[<<i, st>>] = StuckStep(st, counts[i])
  <2>1. \A pair \in S \X V : StuckStep(pair[2], counts[pair[1]]) \in V
    BY <1>0, StuckCountKeepsType
  <2>2. QED
    BY <2>1 DEF StuckSteps
<1> HIDE DEF V, F, n
<1>2. first \in V
  BY FirstCountIsTyped DEF V
<1> HIDE DEF first
<1>3. PICK g : FoldsWith(g, n, V, first, F)
  BY <1>0, <1>1, <1>2, FoldExists
<1>4. \A s \in SUBSET S : s # {} => Max(s) \in S
  BY <1>0, HasGreatest
<1>5. g = body(g)
  <2>1. ASSUME NEW s \in SUBSET S PROVE g[s] = body(g)[s]
    <3>1. CASE s = {}
      BY <1>3, <3>1 DEF FoldsWith
    <3>2. CASE s # {}
      <4>1. s \ {Max(s)} \in SUBSET S
        OBVIOUS
      <4>2. g[s \ {Max(s)}] \in V /\ g[s] = F[<<Max(s), g[s \ {Max(s)}]>>]
        BY <1>3, <3>2, <4>1 DEF FoldsWith
      <4>3. g[s] = StuckStep(g[s \ {Max(s)}], counts[Max(s)])
        BY <1>1, <1>4, <3>2, <4>2
      <4>4. QED
        BY <3>2, <4>3
    <3>3. QED
      BY <3>1, <3>2
  <2>2. g = [s \in SUBSET S |-> g[s]]
    BY <1>3 DEF FoldsWith
  <2>3. body(g) = [s \in SUBSET S |-> body(g)[s]]
    OBVIOUS
  <2> HIDE DEF body
  <2>4. QED
    BY <2>1, <2>2, <2>3
<1> DEFINE iter == CHOOSE h : h = body(h)
<1>6. iter = body(iter)
  <2> HIDE DEF body
  <2> QED BY <1>5
<1>7. UpdateStuckValidatorsCount(m, counts) = iter[S]
  <2>1. UpdateStuckValidatorsCount(m, counts) = FoldLeft(StuckStep, first, counts)
    BY DEF UpdateStuckValidatorsCount, StuckStep, first, FirstCount
  <2>2. QED
    BY <1>0, <2>1 DEF FoldLeft, MapThenFoldSet
<1> HIDE DEF iter
<1>8. iter[{}] = first
  BY <1>6
<1>9. ASSUME NEW s \in SUBSET S, s # {}, iter[s \ {Max(s)}] \in V
      PROVE  iter[s] = F[<<Max(s), iter[s \ {Max(s)}]>>]
  <2>1. iter[s] = StuckStep(iter[s \ {Max(s)}], counts[Max(s)])
    BY <1>6, <1>9
  <2>2. QED
    BY <1>1, <1>4, <1>9, <2>1
<1> HIDE DEF body
<1>10. IsFold(iter, n, V, first, F)
  BY <1>8, <1>9 DEF IsFold
<1>11. HasFoldTrace(n, V, first, F, iter[1..n])
  BY <1>0, <1>1, <1>2, <1>10, FoldHasTrace
<1>12. QED
  BY <1>7, <1>11 DEF V, F, n, first

LEMMA ExitedCountKeepsType ==
  ASSUME NEW r \in CountState, NEW c \in Operators \X Nat
  PROVE  ExitedStep(r, c) \in CountState
<1>1. c[1] \in Operators /\ c[2] \in Nat /\ r.module \in ModuleContract
  BY DEF CountState
<1>2. WithExited(r.module, c[1], c[2]) \in ModuleContract
  BY <1>1 DEF WithExited, ModuleContract, Counts
<1>3. QED
  BY <1>1, <1>2 DEF ExitedStep, CountState

LEMMA ExitedCountsHaveTrace ==
  ASSUME NEW m \in ModuleContract, NEW counts \in Seq(Operators \X Nat)
  PROVE  HasFoldTrace(Len(counts), CountState, FirstCount(m), ExitedSteps(counts),
                      UpdateExitedValidatorsCount(m, counts))
<1> DEFINE n == Len(counts)
           S == 1..n
           V == CountState
           F == ExitedSteps(counts)
           first == FirstCount(m)
           body(h) == [s \in SUBSET S |-> IF s = {} THEN first
                         ELSE ExitedStep(h[s \ {Max(s)}], counts[Max(s)])]
<1>0. n \in Nat /\ DOMAIN counts = S /\ \A i \in S : counts[i] \in Operators \X Nat
  BY LenProperties, ElementOfSeq
<1>1. F \in [S \X V -> V]
      /\ \A i \in S, st \in V : F[<<i, st>>] = ExitedStep(st, counts[i])
  <2>1. \A pair \in S \X V : ExitedStep(pair[2], counts[pair[1]]) \in V
    BY <1>0, ExitedCountKeepsType
  <2>2. QED
    BY <2>1 DEF ExitedSteps
<1> HIDE DEF V, F, n
<1>2. first \in V
  BY FirstCountIsTyped DEF V
<1> HIDE DEF first
<1>3. PICK g : FoldsWith(g, n, V, first, F)
  BY <1>0, <1>1, <1>2, FoldExists
<1>4. \A s \in SUBSET S : s # {} => Max(s) \in S
  BY <1>0, HasGreatest
<1>5. g = body(g)
  <2>1. ASSUME NEW s \in SUBSET S PROVE g[s] = body(g)[s]
    <3>1. CASE s = {}
      BY <1>3, <3>1 DEF FoldsWith
    <3>2. CASE s # {}
      <4>1. s \ {Max(s)} \in SUBSET S
        OBVIOUS
      <4>2. g[s \ {Max(s)}] \in V /\ g[s] = F[<<Max(s), g[s \ {Max(s)}]>>]
        BY <1>3, <3>2, <4>1 DEF FoldsWith
      <4>3. g[s] = ExitedStep(g[s \ {Max(s)}], counts[Max(s)])
        BY <1>1, <1>4, <3>2, <4>2
      <4>4. QED
        BY <3>2, <4>3
    <3>3. QED
      BY <3>1, <3>2
  <2>2. g = [s \in SUBSET S |-> g[s]]
    BY <1>3 DEF FoldsWith
  <2>3. body(g) = [s \in SUBSET S |-> body(g)[s]]
    OBVIOUS
  <2> HIDE DEF body
  <2>4. QED
    BY <2>1, <2>2, <2>3
<1> DEFINE iter == CHOOSE h : h = body(h)
<1>6. iter = body(iter)
  <2> HIDE DEF body
  <2> QED BY <1>5
<1>7. UpdateExitedValidatorsCount(m, counts) = iter[S]
  <2>1. UpdateExitedValidatorsCount(m, counts) = FoldLeft(ExitedStep, first, counts)
    BY DEF UpdateExitedValidatorsCount, ExitedStep, first, FirstCount
  <2>2. QED
    BY <1>0, <2>1 DEF FoldLeft, MapThenFoldSet
<1> HIDE DEF iter
<1>8. iter[{}] = first
  BY <1>6
<1>9. ASSUME NEW s \in SUBSET S, s # {}, iter[s \ {Max(s)}] \in V
      PROVE  iter[s] = F[<<Max(s), iter[s \ {Max(s)}]>>]
  <2>1. iter[s] = ExitedStep(iter[s \ {Max(s)}], counts[Max(s)])
    BY <1>6, <1>9
  <2>2. QED
    BY <1>1, <1>4, <1>9, <2>1
<1> HIDE DEF body
<1>10. IsFold(iter, n, V, first, F)
  BY <1>8, <1>9 DEF IsFold
<1>11. HasFoldTrace(n, V, first, F, iter[1..n])
  BY <1>0, <1>1, <1>2, <1>10, FoldHasTrace
<1>12. QED
  BY <1>7, <1>11 DEF V, F, n, first

(***************************************************************************)
(* What the first k of the counts, all of them true, do to a module.       *)
(***************************************************************************)
StuckFits(m, true) ==
  \A op \in Operators : true[op] + m.exited[op] <= m.deposited[op]

ExitedFits(m, true) ==
  \A op \in Operators : m.exited[op] <= true[op] /\ true[op] + m.stuck[op] <= m.deposited[op]

ToldStuck(m, counts, true, k, r) ==
  /\ r.module.exited = m.exited /\ r.module.deposited = m.deposited /\ r.module.settled = m.settled
  /\ \A op \in Operators : r.module.stuck[op] \in {m.stuck[op], true[op]}
  /\ ~r.reverted => \A j \in 1..k : r.module.stuck[counts[j][1]] = true[counts[j][1]]
  /\ StuckFits(m, true) => ~r.reverted

LEMMA OneStuckTold ==
  ASSUME NEW m \in ModuleContract, NEW true \in Counts, NEW counts \in Seq(Operators \X Nat),
         NEW k \in Nat, k + 1 \in 1..Len(counts), NEW r \in CountState, ToldStuck(m, counts, true, k, r),
         NEW c, c = counts[k + 1], c[2] = true[c[1]],
         NEW next, next = StuckStep(r, c)
  PROVE  ToldStuck(m, counts, true, k + 1, next)
<1>1. c \in Operators \X Nat
  BY ElementOfSeq
<1> DEFINE op == c[1]
           v == true[op]
<1>2. op \in Operators /\ v \in Nat /\ c[2] = v
  BY <1>1 DEF Counts
<1>3. r.module \in ModuleContract /\ r.module.stuck \in Counts /\ r.reverted \in BOOLEAN
  BY DEF CountState, ModuleContract
<1> HIDE DEF op, v
<1>4. CASE StuckIsValid(r.module, op, v)
  <2>1. next = [r EXCEPT !.module = WithStuck(r.module, op, v)]
    BY <1>2, <1>4 DEF StuckStep, op
  <2>2. next.reverted = r.reverted /\ next.module = WithStuck(r.module, op, v)
    BY <2>1 DEF CountState
  <2>3. /\ next.module.exited = r.module.exited /\ next.module.deposited = r.module.deposited
        /\ next.module.settled = r.module.settled
        /\ next.module.stuck = [r.module.stuck EXCEPT ![op] = v]
    BY <1>2, <1>3, <2>2, StuckTold
  <2>4. \A p \in Operators : next.module.stuck[p] = IF p = op THEN v ELSE r.module.stuck[p]
    BY <1>2, <1>3, <2>3 DEF Counts
  <2>5. \A p \in Operators : next.module.stuck[p] \in {m.stuck[p], true[p]}
    BY <2>4 DEF ToldStuck, v
  <2>6. ASSUME ~next.reverted, NEW j \in 1..(k + 1)
        PROVE  next.module.stuck[counts[j][1]] = true[counts[j][1]]
    <3>1. counts[j][1] \in Operators
      <4>1. j \in 1..Len(counts)
        BY LenProperties
      <4>2. counts[j] \in Operators \X Nat
        BY <4>1, ElementOfSeq
      <4>3. QED
        BY <4>2
    <3>2. CASE counts[j][1] = op
      BY <2>4, <3>1, <3>2 DEF v
    <3>3. CASE counts[j][1] # op
      <4>1. j \in 1..k
        BY <3>3 DEF op
      <4>2. r.module.stuck[counts[j][1]] = true[counts[j][1]]
        BY <2>2, <2>6, <4>1 DEF ToldStuck
      <4>3. QED
        BY <2>4, <3>1, <3>3, <4>2
    <3>4. QED
      BY <3>2, <3>3
  <2>7. QED
    BY <2>2, <2>3, <2>5, <2>6 DEF ToldStuck
<1>5. CASE ~StuckIsValid(r.module, op, v)
  <2>1. next = [r EXCEPT !.reverted = TRUE]
    BY <1>2, <1>5 DEF StuckStep, op
  <2>2. next.module = r.module /\ next.reverted = TRUE
    BY <2>1 DEF CountState
  <2>3. ~StuckFits(m, true)
    <3> SUFFICES ASSUME StuckFits(m, true) PROVE StuckIsValid(r.module, op, v)
      BY <1>5
    <3>1. /\ r.module.exited[op] = m.exited[op] /\ r.module.deposited[op] = m.deposited[op]
          /\ r.module.stuck[op] \in {m.stuck[op], v}
      BY <1>2 DEF ToldStuck, v
    <3>2. {m.stuck[op], m.exited[op], m.deposited[op]} \subseteq Nat
      BY <1>2 DEF ModuleContract, Counts
    <3>3. v + m.exited[op] <= m.deposited[op]
      BY <1>2 DEF StuckFits, v
    <3>4. QED
      BY <1>2, <3>1, <3>2, <3>3 DEF StuckIsValid
  <2>4. QED
    BY <2>2, <2>3 DEF ToldStuck
<1>6. QED
  BY <1>4, <1>5

LEMMA StuckCountsAreTold ==
  ASSUME NEW m \in ModuleContract, NEW true \in Counts, NEW counts \in Seq(Operators \X Nat),
         \A j \in DOMAIN counts : counts[j][2] = true[counts[j][1]]
  PROVE  LET r == UpdateStuckValidatorsCount(m, counts)
         IN  r \in CountState /\ ToldStuck(m, counts, true, Len(counts), r)
<1> DEFINE n == Len(counts)
           V == CountState
           first == FirstCount(m)
           F == StuckSteps(counts)
           result == UpdateStuckValidatorsCount(m, counts)
<1>1. n \in Nat /\ DOMAIN counts = 1..n
  BY LenProperties
<1>2. PICK trace : FoldTrace(trace, n, V, first, F) /\ trace[n] = result
  BY StuckCountsHaveTrace DEF HasFoldTrace
<1>3. \A k \in 1..n, st \in V : F[<<k, st>>] = StuckStep(st, counts[k])
  BY DEF StuckSteps
<1> HIDE DEF V, F, n, result
<1>4. trace \in [0..n -> V] /\ trace[0] = first /\ \A k \in 1..n : trace[k] = F[<<k, trace[k - 1]>>]
  BY <1>2 DEF FoldTrace
<1>5. ASSUME NEW k \in Nat, k + 1 <= n
      PROVE  trace[k] \in V /\ trace[k + 1] = StuckStep(trace[k], counts[k + 1])
  <2>1. k + 1 \in 1..n /\ (k + 1) - 1 = k /\ k \in 0..n
    BY <1>1, <1>5
  <2>2. trace[k + 1] = F[<<k + 1, trace[k]>>] /\ trace[k] \in V
    BY <1>4, <2>1
  <2>3. QED
    BY <1>3, <2>1, <2>2
<1>6. ToldStuck(m, counts, true, 0, first)
  <2>1. /\ first.reverted = FALSE /\ first.module.exited = m.exited /\ first.module.deposited = m.deposited
        /\ first.module.settled = m.settled
        /\ first.module.stuck = m.stuck
    BY DEF FirstCount, ModuleContract
  <2> HIDE DEF first
  <2>2. QED
    BY <2>1 DEF ToldStuck
<1> HIDE DEF first
<1> DEFINE N == {k \in Nat : k <= n => ToldStuck(m, counts, true, k, trace[k])}
<1>7. 0 \in N
  BY <1>4, <1>6
<1>8. ASSUME NEW k \in N PROVE k + 1 \in N
  <2> SUFFICES ASSUME k + 1 <= n PROVE ToldStuck(m, counts, true, k + 1, trace[k + 1])
    OBVIOUS
  <2>1. k \in Nat /\ ToldStuck(m, counts, true, k, trace[k]) /\ k + 1 \in 1..n
    BY <1>1
  <2>2. trace[k] \in CountState /\ trace[k + 1] = StuckStep(trace[k], counts[k + 1])
    BY <1>5, <2>1 DEF V
  <2>3. counts[k + 1][2] = true[counts[k + 1][1]]
    BY <1>1, <2>1
  <2> HIDE DEF N
  <2>4. QED
    BY <2>1, <2>2, <2>3, OneStuckTold DEF n
<1>9. N = Nat
  <2> HIDE DEF N
  <2> QED BY <1>7, <1>8, AllNaturals DEF N
<1>10. ToldStuck(m, counts, true, n, trace[n]) /\ trace[n] \in V
  <2>1. n \in N
    <3> HIDE DEF N
    <3> QED BY <1>1, <1>9
  <2>2. QED
    BY <1>1, <1>4, <2>1
<1>11. QED
  BY <1>2, <1>10 DEF n, V, result

ToldExited(m, counts, true, k, r) ==
  /\ r.module.stuck = m.stuck /\ r.module.deposited = m.deposited /\ r.module.settled = m.settled
  /\ \A op \in Operators : r.module.exited[op] \in {m.exited[op], true[op]}
  /\ ~r.reverted => \A j \in 1..k : r.module.exited[counts[j][1]] = true[counts[j][1]]
  /\ ExitedFits(m, true) => ~r.reverted

LEMMA OneExitedTold ==
  ASSUME NEW m \in ModuleContract, NEW true \in Counts, NEW counts \in Seq(Operators \X Nat),
         NEW k \in Nat, k + 1 \in 1..Len(counts), NEW r \in CountState, ToldExited(m, counts, true, k, r),
         NEW c, c = counts[k + 1], c[2] = true[c[1]],
         NEW next, next = ExitedStep(r, c)
  PROVE  ToldExited(m, counts, true, k + 1, next)
<1>1. c \in Operators \X Nat
  BY ElementOfSeq
<1> DEFINE op == c[1]
           v == true[op]
<1>2. op \in Operators /\ v \in Nat /\ c[2] = v
  BY <1>1 DEF Counts
<1>3. r.module \in ModuleContract /\ r.module.exited \in Counts /\ r.reverted \in BOOLEAN
  BY DEF CountState, ModuleContract
<1> HIDE DEF op, v
<1>4. CASE ExitedIsValid(r.module, op, v, FALSE)
  <2>1. next = [r EXCEPT !.module = WithExited(r.module, op, v)]
    BY <1>2, <1>4 DEF ExitedStep, op
  <2>2. next.reverted = r.reverted /\ next.module = WithExited(r.module, op, v)
    BY <2>1 DEF CountState
  <2>3. next.module = [r.module EXCEPT !.exited[op] = v]
    BY <2>2 DEF WithExited
  <2>4. /\ next.module.stuck = r.module.stuck /\ next.module.deposited = r.module.deposited
        /\ next.module.settled = r.module.settled
        /\ next.module.exited = [r.module.exited EXCEPT ![op] = v]
    BY <1>3, <2>3 DEF ModuleContract
  <2>5. \A p \in Operators : next.module.exited[p] = IF p = op THEN v ELSE r.module.exited[p]
    BY <1>2, <1>3, <2>4 DEF Counts
  <2>6. \A p \in Operators : next.module.exited[p] \in {m.exited[p], true[p]}
    BY <2>5 DEF ToldExited, v
  <2>7. ASSUME ~next.reverted, NEW j \in 1..(k + 1)
        PROVE  next.module.exited[counts[j][1]] = true[counts[j][1]]
    <3>1. counts[j][1] \in Operators
      <4>1. j \in 1..Len(counts)
        BY LenProperties
      <4>2. counts[j] \in Operators \X Nat
        BY <4>1, ElementOfSeq
      <4>3. QED
        BY <4>2
    <3>2. CASE counts[j][1] = op
      BY <2>5, <3>1, <3>2 DEF v
    <3>3. CASE counts[j][1] # op
      <4>1. j \in 1..k
        BY <3>3 DEF op
      <4>2. r.module.exited[counts[j][1]] = true[counts[j][1]]
        BY <2>2, <2>7, <4>1 DEF ToldExited
      <4>3. QED
        BY <2>5, <3>1, <3>3, <4>2
    <3>4. QED
      BY <3>2, <3>3
  <2>8. QED
    BY <2>2, <2>4, <2>6, <2>7 DEF ToldExited
<1>5. CASE ~ExitedIsValid(r.module, op, v, FALSE)
  <2>1. next = [r EXCEPT !.reverted = TRUE]
    BY <1>2, <1>5 DEF ExitedStep, op
  <2>2. next.module = r.module /\ next.reverted = TRUE
    BY <2>1 DEF CountState
  <2>3. ~ExitedFits(m, true)
    <3> SUFFICES ASSUME ExitedFits(m, true) PROVE ExitedIsValid(r.module, op, v, FALSE)
      BY <1>5
    <3>1. /\ r.module.stuck[op] = m.stuck[op] /\ r.module.deposited[op] = m.deposited[op]
          /\ r.module.exited[op] \in {m.exited[op], v}
      BY <1>2 DEF ToldExited, v
    <3>2. {m.stuck[op], m.exited[op], m.deposited[op]} \subseteq Nat
      BY <1>2 DEF ModuleContract, Counts
    <3>3. m.exited[op] <= v /\ v + m.stuck[op] <= m.deposited[op]
      BY <1>2 DEF ExitedFits, v
    <3>4. QED
      BY <1>2, <3>1, <3>2, <3>3 DEF ExitedIsValid
  <2>4. QED
    BY <2>2, <2>3 DEF ToldExited
<1>6. QED
  BY <1>4, <1>5

LEMMA ExitedCountsAreTold ==
  ASSUME NEW m \in ModuleContract, NEW true \in Counts, NEW counts \in Seq(Operators \X Nat),
         \A j \in DOMAIN counts : counts[j][2] = true[counts[j][1]]
  PROVE  LET r == UpdateExitedValidatorsCount(m, counts)
         IN  r \in CountState /\ ToldExited(m, counts, true, Len(counts), r)
<1> DEFINE n == Len(counts)
           V == CountState
           first == FirstCount(m)
           F == ExitedSteps(counts)
           result == UpdateExitedValidatorsCount(m, counts)
<1>1. n \in Nat /\ DOMAIN counts = 1..n
  BY LenProperties
<1>2. PICK trace : FoldTrace(trace, n, V, first, F) /\ trace[n] = result
  BY ExitedCountsHaveTrace DEF HasFoldTrace
<1>3. \A k \in 1..n, st \in V : F[<<k, st>>] = ExitedStep(st, counts[k])
  BY DEF ExitedSteps
<1> HIDE DEF V, F, n, result
<1>4. trace \in [0..n -> V] /\ trace[0] = first /\ \A k \in 1..n : trace[k] = F[<<k, trace[k - 1]>>]
  BY <1>2 DEF FoldTrace
<1>5. ASSUME NEW k \in Nat, k + 1 <= n
      PROVE  trace[k] \in V /\ trace[k + 1] = ExitedStep(trace[k], counts[k + 1])
  <2>1. k + 1 \in 1..n /\ (k + 1) - 1 = k /\ k \in 0..n
    BY <1>1, <1>5
  <2>2. trace[k + 1] = F[<<k + 1, trace[k]>>] /\ trace[k] \in V
    BY <1>4, <2>1
  <2>3. QED
    BY <1>3, <2>1, <2>2
<1>6. ToldExited(m, counts, true, 0, first)
  <2>1. /\ first.reverted = FALSE /\ first.module.stuck = m.stuck /\ first.module.deposited = m.deposited
        /\ first.module.settled = m.settled
        /\ first.module.exited = m.exited
    BY DEF FirstCount, ModuleContract
  <2> HIDE DEF first
  <2>2. QED
    BY <2>1 DEF ToldExited
<1> HIDE DEF first
<1> DEFINE N == {k \in Nat : k <= n => ToldExited(m, counts, true, k, trace[k])}
<1>7. 0 \in N
  BY <1>4, <1>6
<1>8. ASSUME NEW k \in N PROVE k + 1 \in N
  <2> SUFFICES ASSUME k + 1 <= n PROVE ToldExited(m, counts, true, k + 1, trace[k + 1])
    OBVIOUS
  <2>1. k \in Nat /\ ToldExited(m, counts, true, k, trace[k]) /\ k + 1 \in 1..n
    BY <1>1
  <2>2. trace[k] \in CountState /\ trace[k + 1] = ExitedStep(trace[k], counts[k + 1])
    BY <1>5, <2>1 DEF V
  <2>3. counts[k + 1][2] = true[counts[k + 1][1]]
    BY <1>1, <2>1
  <2> HIDE DEF N
  <2>4. QED
    BY <2>1, <2>2, <2>3, OneExitedTold DEF n
<1>9. N = Nat
  <2> HIDE DEF N
  <2> QED BY <1>7, <1>8, AllNaturals DEF N
<1>10. ToldExited(m, counts, true, n, trace[n]) /\ trace[n] \in V
  <2>1. n \in N
    <3> HIDE DEF N
    <3> QED BY <1>1, <1>9
  <2>2. QED
    BY <1>1, <1>4, <2>1
<1>11. QED
  BY <1>2, <1>10 DEF n, V, result

(***************************************************************************)
(* One report of counts to a module, of either kind.                       *)
(***************************************************************************)
ReportOf(m, counts, type) ==
  IF ItemTypes[type] = "stuck" THEN UpdateStuckValidatorsCount(m, counts)
                               ELSE UpdateExitedValidatorsCount(m, counts)

CountsFit(m, true, type) == IF type = 1 THEN StuckFits(m, true) ELSE ExitedFits(m, true)

LEMMA OneReport ==
  ASSUME NEW m \in ModuleContract, NEW true \in Counts, NEW counts \in Seq(Operators \X Nat),
         \A j \in DOMAIN counts : counts[j][2] = true[counts[j][1]], NEW type \in 1..2
  PROVE  LET r == ReportOf(m, counts, type)
         IN  /\ r \in CountState
             /\ r.module.deposited = m.deposited /\ r.module.settled = m.settled
             /\ \A t \in 1..2 : t # type => KindOf(r.module, t) = KindOf(m, t)
             /\ \A op \in Operators : KindOf(r.module, type)[op] \in {KindOf(m, type)[op], true[op]}
             /\ ~r.reverted => \A j \in DOMAIN counts :
                  KindOf(r.module, type)[counts[j][1]] = true[counts[j][1]]
             /\ CountsFit(m, true, type) => ~r.reverted
<1>1. ItemTypes[1] = "stuck" /\ ItemTypes[2] = "exited" /\ "stuck" # "exited"
  BY DEF ItemTypes
<1>2. DOMAIN counts = 1..Len(counts)
  BY LenProperties
<1>3. CASE type = 1
  <2> DEFINE r == UpdateStuckValidatorsCount(m, counts)
  <2>1. r \in CountState /\ ToldStuck(m, counts, true, Len(counts), r)
    BY StuckCountsAreTold
  <2>2. ReportOf(m, counts, type) = r
    BY <1>1, <1>3 DEF ReportOf
  <2> HIDE DEF r
  <2>3. /\ r.module.exited = m.exited /\ r.module.deposited = m.deposited /\ r.module.settled = m.settled
        /\ \A op \in Operators : r.module.stuck[op] \in {m.stuck[op], true[op]}
        /\ ~r.reverted => \A j \in 1..Len(counts) : r.module.stuck[counts[j][1]] = true[counts[j][1]]
        /\ StuckFits(m, true) => ~r.reverted
    BY <2>1 DEF ToldStuck
  <2>4. /\ KindOf(r.module, type) = r.module.stuck /\ KindOf(m, type) = m.stuck
        /\ \A t \in 1..2 : t # type => KindOf(r.module, t) = r.module.exited /\ KindOf(m, t) = m.exited
    <3>1. r.module \in ModuleContract
      BY <2>1 DEF CountState
    <3>2. \A n \in ModuleContract : KindOf(n, 1) = n.stuck /\ KindOf(n, 2) = n.exited
      BY <1>1 DEF KindOf
    <3>3. \A t \in 1..2 : t # type => t = 2
      BY <1>3
    <3>4. QED
      BY <1>3, <3>1, <3>2, <3>3
  <2>5. CountsFit(m, true, type) <=> StuckFits(m, true)
    BY <1>3 DEF CountsFit
  <2>6. \A op \in Operators : KindOf(r.module, type)[op] \in {KindOf(m, type)[op], true[op]}
    <3>1. KindOf(r.module, type) = r.module.stuck /\ KindOf(m, type) = m.stuck
      BY <2>4
    <3>2. \A op \in Operators : r.module.stuck[op] \in {m.stuck[op], true[op]}
      BY <2>3
    <3>3. QED
      BY <3>1, <3>2, Zenon
  <2>7. ~r.reverted => \A j \in DOMAIN counts : KindOf(r.module, type)[counts[j][1]] = true[counts[j][1]]
    BY <1>2, <2>3, <2>4
  <2>8. \A t \in 1..2 : t # type => KindOf(r.module, t) = KindOf(m, t)
    BY <2>3, <2>4
  <2>9. QED
    BY <2>1, <2>2, <2>3, <2>5, <2>6, <2>7, <2>8
<1>4. CASE type # 1
  <2>0. type = 2
    BY <1>4
  <2> DEFINE r == UpdateExitedValidatorsCount(m, counts)
  <2>1. r \in CountState /\ ToldExited(m, counts, true, Len(counts), r)
    BY ExitedCountsAreTold
  <2>2. ReportOf(m, counts, type) = r
    BY <1>1, <2>0 DEF ReportOf
  <2> HIDE DEF r
  <2>3. /\ r.module.stuck = m.stuck /\ r.module.deposited = m.deposited /\ r.module.settled = m.settled
        /\ \A op \in Operators : r.module.exited[op] \in {m.exited[op], true[op]}
        /\ ~r.reverted => \A j \in 1..Len(counts) : r.module.exited[counts[j][1]] = true[counts[j][1]]
        /\ ExitedFits(m, true) => ~r.reverted
    BY <2>1 DEF ToldExited
  <2>4. /\ KindOf(r.module, type) = r.module.exited /\ KindOf(m, type) = m.exited
        /\ \A t \in 1..2 : t # type => KindOf(r.module, t) = r.module.stuck /\ KindOf(m, t) = m.stuck
    <3>1. r.module \in ModuleContract
      BY <2>1 DEF CountState
    <3>2. \A n \in ModuleContract : KindOf(n, 1) = n.stuck /\ KindOf(n, 2) = n.exited
      BY <1>1 DEF KindOf
    <3>3. \A t \in 1..2 : t # type => t = 1
      BY <2>0
    <3>4. QED
      BY <2>0, <3>1, <3>2, <3>3
  <2>5. CountsFit(m, true, type) = ExitedFits(m, true)
    BY <1>4 DEF CountsFit
  <2>6. \A op \in Operators : KindOf(r.module, type)[op] \in {KindOf(m, type)[op], true[op]}
    <3>1. KindOf(r.module, type) = r.module.exited /\ KindOf(m, type) = m.exited
      BY <2>4
    <3>2. \A op \in Operators : r.module.exited[op] \in {m.exited[op], true[op]}
      BY <2>3
    <3>3. QED
      BY <3>1, <3>2, Zenon
  <2>7. ~r.reverted => \A j \in DOMAIN counts : KindOf(r.module, type)[counts[j][1]] = true[counts[j][1]]
    BY <1>2, <2>3, <2>4
  <2>8. \A t \in 1..2 : t # type => KindOf(r.module, t) = KindOf(m, t)
    BY <2>3, <2>4
  <2>9. QED
    BY <2>1, <2>2, <2>3, <2>5, <2>6, <2>7, <2>8
<1>5. QED
  BY <1>3, <1>4

(***************************************************************************)
(* The extra data: FoldLeft of ProcessExtraDataItem.                       *)
(***************************************************************************)
ItemState ==
  [reverted : BOOLEAN, contracts : [Contracts -> ModuleContract], lastSortingKey : Nat \X Nat \X Nat]

FirstItem(items) ==
  [reverted |-> items = <<>>, contracts |-> contracts, lastSortingKey |-> <<0, 0, 0>>]

ItemSteps(items) ==
  [pair \in (1..Len(items)) \X ItemState |-> ProcessExtraDataItem(pair[2], items[pair[1]])]

AcceptsItem(state, item) ==
  /\ item[1] \in DOMAIN ItemTypes
  /\ item[2] # 0
  /\ item[3] # <<>>
  /\ Before(state.lastSortingKey, SortingKey(item))

LEMMA ItemFacts ==
  ASSUME StakingRouterTypeOK, NEW truth \in [Contracts -> SettledCounts], NEW item, TrueItem(item, truth)
  PROVE  /\ item[1] \in 1..2 /\ item[1] \in DOMAIN ItemTypes /\ item[2] \in Nat /\ item[2] # 0
         /\ item[2] \in DOMAIN stakingModules /\ ContractOf(item[2]) \in Contracts
         /\ item[3] \in Seq(Operators \X Nat) /\ item[3] # <<>>
         /\ SortingKey(item) \in Nat \X Nat \X Nat
         /\ SortingKey(item)[1] = item[1] /\ SortingKey(item)[2] = item[2]
         /\ KindOf(truth[ContractOf(item[2])], item[1]) \in Counts
         /\ \A j \in DOMAIN item[3] :
              /\ item[3][j][1] \in Operators
              /\ item[3][j][2] = KindOf(truth[ContractOf(item[2])], item[1])[item[3][j][1]]
<1>1. item \in Item /\ item[2] \in DOMAIN stakingModules /\ item[3] # <<>>
  BY DEF TrueItem
<1>2. item[1] \in 1..2 /\ item[2] \in Nat /\ item[3] \in Seq(Operators \X Nat)
  BY <1>1 DEF Item
<1>3. DOMAIN ItemTypes = 1..2
  BY DEF ItemTypes
<1>4. item[2] # 0 /\ ContractOf(item[2]) \in Contracts
  BY <1>1, ModuleFacts DEF ContractOf
<1>5. KindOf(truth[ContractOf(item[2])], item[1]) \in Counts
  BY <1>2, <1>4, KindsAreCounts
<1>6. Len(item[3]) \in Nat /\ DOMAIN item[3] = 1..Len(item[3])
      /\ \A j \in DOMAIN item[3] : item[3][j] \in Operators \X Nat
  BY <1>2, LenProperties, ElementOfSeq
<1>7. item[3][1][1] \in Nat
  <2>1. Len(item[3]) # 0
    BY <1>1, <1>2, EmptySeq
  <2>2. 1 \in DOMAIN item[3]
    BY <1>6, <2>1
  <2>3. QED
    BY <1>6, <2>2, StakingRouterAssumption
<1>8. SortingKey(item) \in Nat \X Nat \X Nat
      /\ SortingKey(item)[1] = item[1] /\ SortingKey(item)[2] = item[2]
  BY <1>2, <1>7 DEF SortingKey
<1>9. \A j \in DOMAIN item[3] :
        /\ item[3][j][1] \in Operators
        /\ item[3][j][2] = KindOf(truth[ContractOf(item[2])], item[1])[item[3][j][1]]
  BY <1>6 DEF TrueItem
<1>10. QED
  BY <1>1, <1>2, <1>3, <1>4, <1>5, <1>8, <1>9

LEMMA ItemIsProcessed ==
  ASSUME StakingRouterTypeOK, NEW truth \in [Contracts -> SettledCounts], NEW item, TrueItem(item, truth),
         NEW state \in ItemState
  PROVE  LET next == ProcessExtraDataItem(state, item)
             c == ContractOf(item[2])
             r == ReportOf(state.contracts[c], item[3], item[1])
         IN  /\ next \in ItemState
             /\ AcceptsItem(state, item) =>
                  /\ next.reverted = (state.reverted \/ r.reverted)
                  /\ \A d \in Contracts :
                       next.contracts[d] = IF d = c THEN r.module ELSE state.contracts[d]
                  /\ next.lastSortingKey = SortingKey(item)
             /\ ~AcceptsItem(state, item) => next.reverted /\ next.contracts = state.contracts
<1> DEFINE c == ContractOf(item[2])
           m == state.contracts[c]
           r == ReportOf(m, item[3], item[1])
           next == ProcessExtraDataItem(state, item)
           key == SortingKey(item)
           true == KindOf(truth[ContractOf(item[2])], item[1])
<1>1. item[2] \in DOMAIN stakingModules /\ item[3] # <<>> /\ c \in Contracts /\ key \in Nat \X Nat \X Nat
  BY ItemFacts
<1>2. m \in ModuleContract /\ state.contracts \in [Contracts -> ModuleContract] /\ state.reverted \in BOOLEAN
  BY <1>1 DEF ItemState
<1>3. r \in CountState
  <2>1. true \in Counts /\ item[3] \in Seq(Operators \X Nat) /\ item[1] \in 1..2
        /\ \A j \in DOMAIN item[3] : item[3][j][2] = true[item[3][j][1]]
    BY ItemFacts
  <2> HIDE DEF true, m
  <2>2. QED
    BY <1>2, <2>1, OneReport
<1>4. CASE AcceptsItem(state, item)
  <2>1. next = [reverted       |-> state.reverted \/ Reported(state.contracts, item).reverted,
                contracts      |-> Reported(state.contracts, item).contracts,
                lastSortingKey |-> key]
    BY <1>4 DEF ProcessExtraDataItem, AcceptsItem
  <2>2. Reported(state.contracts, item) =
          [reverted |-> r.reverted, contracts |-> [state.contracts EXCEPT ![c] = r.module]]
    BY <1>1 DEF Reported, ReportByNodeOperator, Registered, ReportOf, ContractOf
  <2> HIDE DEF c, r, next, key
  <2>3. next = [reverted       |-> state.reverted \/ r.reverted,
                contracts      |-> [state.contracts EXCEPT ![c] = r.module],
                lastSortingKey |-> key]
    BY <2>1, <2>2
  <2>4. r.reverted \in BOOLEAN /\ r.module \in ModuleContract
    BY <1>3 DEF CountState
  <2>5. next \in ItemState
    BY <1>1, <1>2, <2>3, <2>4 DEF ItemState
  <2>6. \A d \in Contracts : next.contracts[d] = IF d = c THEN r.module ELSE state.contracts[d]
    BY <1>1, <1>2, <2>3
  <2>7. QED
    BY <1>4, <2>3, <2>5, <2>6 DEF c, r, next, key, m
<1>5. CASE ~AcceptsItem(state, item)
  <2>1. next = [state EXCEPT !.reverted = TRUE]
    BY <1>5 DEF ProcessExtraDataItem, AcceptsItem
  <2>2. next \in ItemState /\ next.reverted /\ next.contracts = state.contracts
    BY <2>1 DEF ItemState
  <2>3. QED
    BY <1>5, <2>2
<1>6. QED
  BY <1>4, <1>5

LEMMA ItemsHaveTrace ==
  ASSUME StakingRouterTypeOK, NEW truth \in [Contracts -> SettledCounts], NEW items \in Seq(Item),
         \A i \in DOMAIN items : TrueItem(items[i], truth)
  PROVE  HasFoldTrace(Len(items), ItemState, FirstItem(items), ItemSteps(items),
                      ProcessExtraDataItems(items))
<1> DEFINE n == Len(items)
           S == 1..n
           V == ItemState
           F == ItemSteps(items)
           first == FirstItem(items)
           body(h) == [s \in SUBSET S |-> IF s = {} THEN first
                         ELSE ProcessExtraDataItem(h[s \ {Max(s)}], items[Max(s)])]
<1>0. n \in Nat /\ DOMAIN items = S /\ \A i \in S : TrueItem(items[i], truth)
  BY LenProperties
<1>1. F \in [S \X V -> V]
      /\ \A i \in S, st \in V : F[<<i, st>>] = ProcessExtraDataItem(st, items[i])
  <2>1. \A pair \in S \X V : ProcessExtraDataItem(pair[2], items[pair[1]]) \in V
    BY <1>0, ItemIsProcessed
  <2>2. QED
    BY <2>1 DEF ItemSteps
<1> HIDE DEF V, F, n
<1>2. first \in V
  BY DEF V, FirstItem, ItemState, StakingRouterTypeOK
<1> HIDE DEF first
<1>3. PICK g : FoldsWith(g, n, V, first, F)
  BY <1>0, <1>1, <1>2, FoldExists
<1>4. \A s \in SUBSET S : s # {} => Max(s) \in S
  BY <1>0, HasGreatest
<1>5. g = body(g)
  <2>1. ASSUME NEW s \in SUBSET S PROVE g[s] = body(g)[s]
    <3>1. CASE s = {}
      BY <1>3, <3>1 DEF FoldsWith
    <3>2. CASE s # {}
      <4>1. s \ {Max(s)} \in SUBSET S
        OBVIOUS
      <4>2. g[s \ {Max(s)}] \in V /\ g[s] = F[<<Max(s), g[s \ {Max(s)}]>>]
        BY <1>3, <3>2, <4>1 DEF FoldsWith
      <4>3. g[s] = ProcessExtraDataItem(g[s \ {Max(s)}], items[Max(s)])
        BY <1>1, <1>4, <3>2, <4>2
      <4>4. QED
        BY <3>2, <4>3
    <3>3. QED
      BY <3>1, <3>2
  <2>2. g = [s \in SUBSET S |-> g[s]]
    BY <1>3 DEF FoldsWith
  <2>3. body(g) = [s \in SUBSET S |-> body(g)[s]]
    OBVIOUS
  <2> HIDE DEF body
  <2>4. QED
    BY <2>1, <2>2, <2>3
<1> DEFINE iter == CHOOSE h : h = body(h)
<1>6. iter = body(iter)
  <2> HIDE DEF body
  <2> QED BY <1>5
<1>7. ProcessExtraDataItems(items) = iter[S]
  <2>1. ProcessExtraDataItems(items) = FoldLeft(ProcessExtraDataItem, first, items)
    BY DEF ProcessExtraDataItems, first, FirstItem
  <2>2. QED
    BY <1>0, <2>1 DEF FoldLeft, MapThenFoldSet
<1> HIDE DEF iter
<1>8. iter[{}] = first
  BY <1>6
<1>9. ASSUME NEW s \in SUBSET S, s # {}, iter[s \ {Max(s)}] \in V
      PROVE  iter[s] = F[<<Max(s), iter[s \ {Max(s)}]>>]
  <2>1. iter[s] = ProcessExtraDataItem(iter[s \ {Max(s)}], items[Max(s)])
    BY <1>6, <1>9
  <2>2. QED
    BY <1>1, <1>4, <1>9, <2>1
<1> HIDE DEF body
<1>10. IsFold(iter, n, V, first, F)
  BY <1>8, <1>9 DEF IsFold
<1>11. HasFoldTrace(n, V, first, F, iter[1..n])
  BY <1>0, <1>1, <1>2, <1>10, FoldHasTrace
<1>12. QED
  BY <1>7, <1>11 DEF V, F, n, first

(***************************************************************************)
(* What the first k items, all of them true, do to the modules; and that   *)
(* none is refused when the modules are wrong about nothing else and none  *)
(* is ahead of the truth.                                                  *)
(***************************************************************************)
CountsOf(state, c, type) == KindOf(state.contracts[c], type)

Processed(truth, items, k, state) ==
  /\ \A c \in Contracts :
       /\ state.contracts[c].deposited = contracts[c].deposited
       /\ state.contracts[c].settled = contracts[c].settled
  /\ \A c \in Contracts : \A type \in 1..2 : \A op \in Operators :
       CountsOf(state, c, type)[op] \in {KindOf(contracts[c], type)[op], KindOf(truth[c], type)[op]}
  /\ ~state.reverted => \A i \in 1..k : \A j \in DOMAIN items[i][3] :
       LET c == ContractOf(items[i][2])
           op == items[i][3][j][1]
       IN  CountsOf(state, c, items[i][1])[op] = KindOf(truth[c], items[i][1])[op]

NotAhead(truth) ==
  \A c \in Contracts : \A op \in Operators :
    /\ contracts[c].exited[op] <= truth[c].exited[op]
    /\ truth[c].exited[op] + truth[c].stuck[op] <= contracts[c].deposited[op]

Smooth(items, k, state) ==
  /\ ~state.reverted
  /\ state.lastSortingKey = IF k = 0 THEN <<0, 0, 0>> ELSE SortingKey(items[k])

Tells(counts, told) == \A j \in DOMAIN counts : counts[j][2] = told[counts[j][1]]

LEMMA ReportTells ==
  ASSUME NEW m \in ModuleContract, NEW told \in Counts, NEW counts \in Seq(Operators \X Nat),
         Tells(counts, told), NEW type \in 1..2,
         NEW r, r = ReportOf(m, counts, type)
  PROVE  /\ r.module.deposited = m.deposited /\ r.module.settled = m.settled
         /\ \A t \in 1..2 : t # type => KindOf(r.module, t) = KindOf(m, t)
         /\ \A op \in Operators : KindOf(r.module, type)[op] \in {KindOf(m, type)[op], told[op]}
         /\ ~r.reverted => \A j \in DOMAIN counts :
              KindOf(r.module, type)[counts[j][1]] = told[counts[j][1]]
         /\ CountsFit(m, told, type) => ~r.reverted
BY OneReport DEF Tells

LEMMA ItemChangesCounts ==
  ASSUME StakingRouterTypeOK, NEW truth \in [Contracts -> SettledCounts],
         NEW item, TrueItem(item, truth), NEW state \in ItemState
  PROVE  LET next == ProcessExtraDataItem(state, item)
             c == ContractOf(item[2])
             type == item[1]
         IN  /\ next \in ItemState
             /\ ~next.reverted => ~state.reverted
             /\ \A d \in Contracts :
                  /\ next.contracts[d].deposited = state.contracts[d].deposited
                  /\ next.contracts[d].settled = state.contracts[d].settled
                  /\ \A t \in 1..2 : \A op \in Operators :
                       \/ CountsOf(next, d, t)[op] = CountsOf(state, d, t)[op]
                       \/ d = c /\ t = type /\ CountsOf(next, d, t)[op] = KindOf(truth[d], t)[op]
             /\ ~next.reverted => \A j \in DOMAIN item[3] :
                  CountsOf(next, c, type)[item[3][j][1]] = KindOf(truth[c], type)[item[3][j][1]]
<1> DEFINE type == item[1]
           c == ContractOf(item[2])
           m == state.contracts[c]
           told == KindOf(truth[c], type)
           r == ReportOf(m, item[3], type)
           next == ProcessExtraDataItem(state, item)
<1>1. /\ type \in 1..2 /\ c \in Contracts /\ item[3] \in Seq(Operators \X Nat) /\ told \in Counts
      /\ \A j \in DOMAIN item[3] : item[3][j][1] \in Operators /\ item[3][j][2] = told[item[3][j][1]]
  BY ItemFacts
<1>2. m \in ModuleContract
  BY <1>1 DEF ItemState
<1>3. /\ next \in ItemState
      /\ AcceptsItem(state, item) =>
           /\ next.reverted = (state.reverted \/ r.reverted)
           /\ \A d \in Contracts : next.contracts[d] = IF d = c THEN r.module ELSE state.contracts[d]
      /\ ~AcceptsItem(state, item) => next.reverted /\ next.contracts = state.contracts
  BY ItemIsProcessed
<1> HIDE DEF type, c, m, told, next, r
<1>4. CASE ~AcceptsItem(state, item)
  <2>1. next.reverted /\ next.contracts = state.contracts
    BY <1>3, <1>4
  <2>2. QED
    BY <1>3, <2>1 DEF CountsOf, next
<1>5. CASE AcceptsItem(state, item)
  <2>1. /\ r.module.deposited = m.deposited /\ r.module.settled = m.settled
        /\ \A t \in 1..2 : t # type => KindOf(r.module, t) = KindOf(m, t)
        /\ \A op \in Operators : KindOf(r.module, type)[op] \in {KindOf(m, type)[op], told[op]}
        /\ ~r.reverted => \A j \in DOMAIN item[3] :
             KindOf(r.module, type)[item[3][j][1]] = told[item[3][j][1]]
    <3>1. item[3] \in Seq(Operators \X Nat) /\ type \in 1..2 /\ told \in Counts
      BY <1>1
    <3>2. \A j \in DOMAIN item[3] : item[3][j][2] = told[item[3][j][1]]
      BY <1>1
    <3> DEFINE counts == item[3]
    <3>3. counts \in Seq(Operators \X Nat) /\ (\A j \in DOMAIN counts : counts[j][2] = told[counts[j][1]])
          /\ r = ReportOf(m, counts, type)
      BY <3>1, <3>2 DEF r
    <3> HIDE DEF counts
    <3>4. /\ r.module.deposited = m.deposited /\ r.module.settled = m.settled
          /\ \A t \in 1..2 : t # type => KindOf(r.module, t) = KindOf(m, t)
          /\ \A op \in Operators : KindOf(r.module, type)[op] \in {KindOf(m, type)[op], told[op]}
          /\ ~r.reverted => \A j \in DOMAIN counts :
               KindOf(r.module, type)[counts[j][1]] = told[counts[j][1]]
      <4>1. Tells(counts, told)
        BY <3>3 DEF Tells
      <4>2. QED
        BY <1>2, <3>1, <3>3, <4>1, ReportTells
    <3>5. QED
      BY <3>3, <3>4 DEF counts
  <2>2. next.reverted = (state.reverted \/ r.reverted)
        /\ \A d \in Contracts : next.contracts[d] = IF d = c THEN r.module ELSE state.contracts[d]
    BY <1>3, <1>5
  <2>3. ASSUME NEW d \in Contracts
        PROVE  /\ next.contracts[d].deposited = state.contracts[d].deposited
               /\ next.contracts[d].settled = state.contracts[d].settled
    BY <2>1, <2>2 DEF m
  <2>4. ASSUME NEW d \in Contracts, NEW t \in 1..2, NEW op \in Operators
        PROVE  \/ CountsOf(next, d, t)[op] = CountsOf(state, d, t)[op]
               \/ d = c /\ t = type /\ CountsOf(next, d, t)[op] = KindOf(truth[d], t)[op]
    <3>1. CASE d # c
      BY <2>2, <3>1 DEF CountsOf
    <3>2. CASE d = c
      <4>1. CountsOf(next, d, t) = KindOf(r.module, t) /\ CountsOf(state, d, t) = KindOf(m, t)
        BY <2>2, <3>2 DEF CountsOf, m
      <4>2. CASE t # type
        BY <2>1, <4>1, <4>2
      <4>3. CASE t = type
        <5>1. KindOf(r.module, type)[op] \in {KindOf(m, type)[op], told[op]}
          BY <2>1
        <5>2. QED
          BY <3>2, <4>1, <4>3, <5>1 DEF told
      <4>4. QED
        BY <4>2, <4>3
    <3>3. QED
      BY <3>1, <3>2
  <2>5. ASSUME ~next.reverted, NEW j \in DOMAIN item[3]
        PROVE  CountsOf(next, c, type)[item[3][j][1]] = told[item[3][j][1]]
    <3>1. ~r.reverted
      BY <2>2, <2>5
    <3>2. KindOf(r.module, type)[item[3][j][1]] = told[item[3][j][1]]
      BY <2>1, <3>1
    <3>3. CountsOf(next, c, type) = KindOf(r.module, type)
      BY <1>1, <2>2 DEF CountsOf
    <3>4. QED
      BY <3>2, <3>3
  <2>6. ~next.reverted => ~state.reverted
    BY <2>2
  <2>7. QED
    BY <1>3, <2>3, <2>4, <2>5, <2>6 DEF next, c, type, told
<1>6. QED
  BY <1>4, <1>5

LEMMA OneMoreProcessed ==
  ASSUME StakingRouterTypeOK, NEW truth \in [Contracts -> SettledCounts], NEW items \in Seq(Item),
         NEW k \in Nat, k + 1 \in 1..Len(items),
         NEW state \in ItemState, Processed(truth, items, k, state),
         \A i \in DOMAIN items : TrueItem(items[i], truth),
         NEW item, item = items[k + 1],
         NEW next, next = ProcessExtraDataItem(state, item)
  PROVE  Processed(truth, items, k + 1, next)
<1> DEFINE c == ContractOf(item[2])
           type == item[1]
<1>1. TrueItem(item, truth)
  BY LenProperties
<1>2. /\ ~next.reverted => ~state.reverted
      /\ \A d \in Contracts :
           /\ next.contracts[d].deposited = state.contracts[d].deposited
           /\ next.contracts[d].settled = state.contracts[d].settled
           /\ \A t \in 1..2 : \A op \in Operators :
                \/ CountsOf(next, d, t)[op] = CountsOf(state, d, t)[op]
                \/ d = c /\ t = type /\ CountsOf(next, d, t)[op] = KindOf(truth[d], t)[op]
      /\ ~next.reverted => \A j \in DOMAIN item[3] :
           CountsOf(next, c, type)[item[3][j][1]] = KindOf(truth[c], type)[item[3][j][1]]
  BY <1>1, ItemChangesCounts
<1> HIDE DEF c, type
<1>3. ASSUME NEW d \in Contracts
      PROVE  /\ next.contracts[d].deposited = contracts[d].deposited
             /\ next.contracts[d].settled = contracts[d].settled
             /\ \A t \in 1..2 : \A op \in Operators :
                  CountsOf(next, d, t)[op] \in {KindOf(contracts[d], t)[op], KindOf(truth[d], t)[op]}
  <2>1. /\ state.contracts[d].deposited = contracts[d].deposited
        /\ state.contracts[d].settled = contracts[d].settled
        /\ \A t \in 1..2 : \A op \in Operators :
             CountsOf(state, d, t)[op] \in {KindOf(contracts[d], t)[op], KindOf(truth[d], t)[op]}
    BY DEF Processed
  <2>2. ASSUME NEW t \in 1..2, NEW op \in Operators
        PROVE  CountsOf(next, d, t)[op] \in {KindOf(contracts[d], t)[op], KindOf(truth[d], t)[op]}
    <3>1. CountsOf(state, d, t)[op] \in {KindOf(contracts[d], t)[op], KindOf(truth[d], t)[op]}
      BY <2>1
    <3>2. \/ CountsOf(next, d, t)[op] = CountsOf(state, d, t)[op]
          \/ CountsOf(next, d, t)[op] = KindOf(truth[d], t)[op]
      BY <1>2
    <3>3. QED
      BY <3>1, <3>2
  <2>3. next.contracts[d].deposited = contracts[d].deposited
        /\ next.contracts[d].settled = contracts[d].settled
    BY <1>2, <2>1
  <2>4. QED
    BY <2>2, <2>3
<1>4. ASSUME ~next.reverted, NEW i \in 1..(k + 1), NEW j \in DOMAIN items[i][3],
             NEW d, d = ContractOf(items[i][2]), NEW t, t = items[i][1],
             NEW op, op = items[i][3][j][1]
      PROVE  CountsOf(next, d, t)[op] = KindOf(truth[d], t)[op]
  <2>1. ~state.reverted
    BY <1>2, <1>4
  <2>2. CASE i = k + 1
    <3>1. d = c /\ t = type /\ j \in DOMAIN item[3] /\ op = item[3][j][1]
      BY <1>4, <2>2 DEF c, type
    <3>2. CountsOf(next, c, type)[op] = KindOf(truth[c], type)[op]
      BY <1>2, <1>4, <3>1
    <3>3. QED
      BY <3>1, <3>2
  <2>3. CASE i # k + 1
    <3>1. i \in 1..k /\ i \in DOMAIN items
      BY <2>3, LenProperties
    <3>2. TrueItem(items[i], truth)
      BY <3>1
    <3>3. d \in Contracts /\ t \in 1..2 /\ op \in Operators
      BY <1>4, <3>2, ItemFacts
    <3>4. CountsOf(state, d, t)[op] = KindOf(truth[d], t)[op]
      BY <1>4, <2>1, <3>1 DEF Processed
    <3>5. \/ CountsOf(next, d, t)[op] = CountsOf(state, d, t)[op]
          \/ CountsOf(next, d, t)[op] = KindOf(truth[d], t)[op]
      BY <1>2, <3>3
    <3>6. QED
      BY <3>4, <3>5
  <2>4. QED
    BY <2>2, <2>3
<1>5. QED
  BY <1>3, <1>4 DEF Processed

LEMMA OneMoreSmooth ==
  ASSUME StakingRouterTypeOK, NEW truth \in [Contracts -> SettledCounts], NEW items,
         Describe(items, truth), NotAhead(truth),
         NEW k \in Nat, k + 1 \in 1..Len(items),
         NEW state \in ItemState, Processed(truth, items, k, state), Smooth(items, k, state),
         NEW item, item = items[k + 1],
         NEW next, next = ProcessExtraDataItem(state, item)
  PROVE  Smooth(items, k + 1, next)
<1> DEFINE c == ContractOf(item[2])
           type == item[1]
           m == state.contracts[c]
           told == KindOf(truth[c], type)
           counts == item[3]
           r == ReportOf(m, counts, type)
<1>1. /\ items \in Seq(Item) /\ Len(items) \in Nat /\ DOMAIN items = 1..Len(items)
      /\ \A i \in DOMAIN items : TrueItem(items[i], truth) /\ WholeItem(items[i], truth)
      /\ \A i, j \in DOMAIN items : i < j => Later(items[i], items[j])
      /\ \A id \in DOMAIN stakingModules :
           Wrong(1, truth, id) => \E i \in DOMAIN items : items[i][1] = 1 /\ items[i][2] = id
  <2>1. items \in Seq(Item)
    BY DEF Describe
  <2>2. 1 \in 1..2
    OBVIOUS
  <2>3. QED
    BY <2>1, <2>2, LenProperties DEF Describe
<1>2. TrueItem(item, truth) /\ k + 1 \in DOMAIN items
  BY <1>1
<1>3. /\ type \in 1..2 /\ type \in DOMAIN ItemTypes /\ item[2] \in DOMAIN stakingModules /\ item[2] \in Nat
      /\ item[2] # 0 /\ c \in Contracts /\ counts \in Seq(Operators \X Nat) /\ item[3] # <<>>
      /\ SortingKey(item)[1] = type /\ SortingKey(item)[2] = item[2] /\ told \in Counts
      /\ \A j \in DOMAIN counts : counts[j][2] = told[counts[j][1]]
  <2>1. /\ type \in 1..2 /\ type \in DOMAIN ItemTypes /\ item[2] \in DOMAIN stakingModules /\ item[2] \in Nat
        /\ item[2] # 0 /\ c \in Contracts /\ counts \in Seq(Operators \X Nat) /\ item[3] # <<>>
        /\ SortingKey(item)[1] = type /\ SortingKey(item)[2] = item[2] /\ told \in Counts
    BY <1>2, ItemFacts
  <2>2. \A j \in DOMAIN counts : counts[j][2] = told[counts[j][1]]
    BY <1>2 DEF TrueItem
  <2>3. QED
    BY <2>1, <2>2
<1>4. ~state.reverted /\ state.lastSortingKey = IF k = 0 THEN <<0, 0, 0>> ELSE SortingKey(items[k])
  BY DEF Smooth
<1>5. AcceptsItem(state, item)
  <2> SUFFICES Before(state.lastSortingKey, SortingKey(item))
    BY <1>3 DEF AcceptsItem
  <2>1. CASE k = 0
    <3>1. state.lastSortingKey[1] = 0
      BY <1>4, <2>1
    <3>2. state.lastSortingKey[1] < SortingKey(item)[1]
      BY <1>3, <3>1
    <3>3. QED
      BY <3>2 DEF Before
  <2>2. CASE k # 0
    <3>1. k \in DOMAIN items /\ k < k + 1
      BY <1>1, <2>2
    <3>2. Later(items[k], item)
      BY <1>1, <1>2, <3>1
    <3>3. SortingKey(items[k])[1] = items[k][1] /\ SortingKey(items[k])[2] = items[k][2]
      BY <1>1, <3>1, ItemFacts
    <3>4. state.lastSortingKey = SortingKey(items[k])
      BY <1>4, <2>2
    <3>5. QED
      BY <1>3, <3>2, <3>3, <3>4 DEF Before, Later
  <2>3. QED
    BY <2>1, <2>2
<1>6. m \in ModuleContract /\ contracts[c] \in ModuleContract /\ truth[c] \in SettledCounts
  BY <1>3 DEF ItemState, StakingRouterTypeOK
<1>7. /\ m.deposited = contracts[c].deposited
      /\ \A op \in Operators :
           /\ m.stuck[op] \in {contracts[c].stuck[op], truth[c].stuck[op]}
           /\ m.exited[op] \in {contracts[c].exited[op], truth[c].exited[op]}
  <2>1. 1 \in 1..2 /\ 2 \in 1..2
    OBVIOUS
  <2>2. m.deposited = contracts[c].deposited
    BY <1>3 DEF Processed
  <2>3. ASSUME NEW op \in Operators
        PROVE  /\ CountsOf(state, c, 1)[op] \in {KindOf(contracts[c], 1)[op], KindOf(truth[c], 1)[op]}
               /\ CountsOf(state, c, 2)[op] \in {KindOf(contracts[c], 2)[op], KindOf(truth[c], 2)[op]}
    BY <1>3, <2>1 DEF Processed
  <2>4. QED
    BY <2>2, <2>3 DEF CountsOf, KindOf, ItemTypes
<1>8. \A op \in Operators : /\ contracts[c].exited[op] <= truth[c].exited[op]
                            /\ truth[c].exited[op] + truth[c].stuck[op] <= contracts[c].deposited[op]
  BY <1>3 DEF NotAhead
<1>9. \A op \in Operators : {m.stuck[op], m.exited[op], contracts[c].stuck[op], contracts[c].exited[op],
                             truth[c].stuck[op], truth[c].exited[op],
                             contracts[c].deposited[op]} \subseteq Nat
  <2>1. {m.stuck, m.exited, contracts[c].stuck, contracts[c].exited, contracts[c].deposited,
         truth[c].stuck, truth[c].exited} \subseteq [Operators -> Nat]
    BY <1>6, ZenonT(30) DEF ModuleContract, SettledCounts, Counts
  <2> HIDE DEF m, c
  <2>2. QED
    BY <2>1, ZenonT(30)
<1>10. \A op \in Operators : m.exited[op] <= truth[c].exited[op]
  <2> SUFFICES ASSUME NEW op \in Operators PROVE m.exited[op] <= truth[c].exited[op]
    OBVIOUS
  <2>1. m.exited[op] \in {contracts[c].exited[op], truth[c].exited[op]}
    BY <1>7
  <2>2. contracts[c].exited[op] <= truth[c].exited[op] /\ truth[c].exited[op] \in Nat
    BY <1>8, <1>9
  <2>3. QED
    BY ONLY <2>1, <2>2
<1>11. type = 2 => \A op \in Operators : m.stuck[op] = truth[c].stuck[op]
  <2> SUFFICES ASSUME type = 2, NEW op \in Operators, m.stuck[op] # truth[c].stuck[op]
               PROVE  FALSE
    OBVIOUS
  <2>1. truth[c].stuck[op] # contracts[c].stuck[op]
    BY <1>7
  <2>2. KindOf(truth[c], 1) = truth[c].stuck /\ KindOf(contracts[c], 1) = contracts[c].stuck
    BY DEF KindOf, ItemTypes
  <2>3. Wrong(1, truth, item[2])
    BY <2>1, <2>2 DEF Wrong
  <2>4. PICK i \in DOMAIN items : items[i][1] = 1 /\ items[i][2] = item[2]
    BY <1>1, <1>3, <2>3
  <2>5. i \in 1..k
    <3>1. i # k + 1
      BY <2>4
    <3>2. ~(k + 1 < i)
      <4> SUFFICES ASSUME k + 1 < i PROVE FALSE
        OBVIOUS
      <4>1. Later(item, items[i])
        BY <1>1, <1>2
      <4>2. QED
        BY <2>4, <4>1 DEF Later
    <3>3. i \in 1..Len(items)
      BY <1>1
    <3>4. QED
      BY <1>1, <3>1, <3>2, <3>3
  <2>6. WholeItem(items[i], truth)
    BY <1>1
  <2>7. PICK j \in DOMAIN items[i][3] : items[i][3][j][1] = op
    BY <2>1, <2>2, <2>4, <2>6, SMTT(30) DEF WholeItem
  <2>8. CountsOf(state, c, 1)[op] = KindOf(truth[c], 1)[op]
    BY <1>4, <2>4, <2>5, <2>7 DEF Processed
  <2>9. CountsOf(state, c, 1) = m.stuck
    BY DEF CountsOf, KindOf, ItemTypes
  <2>10. QED
    BY <2>2, <2>8, <2>9
<1>12. CountsFit(m, told, type)
  <2>1. CASE type = 1
    <3>1. told = truth[c].stuck
      BY <2>1 DEF KindOf, ItemTypes
    <3> HIDE DEF told, m, type
    <3>2. ASSUME NEW op \in Operators PROVE told[op] + m.exited[op] <= m.deposited[op]
      <4>1. truth[c].exited[op] + truth[c].stuck[op] <= contracts[c].deposited[op]
            /\ m.deposited[op] = contracts[c].deposited[op] /\ told[op] = truth[c].stuck[op]
        BY <1>7, <1>8, <3>1
      <4>2. {m.exited[op], truth[c].exited[op], truth[c].stuck[op],
             contracts[c].deposited[op]} \subseteq Nat
        BY <1>9
      <4>3. QED
        BY ONLY <1>10, <4>1, <4>2
    <3>3. QED
      BY <2>1, <3>2 DEF CountsFit, StuckFits
  <2>2. CASE type # 1
    <3>1. type = 2
      BY <1>3, <2>2
    <3>2. told = truth[c].exited
      BY <3>1 DEF KindOf, ItemTypes
    <3> HIDE DEF told, m, type
    <3>3. ASSUME NEW op \in Operators
          PROVE  m.exited[op] <= told[op] /\ told[op] + m.stuck[op] <= m.deposited[op]
      <4>1. m.stuck[op] = truth[c].stuck[op]
        BY <1>11, <3>1
      <4>2. QED
        BY <1>7, <1>8, <1>9, <1>10, <3>2, <4>1
    <3>4. QED
      BY <2>2, <3>3 DEF CountsFit, ExitedFits
  <2>3. QED
    BY <2>1, <2>2
<1>13. ~r.reverted
  <2>1. Tells(counts, told)
    BY <1>3 DEF Tells
  <2> HIDE DEF m, told, counts, type
  <2>2. QED
    BY <1>3, <1>6, <1>12, <2>1, ReportTells
<1>14. next.reverted = (state.reverted \/ r.reverted) /\ next.lastSortingKey = SortingKey(item)
  BY <1>2, <1>5, ItemIsProcessed
<1>15. ~next.reverted
  BY <1>4, <1>13, <1>14
<1>16. next.lastSortingKey = IF k + 1 = 0 THEN <<0, 0, 0>> ELSE SortingKey(items[k + 1])
  <2>1. k + 1 # 0
    OBVIOUS
  <2>2. QED
    BY <1>14, <2>1
<1>17. QED
  BY <1>15, <1>16 DEF Smooth

LEMMA ItemsAreProcessed ==
  ASSUME StakingRouterTypeOK, NEW truth \in [Contracts -> SettledCounts], NEW items \in Seq(Item),
         \A i \in DOMAIN items : TrueItem(items[i], truth)
  PROVE  LET result == ProcessExtraDataItems(items)
         IN  /\ result \in ItemState
             /\ Processed(truth, items, Len(items), result)
             /\ Describe(items, truth) /\ NotAhead(truth) /\ items # <<>> => ~result.reverted
<1> DEFINE n == Len(items)
           V == ItemState
           first == FirstItem(items)
           F == ItemSteps(items)
           result == ProcessExtraDataItems(items)
           D == Describe(items, truth) /\ NotAhead(truth) /\ items # <<>>
<1>1. n \in Nat /\ DOMAIN items = 1..n
  BY LenProperties
<1>2. PICK trace : FoldTrace(trace, n, V, first, F) /\ trace[n] = result
  BY ItemsHaveTrace DEF HasFoldTrace
<1>3. \A k \in 1..n, st \in V : F[<<k, st>>] = ProcessExtraDataItem(st, items[k])
  BY DEF ItemSteps
<1> HIDE DEF V, F, n, result
<1>4. trace \in [0..n -> V] /\ trace[0] = first /\ \A k \in 1..n : trace[k] = F[<<k, trace[k - 1]>>]
  BY <1>2 DEF FoldTrace
<1>5. ASSUME NEW k \in Nat, k + 1 <= n
      PROVE  trace[k] \in V /\ trace[k + 1] = ProcessExtraDataItem(trace[k], items[k + 1])
  <2>1. k + 1 \in 1..n /\ (k + 1) - 1 = k /\ k \in 0..n
    BY <1>1, <1>5
  <2>2. trace[k + 1] = F[<<k + 1, trace[k]>>] /\ trace[k] \in V
    BY <1>4, <2>1
  <2>3. QED
    BY <1>3, <2>1, <2>2
<1>6. Processed(truth, items, 0, first) /\ (D => Smooth(items, 0, first))
  <2>1. first.contracts = contracts /\ first.reverted = (items = <<>>) /\ first.lastSortingKey = <<0, 0, 0>>
    BY DEF FirstItem
  <2> HIDE DEF first
  <2>2. Processed(truth, items, 0, first)
    BY <2>1 DEF Processed, CountsOf
  <2>3. D => Smooth(items, 0, first)
    BY <2>1 DEF Smooth
  <2>4. QED
    BY <2>2, <2>3
<1> HIDE DEF first, D
<1> DEFINE N == {k \in Nat : k <= n => /\ Processed(truth, items, k, trace[k])
                                       /\ D => Smooth(items, k, trace[k])}
<1>7. 0 \in N
  BY <1>4, <1>6
<1>8. ASSUME NEW k \in N PROVE k + 1 \in N
  <2> SUFFICES ASSUME k + 1 <= n
               PROVE  /\ Processed(truth, items, k + 1, trace[k + 1])
                      /\ D => Smooth(items, k + 1, trace[k + 1])
    OBVIOUS
  <2>1. k \in Nat /\ Processed(truth, items, k, trace[k]) /\ (D => Smooth(items, k, trace[k]))
        /\ k + 1 \in 1..n
    BY <1>1
  <2>2. trace[k] \in ItemState /\ trace[k + 1] = ProcessExtraDataItem(trace[k], items[k + 1])
    BY <1>5, <2>1 DEF V
  <2> HIDE DEF N
  <2>3. Processed(truth, items, k + 1, trace[k + 1])
    BY <2>1, <2>2, OneMoreProcessed DEF n
  <2>4. D => Smooth(items, k + 1, trace[k + 1])
    BY <2>1, <2>2, OneMoreSmooth DEF n, D
  <2>5. QED
    BY <2>3, <2>4
<1>9. N = Nat
  <2> HIDE DEF N
  <2> QED BY <1>7, <1>8, AllNaturals DEF N
<1>10. Processed(truth, items, n, trace[n]) /\ (D => Smooth(items, n, trace[n])) /\ trace[n] \in V
  <2>1. n \in N
    <3> HIDE DEF N
    <3> QED BY <1>1, <1>9
  <2>2. QED
    BY <1>1, <1>4, <2>1
<1>11. D => ~trace[n].reverted
  BY <1>10 DEF Smooth
<1>12. QED
  BY <1>2, <1>10, <1>11 DEF n, V, result, D

(***************************************************************************)
(* The totals that the router takes over: FoldLeft of                      *)
(* UpdateExitedValidatorsCountByStakingModule.                             *)
(***************************************************************************)
Modules == [DOMAIN stakingModules -> StakingModule]

TotalStep(modules, r) == [modules EXCEPT ![r[1]].exitedValidatorsCount = r[2]]

WithTotals(totals) ==
  FoldLeft(LAMBDA modules, r : [modules EXCEPT ![r[1]].exitedValidatorsCount = r[2]],
           stakingModules, totals)

TotalSteps(totals) ==
  [pair \in (1..Len(totals)) \X Modules |-> TotalStep(pair[2], totals[pair[1]])]

Totals(totals) ==
  /\ totals \in Seq(Nat \X Nat)
  /\ \A i \in DOMAIN totals : totals[i][1] \in DOMAIN stakingModules

OtherwiseSame(m, n) ==
  /\ m.contract = n.contract
  /\ m.stakingModuleFee = n.stakingModuleFee
  /\ m.treasuryFee = n.treasuryFee

LEMMA OneTotal ==
  ASSUME NEW s \in Modules, NEW r, r[1] \in DOMAIN stakingModules, r[2] \in Nat,
         NEW next, next = TotalStep(s, r)
  PROVE  /\ next \in Modules
         /\ \A id \in DOMAIN stakingModules :
              /\ OtherwiseSame(next[id], s[id])
              /\ next[id].exitedValidatorsCount = IF id = r[1] THEN r[2] ELSE s[id].exitedValidatorsCount
<1> DEFINE D == DOMAIN stakingModules
           id == r[1]
           n == r[2]
<1>1. s \in [D -> StakingModule] /\ id \in D /\ n \in Nat
  BY DEF Modules
<1>2. next = [s EXCEPT ![id].exitedValidatorsCount = n]
  BY DEF TotalStep
<1> HIDE DEF D, id, n
<1>3. s[id] \in StakingModule
  BY <1>1
<1> DEFINE m == [s[id] EXCEPT !.exitedValidatorsCount = n]
<1>4. m \in StakingModule /\ OtherwiseSame(m, s[id]) /\ m.exitedValidatorsCount = n
  BY <1>1, <1>3 DEF StakingModule, OtherwiseSame
<1>5. next = [s EXCEPT ![id] = m]
  BY <1>2
<1> HIDE DEF m
<1>6. next \in [D -> StakingModule] /\ \A x \in D : next[x] = IF x = id THEN m ELSE s[x]
  BY <1>1, <1>4, <1>5
<1>7. \A x \in D : /\ OtherwiseSame(next[x], s[x])
                   /\ next[x].exitedValidatorsCount = IF x = id THEN n ELSE s[x].exitedValidatorsCount
  BY <1>4, <1>6 DEF OtherwiseSame
<1>8. QED
  BY <1>6, <1>7 DEF D, id, n, Modules

LEMMA TotalKeepsType ==
  ASSUME NEW s \in Modules, NEW r, r[1] \in DOMAIN stakingModules, r[2] \in Nat
  PROVE  TotalStep(s, r) \in Modules
BY OneTotal

LEMMA TotalsHaveTrace ==
  ASSUME StakingRouterTypeOK, NEW totals, Totals(totals)
  PROVE  HasFoldTrace(Len(totals), Modules, stakingModules, TotalSteps(totals), WithTotals(totals))
<1> DEFINE n == Len(totals)
           S == 1..n
           V == Modules
           F == TotalSteps(totals)
           first == stakingModules
           body(h) == [s \in SUBSET S |-> IF s = {} THEN first
                         ELSE TotalStep(h[s \ {Max(s)}], totals[Max(s)])]
<1>0. /\ n \in Nat /\ DOMAIN totals = S
      /\ \A i \in S : totals[i][1] \in DOMAIN stakingModules /\ totals[i][2] \in Nat
  BY LenProperties, ElementOfSeq DEF Totals
<1>1. F \in [S \X V -> V]
      /\ \A i \in S, st \in V : F[<<i, st>>] = TotalStep(st, totals[i])
  <2>1. \A pair \in S \X V : TotalStep(pair[2], totals[pair[1]]) \in V
    BY <1>0, TotalKeepsType
  <2>2. QED
    BY <2>1 DEF TotalSteps
<1> HIDE DEF V, F, n
<1>2. first \in V
  BY ModuleFacts, LenProperties DEF V, first, Modules, StakingRouterTypeOK
<1> HIDE DEF first
<1>3. PICK g : FoldsWith(g, n, V, first, F)
  BY <1>0, <1>1, <1>2, FoldExists
<1>4. \A s \in SUBSET S : s # {} => Max(s) \in S
  BY <1>0, HasGreatest
<1>5. g = body(g)
  <2>1. ASSUME NEW s \in SUBSET S PROVE g[s] = body(g)[s]
    <3>1. CASE s = {}
      BY <1>3, <3>1 DEF FoldsWith
    <3>2. CASE s # {}
      <4>1. s \ {Max(s)} \in SUBSET S
        OBVIOUS
      <4>2. g[s \ {Max(s)}] \in V /\ g[s] = F[<<Max(s), g[s \ {Max(s)}]>>]
        BY <1>3, <3>2, <4>1 DEF FoldsWith
      <4>3. g[s] = TotalStep(g[s \ {Max(s)}], totals[Max(s)])
        BY <1>1, <1>4, <3>2, <4>2
      <4>4. QED
        BY <3>2, <4>3
    <3>3. QED
      BY <3>1, <3>2
  <2>2. g = [s \in SUBSET S |-> g[s]]
    BY <1>3 DEF FoldsWith
  <2>3. body(g) = [s \in SUBSET S |-> body(g)[s]]
    OBVIOUS
  <2> HIDE DEF body
  <2>4. QED
    BY <2>1, <2>2, <2>3
<1> DEFINE iter == CHOOSE h : h = body(h)
<1>6. iter = body(iter)
  <2> HIDE DEF body
  <2> QED BY <1>5
<1>7. WithTotals(totals) = iter[S]
  <2>1. WithTotals(totals) = FoldLeft(TotalStep, first, totals)
    BY DEF WithTotals, TotalStep, first
  <2>2. QED
    BY <1>0, <2>1 DEF FoldLeft, MapThenFoldSet
<1> HIDE DEF iter
<1>8. iter[{}] = first
  BY <1>6
<1>9. ASSUME NEW s \in SUBSET S, s # {}, iter[s \ {Max(s)}] \in V
      PROVE  iter[s] = F[<<Max(s), iter[s \ {Max(s)}]>>]
  <2>1. iter[s] = TotalStep(iter[s \ {Max(s)}], totals[Max(s)])
    BY <1>6, <1>9
  <2>2. QED
    BY <1>1, <1>4, <1>9, <2>1
<1> HIDE DEF body
<1>10. IsFold(iter, n, V, first, F)
  BY <1>8, <1>9 DEF IsFold
<1>11. HasFoldTrace(n, V, first, F, iter[1..n])
  BY <1>0, <1>1, <1>2, <1>10, FoldHasTrace
<1>12. QED
  BY <1>7, <1>11 DEF V, F, n, first

ListedTotal(totals, id, n) == \E i \in DOMAIN totals : totals[i][1] = id /\ totals[i][2] = n

Taken(totals, k, s) ==
  /\ s \in Modules
  /\ \A id \in DOMAIN stakingModules :
       /\ OtherwiseSame(s[id], stakingModules[id])
       /\ \/ s[id].exitedValidatorsCount = stakingModules[id].exitedValidatorsCount
             /\ ~\E i \in 1..k : totals[i][1] = id
          \/ ListedTotal(totals, id, s[id].exitedValidatorsCount)

LEMMA TotalsAreTaken ==
  ASSUME StakingRouterTypeOK, NEW totals, Totals(totals)
  PROVE  Taken(totals, Len(totals), WithTotals(totals))
<1> DEFINE n == Len(totals)
           V == Modules
           first == stakingModules
           F == TotalSteps(totals)
           result == WithTotals(totals)
<1>1. n \in Nat /\ DOMAIN totals = 1..n
      /\ \A i \in 1..n : totals[i][1] \in DOMAIN stakingModules /\ totals[i][2] \in Nat
  BY LenProperties, ElementOfSeq DEF Totals
<1>2. PICK trace : FoldTrace(trace, n, V, first, F) /\ trace[n] = result
  BY TotalsHaveTrace DEF HasFoldTrace
<1>3. \A k \in 1..n, st \in V : F[<<k, st>>] = TotalStep(st, totals[k])
  BY DEF TotalSteps
<1> HIDE DEF V, F, n, result
<1>4. trace \in [0..n -> V] /\ trace[0] = first /\ \A k \in 1..n : trace[k] = F[<<k, trace[k - 1]>>]
  BY <1>2 DEF FoldTrace
<1>5. ASSUME NEW k \in Nat, k + 1 <= n
      PROVE  trace[k] \in V /\ trace[k + 1] = TotalStep(trace[k], totals[k + 1])
  <2>1. k + 1 \in 1..n /\ (k + 1) - 1 = k /\ k \in 0..n
    BY <1>1, <1>5
  <2>2. trace[k + 1] = F[<<k + 1, trace[k]>>] /\ trace[k] \in V
    BY <1>4, <2>1
  <2>3. QED
    BY <1>3, <2>1, <2>2
<1>6. Taken(totals, 0, first)
  <2>1. first \in Modules
    BY ModuleFacts, LenProperties DEF first, Modules, StakingRouterTypeOK
  <2>2. QED
    BY <2>1 DEF Taken, OtherwiseSame
<1> HIDE DEF first
<1> DEFINE N == {k \in Nat : k <= n => Taken(totals, k, trace[k])}
<1>7. 0 \in N
  BY <1>4, <1>6
<1>8. ASSUME NEW k \in N PROVE k + 1 \in N
  <2> SUFFICES ASSUME k + 1 <= n PROVE Taken(totals, k + 1, trace[k + 1])
    OBVIOUS
  <2>1. k \in Nat /\ Taken(totals, k, trace[k]) /\ k + 1 \in 1..n
    BY <1>1
  <2> DEFINE s == trace[k]
             r == totals[k + 1]
             next == trace[k + 1]
  <2>2. s \in Modules /\ next = TotalStep(s, r) /\ r[1] \in DOMAIN stakingModules /\ r[2] \in Nat
    BY <1>1, <1>5, <2>1 DEF V
  <2>3. ListedTotal(totals, r[1], r[2])
    BY <1>1, <2>1 DEF ListedTotal
  <2>4. Taken(totals, k, s)
    BY <2>1
  <2> HIDE DEF N, s, next
  <2>5. /\ next \in Modules
        /\ \A id \in DOMAIN stakingModules :
             /\ OtherwiseSame(next[id], s[id])
             /\ next[id].exitedValidatorsCount = IF id = r[1] THEN r[2] ELSE s[id].exitedValidatorsCount
    BY <2>2, OneTotal
  <2>6. ASSUME NEW id \in DOMAIN stakingModules
        PROVE  /\ OtherwiseSame(next[id], stakingModules[id])
               /\ \/ next[id].exitedValidatorsCount = stakingModules[id].exitedValidatorsCount
                     /\ ~\E i \in 1..(k + 1) : totals[i][1] = id
                  \/ ListedTotal(totals, id, next[id].exitedValidatorsCount)
    <3>1. OtherwiseSame(next[id], stakingModules[id])
      BY <2>4, <2>5 DEF Taken, OtherwiseSame
    <3>2. CASE id = r[1]
      <4>1. next[id].exitedValidatorsCount = r[2]
        BY <2>5, <3>2
      <4>2. QED
        BY <2>3, <3>1, <3>2, <4>1
    <3>3. CASE id # r[1]
      <4>1. next[id].exitedValidatorsCount = s[id].exitedValidatorsCount
        BY <2>5, <3>3
      <4>2. (\E i \in 1..(k + 1) : totals[i][1] = id) => \E i \in 1..k : totals[i][1] = id
        BY <2>1, <3>3
      <4>3. QED
        BY <2>4, <3>1, <4>1, <4>2 DEF Taken
    <3>4. QED
      BY <3>2, <3>3
  <2>7. Taken(totals, k + 1, next)
    BY <2>5, <2>6 DEF Taken
  <2>8. QED
    BY <2>7 DEF next
<1>9. N = Nat
  <2> HIDE DEF N
  <2> QED BY <1>7, <1>8, AllNaturals DEF N
<1>10. Taken(totals, n, trace[n])
  <2>1. n \in N
    <3> HIDE DEF N
    <3> QED BY <1>1, <1>9
  <2>2. QED
    BY <1>1, <2>1
<1>11. QED
  BY <1>2, <1>10 DEF n, result

------------------------------------------------------------------------------

(***************************************************************************)
(* The steps of reports.  Modules are neither added nor managed meanwhile, *)
(* and nothing is deposited.                                               *)
(***************************************************************************)
ModulesStay ==
  /\ stakingModules' \in Seq(StakingModule)
  /\ DOMAIN stakingModules' = DOMAIN stakingModules
  /\ \A id \in DOMAIN stakingModules : OtherwiseSame(stakingModules'[id], stakingModules[id])
  /\ contracts' \in [Contracts -> ModuleContract]
  /\ UNCHANGED <<withdrawalCredentials, depositable>>

LEMMA RouterStays ==
  ASSUME ModulesInv, ModulesStay
  PROVE  /\ StakingRouterTypeOK' /\ ContractsAreDistinct'
         /\ \A id \in DOMAIN stakingModules : ContractOf(id)' = ContractOf(id)
         /\ \A id \in DOMAIN stakingModules :
              stakingModules'[id].stakingModuleFee + stakingModules'[id].treasuryFee <= TOTAL_BASIS_POINTS
<1>1. StakingRouterTypeOK /\ ContractsAreDistinct
  BY DEF ModulesInv
<1>2. /\ Len(stakingModules) \in Nat /\ DOMAIN stakingModules = 1..Len(stakingModules)
      /\ \A id \in DOMAIN stakingModules : stakingModules[id] \in StakingModule
  BY <1>1, ModuleFacts
<1>3. Len(stakingModules') = Len(stakingModules)
  BY <1>2, LenProperties DEF ModulesStay
<1>4. StakingRouterTypeOK'
  BY <1>1, <1>3 DEF StakingRouterTypeOK, ModulesStay
<1>5. \A id \in DOMAIN stakingModules :
        /\ stakingModules'[id].contract = stakingModules[id].contract
        /\ stakingModules'[id].stakingModuleFee = stakingModules[id].stakingModuleFee
        /\ stakingModules'[id].treasuryFee = stakingModules[id].treasuryFee
  BY DEF ModulesStay, OtherwiseSame
<1>6. ContractsAreDistinct'
  BY <1>1, <1>5 DEF ContractsAreDistinct, ModulesStay
<1>7. \A id \in DOMAIN stakingModules : ContractOf(id)' = ContractOf(id)
  BY <1>5 DEF ContractOf
<1>8. \A id \in DOMAIN stakingModules :
        stakingModules'[id].stakingModuleFee + stakingModules'[id].treasuryFee <= TOTAL_BASIS_POINTS
  BY <1>5 DEF ModulesInv
<1>9. QED
  BY <1>4, <1>6, <1>7, <1>8

(***************************************************************************)
(* What was gathered stays true, and stays a description of what modules   *)
(* are wrong about as long as they hear nothing new.                       *)
(***************************************************************************)
GatheredStays ==
  /\ gathered'.refSlot = gathered.refSlot
  /\ gathered'.payload = gathered.payload
  /\ gathered'.truth = gathered.truth

LEMMA TruthStays ==
  ASSUME ModulesInv, ModulesStay, NEW CONSTANT item, NEW CONSTANT truth, TrueItem(item, truth)
  PROVE  TrueItem(item, truth)'
<1>1. \A id \in DOMAIN stakingModules : ContractOf(id)' = ContractOf(id)
  BY RouterStays
<1>2. QED
  BY <1>1 DEF TrueItem, ModulesStay

LEMMA DescriptionKept ==
  ASSUME ModulesInv, ModulesStay, UNCHANGED contracts, NEW CONSTANT items, NEW CONSTANT truth,
         Describe(items, truth)
  PROVE  Describe(items, truth)'
<1>1. /\ \A id \in DOMAIN stakingModules : ContractOf(id)' = ContractOf(id)
      /\ DOMAIN stakingModules' = DOMAIN stakingModules
  BY RouterStays DEF ModulesStay
<1>2. /\ items \in Seq(Item)
      /\ \A i \in DOMAIN items : TrueItem(items[i], truth) /\ WholeItem(items[i], truth)
      /\ \A i, j \in DOMAIN items : i < j => Later(items[i], items[j])
      /\ \A type \in 1..2 : \A id \in DOMAIN stakingModules :
           Wrong(type, truth, id) => \E i \in DOMAIN items : items[i][1] = type /\ items[i][2] = id
  BY DEF Describe
<1>3. ASSUME NEW CONSTANT item, TrueItem(item, truth), WholeItem(item, truth)
      PROVE  TrueItem(item, truth)' /\ WholeItem(item, truth)'
  <2>1. item[2] \in DOMAIN stakingModules
    BY <1>3 DEF TrueItem
  <2>2. WholeItem(item, truth)'
    BY <1>1, <1>3, <2>1 DEF WholeItem
  <2>3. QED
    BY <1>3, <2>2, TruthStays
<1>4. ASSUME NEW CONSTANT type, NEW id \in DOMAIN stakingModules, Wrong(type, truth, id)'
      PROVE  Wrong(type, truth, id)
  BY <1>1, <1>4 DEF Wrong
<1>5. \A i \in DOMAIN items : TrueItem(items[i], truth)' /\ WholeItem(items[i], truth)'
  BY <1>2, <1>3
<1>6. \A type \in 1..2 : \A id \in DOMAIN stakingModules' :
        Wrong(type, truth, id)' => \E i \in DOMAIN items : items[i][1] = type /\ items[i][2] = id
  BY <1>1, <1>2, <1>4
<1>7. QED
  BY <1>2, <1>5, <1>6 DEF Describe

LEMMA ItemsStay ==
  ASSUME ModulesInv, ModulesStay, GatheredStays, ExtraDataInv
  PROVE  /\ TrueItems(GatheredItems)' /\ GatheredItems' = GatheredItems
         /\ DescribesItems(gathered.payload[2], gathered.payload[3], gathered.payload[4], GatheredItems)'
         /\ UNCHANGED contracts /\ Describe(GatheredItems, gathered.truth)
              => Describe(GatheredItems, gathered.truth)'
<1>1. GatheredItems' = GatheredItems
  BY DEF GatheredItems, GatheredStays
<1>2. PICK items : items = GatheredItems /\ items = GatheredItems'
  BY <1>1
<1>3. PICK truth : truth = gathered.truth /\ truth = gathered'.truth
  BY DEF GatheredStays
<1>4. /\ items \in Seq(Item)
      /\ \A i \in DOMAIN items : TrueItem(items[i], truth)
  BY <1>2, <1>3 DEF ExtraDataInv, TrueItems
<1>5. \A i \in DOMAIN items : TrueItem(items[i], truth)'
  BY <1>4, TruthStays
<1>6. TrueItems(GatheredItems)'
  BY <1>2, <1>3, <1>4, <1>5 DEF TrueItems, TrueItem
<1>7. DescribesItems(gathered.payload[2], gathered.payload[3], gathered.payload[4], GatheredItems)'
  BY <1>1 DEF DescribesItems, GatheredStays, ExtraDataInv
<1>8. ASSUME UNCHANGED contracts, Describe(GatheredItems, gathered.truth)
      PROVE  Describe(GatheredItems, gathered.truth)'
  <2>1. Describe(items, truth)
    BY <1>2, <1>3, <1>8
  <2>2. Describe(items, truth)'
    BY <1>8, <2>1, DescriptionKept
  <2>3. QED
    BY <1>2, <1>3, <2>2 DEF Describe, TrueItem, WholeItem, Wrong
<1>9. QED
  BY <1>1, <1>6, <1>7, <1>8

(***************************************************************************)
(* Two multiples of a number are at least that far apart.                  *)
(***************************************************************************)
LEMMA Multiples ==
  ASSUME NEW a \in Nat, NEW b \in Nat, NEW f \in Nat \ {0}, a % f = 0, b % f = 0, a < b
  PROVE  a + f <= b
<1> DEFINE p == a \div f
           q == b \div f
<1>1. p \in Nat /\ q \in Nat
  BY Division
<1>2. a = p * f /\ b = q * f
  OBVIOUS
<1> HIDE DEF p, q
<1>3. CASE q <= p
  <2>1. q * f <= p * f
    BY <1>1, <1>3, MultipleMonotone
  <2>2. QED
    BY <1>2, <2>1
<1>4. CASE p + 1 <= q
  <2>1. (p + 1) * f <= q * f
    BY <1>1, <1>4, MultipleMonotone
  <2>2. (p + 1) * f = p * f + f
    BY <1>1
  <2>3. QED
    BY <1>2, <2>1, <2>2
<1>5. QED
  BY <1>1, <1>3, <1>4

(***************************************************************************)
(* Steps that leave the modules and what was gathered alone.               *)
(***************************************************************************)
LEMMA SameModulesStay ==
  ASSUME ModulesInv, UNCHANGED <<routerVars, depositable>>
  PROVE  ModulesStay
<1>1. StakingRouterTypeOK
  BY DEF ModulesInv
<1>2. QED
  BY <1>1, ModuleFacts DEF ModulesStay, OtherwiseSame, StakingRouterTypeOK, routerVars

LEMMA ReportsUntouched ==
  ASSUME ModulesInv, UNCHANGED <<routerVars, depositable, extraData, gathered>>, TotalsInv, ExtraDataInv
  PROVE  TotalsInv' /\ ExtraDataInv'
<1>1. TotalsInv'
  BY DEF TotalsInv, TrueTotals, Listed, ExitedInTotal, ContractOf, routerVars
<1>2. ModulesStay /\ GatheredStays /\ UNCHANGED contracts
  BY SameModulesStay DEF GatheredStays, routerVars
<1>3. /\ TrueItems(GatheredItems)' /\ GatheredItems' = GatheredItems
      /\ DescribesItems(gathered.payload[2], gathered.payload[3], gathered.payload[4], GatheredItems)'
      /\ Describe(GatheredItems, gathered.truth) => Describe(GatheredItems, gathered.truth)'
  BY <1>2, ItemsStay
<1>4. ExtraDataDelivered' <=> ExtraDataDelivered
  BY DEF ExtraDataDelivered
<1>5. QED
  BY <1>1, <1>2, <1>3, <1>4 DEF ExtraDataInv

LEMMA ReportKept ==
  ASSUME TimesInv, UNCHANGED <<now, gathered>>, OracleUnchanged
  PROVE  TimesInv'
BY DEF TimesInv, OracleUnchanged, InTime, Report, Processing

(***************************************************************************)
(* A slot ends; at the end of a reference slot the committee gathers.      *)
(***************************************************************************)
LEMMA GatheringKeepsCounts ==
  ASSUME CountsInv, UNCHANGED <<routerVars, chain, reported, depositable>>, gathered' = Gathered(now)
  PROVE  CountsInv'
<1>1. gathered'.truth = chain
  BY DEF Gathered
<1>2. /\ chain \in [Contracts -> SettledCounts]
      /\ \A c \in Contracts : \A op \in Operators :
           /\ chain[c].exited[op] + chain[c].stuck[op] <= contracts[c].deposited[op]
           /\ contracts[c].exited[op] <= chain[c].exited[op]
           /\ chain[c].exited[op] \in Nat
  BY DEF CountsInv, ChainInv, SettledCounts, Counts
<1>3. ChainInv'
  <2>1. contracts' = contracts /\ chain' = chain
    BY DEF routerVars
  <2>2. \A c \in Contracts : \A op \in Operators : chain[c].exited[op] <= chain[c].exited[op]
    BY <1>2
  <2>3. QED
    BY <1>1, <1>2, <2>1, <2>2 DEF ChainInv
<1>4. ModulesInv'
  BY DEF CountsInv, ModulesInv, StakingRouterTypeOK, ContractsAreDistinct, ExitedInTotal, ContractOf,
         routerVars
<1>5. QED
  BY <1>3, <1>4 DEF CountsInv

LEMMA GatheringKeepsTotals ==
  ASSUME CountsInv, UNCHANGED <<routerVars, chain>>, gathered' = Gathered(now)
  PROVE  TotalsInv'
<1> DEFINE exited == NewlyExited(chain)
<1>1. StakingRouterTypeOK
  BY DEF CountsInv, ModulesInv
<1>2. \A id \in DOMAIN stakingModules :
        /\ ExitedInTotal(chain, id) \in Nat
        /\ stakingModules[id].exitedValidatorsCount <= ExitedInTotal(chain, id)
  <2>1. ASSUME NEW id \in DOMAIN stakingModules PROVE ExitedInTotal(chain, id) \in Nat
    <3>1. stakingModules[id].contract \in Contracts
      BY <1>1, ModuleFacts
    <3>2. QED
      BY <3>1, TotalsOfModule DEF ExitedInTotal, ContractOf
  <2>2. QED
    BY <2>1 DEF CountsInv, ModulesInv
<1>3. /\ exited \in Seq(Nat \X Nat)
      /\ \A i \in DOMAIN exited :
           /\ exited[i][1] \in DOMAIN stakingModules
           /\ exited[i][2] = ExitedInTotal(chain, exited[i][1])
           /\ exited[i][2] # 0
      /\ StrictlyAscending([i \in DOMAIN exited |-> exited[i][1]])
      /\ \A id \in DOMAIN stakingModules :
           \/ stakingModules[id].exitedValidatorsCount >= ExitedInTotal(chain, id)
           \/ Listed(exited, id)
  BY <1>1, <1>2, TotalsGathered
<1>4. gathered'.payload[1] = exited /\ gathered'.truth = chain
  BY DEF Gathered, TruthfulPayload
<1>5. stakingModules' = stakingModules
  BY DEF routerVars
<1>6. \A id \in DOMAIN stakingModules : ExitedInTotal(gathered.truth, id)' = ExitedInTotal(chain, id)
  BY <1>4, <1>5 DEF ExitedInTotal, ContractOf
<1> HIDE DEF exited
<1>7. TrueTotals(gathered.payload[1])'
  <2>1. \A i \in DOMAIN exited :
          exited[i][2] = SumFunction(gathered'.truth[stakingModules'[exited[i][1]].contract].exited)
    BY <1>3, <1>4, <1>5 DEF ExitedInTotal, ContractOf
  <2>2. QED
    BY <1>3, <1>4, <1>5, <2>1 DEF TrueTotals, ExitedInTotal, ContractOf
<1>8. QED
  BY <1>2, <1>3, <1>4, <1>5, <1>6, <1>7 DEF TotalsInv, Listed

LEMMA GatheringKeepsExtraData ==
  ASSUME CountsInv, TimesInv, PhasesInv, UNCHANGED <<routerVars, chain, extraData, depositable>>,
         gathered' = Gathered(now)
  PROVE  ExtraDataInv'
<1>1. PICK truth : truth = chain
  OBVIOUS
<1>2. PICK items : items = Items(chain)
  OBVIOUS
<1>3. StakingRouterTypeOK /\ ModulesInv /\ truth \in [Contracts -> SettledCounts]
  BY <1>1 DEF CountsInv, ModulesInv, ChainInv
<1>4. Describe(items, truth)
  BY <1>1, <1>2, <1>3, ItemsGathered
<1>5. ModulesStay
  BY <1>3, SameModulesStay
<1>6. UNCHANGED contracts
  BY DEF routerVars
<1>7. Describe(items, truth)'
  BY <1>3, <1>4, <1>5, <1>6, DescriptionKept
<1>8. gathered'.payload = TruthfulPayload(chain) /\ gathered'.truth = truth /\ gathered'.refSlot = now
  BY <1>1 DEF Gathered
<1>9. GatheredItems' = items
      /\ DescribesItems(gathered.payload[2], gathered.payload[3], gathered.payload[4], items)'
  <2>1. CASE items = <<>>
    BY <1>2, <1>8, <2>1 DEF TruthfulPayload, GatheredItems, DescribesItems, EXTRA_DATA_FORMAT_LIST,
       EXTRA_DATA_FORMAT_EMPTY
  <2>2. CASE items # <<>>
    BY <1>2, <1>8, <2>2 DEF TruthfulPayload, GatheredItems, DescribesItems
  <2>3. QED
    BY <2>1, <2>2
<1>10. Describe(GatheredItems, gathered.truth)'
  BY <1>7, <1>8, <1>9 DEF Describe, TrueItem, WholeItem, Wrong
<1>11. TrueItems(GatheredItems)'
  BY <1>10 DEF Describe, TrueItems
<1>12. \A c \in Contracts : \A op \in Operators : contracts'[c].exited[op] <= gathered'.truth[c].exited[op]
  BY <1>1, <1>6, <1>8 DEF CountsInv, ChainInv
<1>13. extraData'.refSlot # gathered'.refSlot
  <2>1. extraData.refSlot <= Processing /\ Processing <= Report.refSlot
        /\ {extraData.refSlot, Processing, Report.refSlot} \subseteq Int
    BY DEF PhasesInv, SlotsAreOrdered
  <2>2. /\ Report.refSlot <= gathered.refSlot /\ gathered.refSlot < now
        /\ now \in Nat /\ gathered.refSlot \in Nat
    BY DEF TimesInv
  <2>3. extraData.refSlot # now
    BY <2>1, <2>2
  <2>4. QED
    BY <1>8, <2>3
<1>14. DescribesItems(gathered.payload[2], gathered.payload[3], gathered.payload[4], GatheredItems)'
  BY <1>9 DEF DescribesItems
<1>15. QED
  BY <1>10, <1>11, <1>12, <1>13, <1>14 DEF ExtraDataInv

LEMMA SlotKeepsReports ==
  ASSUME ReportsInv, SlotEnds
  PROVE  CountsInv' /\ TimesInv' /\ TotalsInv' /\ ExtraDataInv'
<1>1. /\ CountsInv /\ TimesInv /\ TotalsInv /\ ExtraDataInv /\ PhasesInv /\ Reports
      /\ now' = now + 1 /\ UNCHANGED <<oracle, routerVars, extraData, chain, reported, depositable>>
  BY DEF ReportsInv, SlotEnds, lidoVars
<1>2. Report' = Report /\ Processing' = Processing
  BY <1>1 DEF Report, Processing
<1>3. /\ now \in Nat /\ gathered.refSlot \in Nat /\ gathered.refSlot % FRAME_SLOTS = 0
      /\ gathered.refSlot < now /\ Report.refSlot <= gathered.refSlot /\ Processing \in Nat
      /\ Report.hash # ZeroHash => /\ Report.refSlot # 0
                                   /\ Report.processingDeadlineTime = Report.refSlot + FRAME_SLOTS
      /\ InTime => /\ Report.refSlot = gathered.refSlot
                   /\ Report.hash.payload \in {gathered.payload} \union Malformed
  BY <1>1 DEF TimesInv
<1>4. Report.refSlot \in Int /\ FRAME_SLOTS \in Nat \ {0}
  BY <1>1, CommitteesAssumption DEF PhasesInv, SlotsAreOrdered
<1>5. CASE now % FRAME_SLOTS = 0
  <2>1. gathered' = Gathered(now)
    BY <1>1, <1>5 DEF SlotEnds
  <2>2. CountsInv' /\ TotalsInv' /\ ExtraDataInv'
    BY <1>1, <2>1, GatheringKeepsCounts, GatheringKeepsTotals, GatheringKeepsExtraData
  <2>3. gathered.refSlot + FRAME_SLOTS <= now
    BY <1>3, <1>4, <1>5, Multiples
  <2>4. gathered'.refSlot = now
    BY <2>1 DEF Gathered
  <2>5. ~InTime'
    <3>1. Report.hash # ZeroHash => ~(now + 1 <= Report.processingDeadlineTime)
      BY <1>3, <1>4, <2>3
    <3>2. QED
      BY <1>1, <1>2, <3>1 DEF InTime
  <2>6. TimesInv'
    <3>1. now' \in Nat /\ now < now' /\ Report.refSlot <= now
      BY <1>1, <1>3, <1>4
    <3>2. QED
      BY <1>2, <1>3, <1>5, <2>4, <2>5, <3>1 DEF TimesInv
  <2>7. QED
    BY <2>2, <2>6
<1>6. CASE now % FRAME_SLOTS # 0
  <2>1. gathered' = gathered
    BY <1>6 DEF SlotEnds
  <2>2. CountsInv' /\ TotalsInv' /\ ExtraDataInv'
    <3>1. ModulesInv
      BY <1>1 DEF CountsInv
    <3>2. QED
      BY <1>1, <2>1, <3>1, CountsUntouched, ReportsUntouched
  <2>3. InTime' => InTime
    <3>1. Report.hash # ZeroHash => Report.processingDeadlineTime \in Int
      BY <1>3, <1>4
    <3>2. QED
      BY <1>1, <1>2, <1>3, <3>1 DEF InTime
  <2>4. TimesInv'
    <3>1. now' \in Nat /\ gathered.refSlot < now'
      BY <1>1, <1>3
    <3>2. QED
      BY <1>2, <1>3, <2>1, <2>3, <3>1 DEF TimesInv
  <2>5. QED
    BY <2>2, <2>4
<1>7. QED
  BY <1>5, <1>6

(***************************************************************************)
(* The committee agrees on a report, or loses it again.                    *)
(***************************************************************************)
LEMMA CommitteeKeepsReports ==
  ASSUME ReportsInv, AccountingCommittee
  PROVE  CountsInv' /\ TimesInv' /\ TotalsInv' /\ ExtraDataInv'
<1> DEFINE o == accountingOracle
           g == gathered.refSlot
<1>1. /\ CountsInv /\ TimesInv /\ TotalsInv /\ ExtraDataInv /\ PhasesInv /\ ModulesInv
      /\ UNCHANGED <<now, routerVars, extraData, chain, reported, depositable, gathered>>
  BY DEF ReportsInv, CountsInv, AccountingCommittee, worldVars, securityVars, lidoVars
<1>2. CountsInv' /\ TotalsInv' /\ ExtraDataInv'
  BY <1>1, CountsUntouched, ReportsUntouched
<1>3. /\ DOMAIN oracle = Oracles /\ o \in Oracles
      /\ DOMAIN oracle[o] = DOMAIN Initialized(consensus, 1, 0)
      /\ DOMAIN Report = {"hash", "refSlot", "processingDeadlineTime"}
  BY <1>1, AccountingOracleAssumption DEF PhasesInv, WellFormed
<1>4. /\ now \in Nat /\ g \in Nat /\ g % FRAME_SLOTS = 0
      /\ g < now /\ Report.refSlot <= g /\ Processing \in Nat
      /\ Report.hash # ZeroHash => /\ Report.refSlot # 0
                                   /\ Report.processingDeadlineTime = Report.refSlot + FRAME_SLOTS
      /\ InTime => /\ Report.refSlot = g
                   /\ Report.hash.payload \in {gathered.payload} \union Malformed
  BY <1>1 DEF TimesInv
<1>5. ASSUME NEW payload \in {gathered.payload} \union Malformed,
             SubmitConsensusReport(o, consensus,
               [consensusVersion |-> 1, refSlot |-> g, payload |-> payload], g, g + FRAME_SLOTS)
      PROVE  TimesInv'
  <2> DEFINE hash == [consensusVersion |-> 1, refSlot |-> g, payload |-> payload]
  <2>1. /\ g > Processing
        /\ oracle' = [oracle EXCEPT ![o].report =
                        [hash |-> hash, refSlot |-> g, processingDeadlineTime |-> g + FRAME_SLOTS]]
        /\ hash # ZeroHash
    BY <1>5 DEF SubmitConsensusReport, Processing
  <2>2. Report' = [hash |-> hash, refSlot |-> g, processingDeadlineTime |-> g + FRAME_SLOTS]
        /\ Processing' = Processing
    BY <1>3, <2>1 DEF Report, Processing, Initialized
  <2>3. hash.payload = payload /\ g # 0 /\ g <= g
    BY <1>4, <2>1
  <2> HIDE DEF hash
  <2>4. /\ Report'.hash = hash /\ Report'.refSlot = g /\ Report'.processingDeadlineTime = g + FRAME_SLOTS
    BY <2>2
  <2>5. QED
    BY <1>1, <1>4, <1>5, <2>2, <2>3, <2>4 DEF TimesInv, InTime
<1>6. ASSUME DiscardConsensusReport(o, consensus, g)
      PROVE  TimesInv'
  <2>1. CASE UNCHANGED oracle
    BY <1>1, <2>1, ReportKept DEF OracleUnchanged
  <2>2. CASE oracle' = [oracle EXCEPT ![o].report.hash = ZeroHash]
    <3>1. Report'.hash = ZeroHash /\ Report'.refSlot = Report.refSlot /\ Processing' = Processing
      BY <1>3, <2>2 DEF Report, Processing, Initialized
    <3>2. QED
      BY <1>1, <1>4, <3>1 DEF TimesInv, InTime
  <2>3. QED
    BY <1>6, <2>1, <2>2 DEF DiscardConsensusReport
<1>7. TimesInv'
  BY <1>5, <1>6 DEF AccountingCommittee
<1>8. QED
  BY <1>2, <1>7

(***************************************************************************)
(* The truth moves on: exits and stuck validators stay among the deposited.*)
(***************************************************************************)
LEMMA ChainKeepsReports ==
  ASSUME ReportsInv, NEW c \in Contracts, NEW op \in Operators, ChainMoves(c, op)
  PROVE  CountsInv' /\ TimesInv' /\ TotalsInv' /\ ExtraDataInv'
<1> DEFINE e == chain[c].exited[op]
           s == chain[c].stuck[op]
           d == contracts[c].deposited[op]
<1>1. /\ CountsInv /\ TimesInv /\ TotalsInv /\ ExtraDataInv /\ PhasesInv /\ ModulesInv /\ ChainInv
      /\ UNCHANGED <<baseOracleVars, routerVars, extraData, reported, depositable, gathered>>
  BY DEF ReportsInv, CountsInv, ChainMoves, securityVars, lidoVars
<1>2. TimesInv' /\ TotalsInv' /\ ExtraDataInv'
  BY <1>1, ReportKept, ReportsUntouched DEF baseOracleVars, OracleUnchanged
<1>3. chain \in [Contracts -> SettledCounts] /\ contracts \in [Contracts -> ModuleContract]
  BY <1>1 DEF ChainInv, ModulesInv, StakingRouterTypeOK
<1>4. {e, s, d} \subseteq Nat
  BY <1>3 DEF SettledCounts, ModuleContract, Counts
<1> DEFINE Moved(m, n, x) ==
             /\ m \in SettledCounts /\ n \in Nat /\ x \in Nat /\ e <= n /\ n + x <= d
             /\ \A p \in Operators : /\ m.exited[p] = IF p = op THEN n ELSE chain[c].exited[p]
                                     /\ m.stuck[p] = IF p = op THEN x ELSE chain[c].stuck[p]
<1>5. PICK m, n, x : Moved(m, n, x) /\ chain' = [chain EXCEPT ![c] = m]
  <2>1. chain[c] \in SettledCounts
    BY <1>3
  <2>3. e + s <= d
    BY <1>1 DEF ChainInv
  <2>4. d - e - s > 0 => e + 1 \in Nat /\ s + 1 \in Nat /\ (e + 1) + s <= d /\ e + (s + 1) <= d /\ e <= e + 1
    BY <1>4
  <2>5. s > 0 => s - 1 \in Nat /\ e + 1 \in Nat /\ e + (s - 1) <= d /\ (e + 1) + (s - 1) <= d /\ e <= e + 1
    BY <1>4, <2>3
  <2>6. CASE d - e - s > 0 /\ chain' = [chain EXCEPT ![c].exited[op] = @ + 1]
    <3>0. PICK m : m = [chain[c] EXCEPT !.exited[op] = e + 1]
      OBVIOUS
    <3>1. chain' = [chain EXCEPT ![c] = m]
      BY <2>6, <3>0
    <3>2. /\ m \in SettledCounts /\ m.stuck = chain[c].stuck
          /\ \A p \in Operators : m.exited[p] = IF p = op THEN e + 1 ELSE chain[c].exited[p]
      BY <2>1, <2>4, <2>6, <3>0 DEF SettledCounts, Counts
    <3>3. Moved(m, e + 1, s)
      <4>1. \A p \in Operators : m.stuck[p] = IF p = op THEN s ELSE chain[c].stuck[p]
        BY <3>2
      <4> HIDE DEF e, s, d
      <4>2. QED
        BY <1>4, <2>4, <2>6, <3>2, <4>1
    <3> HIDE DEF Moved
    <3>4. QED
      BY <3>1, <3>3
  <2>7. CASE d - e - s > 0 /\ chain' = [chain EXCEPT ![c].stuck[op] = @ + 1]
    <3>0. PICK m : m = [chain[c] EXCEPT !.stuck[op] = s + 1]
      OBVIOUS
    <3>1. chain' = [chain EXCEPT ![c] = m]
      BY <2>7, <3>0
    <3>2. /\ m \in SettledCounts /\ m.exited = chain[c].exited
          /\ \A p \in Operators : m.stuck[p] = IF p = op THEN s + 1 ELSE chain[c].stuck[p]
      BY <2>1, <2>4, <2>7, <3>0 DEF SettledCounts, Counts
    <3>3. Moved(m, e, s + 1)
      <4>1. \A p \in Operators : m.exited[p] = IF p = op THEN e ELSE chain[c].exited[p]
        BY <3>2
      <4> HIDE DEF e, s, d
      <4>2. QED
        BY <1>4, <2>4, <2>7, <3>2, <4>1
    <3> HIDE DEF Moved
    <3>4. QED
      BY <3>1, <3>3
  <2>8. CASE s > 0 /\ chain' = [chain EXCEPT ![c].stuck[op] = @ - 1]
    <3>0. PICK m : m = [chain[c] EXCEPT !.stuck[op] = s - 1]
      OBVIOUS
    <3>1. chain' = [chain EXCEPT ![c] = m]
      BY <2>8, <3>0
    <3>2. /\ m \in SettledCounts /\ m.exited = chain[c].exited
          /\ \A p \in Operators : m.stuck[p] = IF p = op THEN s - 1 ELSE chain[c].stuck[p]
      BY <2>1, <2>5, <2>8, <3>0 DEF SettledCounts, Counts
    <3>3. Moved(m, e, s - 1)
      <4>1. \A p \in Operators : m.exited[p] = IF p = op THEN e ELSE chain[c].exited[p]
        BY <3>2
      <4> HIDE DEF e, s, d
      <4>2. QED
        BY <1>4, <2>5, <2>8, <3>2, <4>1
    <3> HIDE DEF Moved
    <3>4. QED
      BY <3>1, <3>3
  <2>9. CASE s > 0 /\ chain' = [[chain EXCEPT ![c].stuck[op] = @ - 1] EXCEPT ![c].exited[op] = @ + 1]
    <3>0. PICK f : f = [chain[c] EXCEPT !.stuck[op] = s - 1]
      OBVIOUS
    <3>1. /\ f \in SettledCounts /\ f.exited = chain[c].exited
          /\ \A p \in Operators : f.stuck[p] = IF p = op THEN s - 1 ELSE chain[c].stuck[p]
      BY <2>1, <2>5, <2>9, <3>0 DEF SettledCounts, Counts
    <3>2. PICK m : m = [f EXCEPT !.exited[op] = e + 1]
      OBVIOUS
    <3>3. f.exited[op] = e
      BY <3>1
    <3>4. chain' = [[chain EXCEPT ![c] = f] EXCEPT ![c].exited[op] = @ + 1]
      BY <2>9, <3>0
    <3>5. /\ m \in SettledCounts /\ m.stuck = f.stuck
          /\ \A p \in Operators : m.exited[p] = IF p = op THEN e + 1 ELSE f.exited[p]
      BY <2>5, <2>9, <3>1, <3>2 DEF SettledCounts, Counts
    <3>6. chain' = [chain EXCEPT ![c] = m]
      <4> DEFINE freed == [chain EXCEPT ![c] = f]
      <4>1. freed \in [Contracts -> SettledCounts] /\ freed[c] = f
        BY <1>3, <3>1
      <4>2. chain' = [freed EXCEPT ![c].exited[op] = @ + 1]
        BY <3>4
      <4>3. \A k \in Contracts : k # c => freed[k] = chain[k]
        BY <1>3
      <4> HIDE DEF freed
      <4>4. chain' = [freed EXCEPT ![c] = m]
        BY <3>2, <3>3, <4>1, <4>2
      <4>5. QED
        BY <1>3, <3>5, <4>1, <4>3, <4>4
    <3>7. Moved(m, e + 1, s - 1)
      <4>1. \A p \in Operators : /\ m.exited[p] = IF p = op THEN e + 1 ELSE chain[c].exited[p]
                                 /\ m.stuck[p] = IF p = op THEN s - 1 ELSE chain[c].stuck[p]
        BY <3>1, <3>5
      <4> HIDE DEF e, s, d
      <4>2. QED
        BY <1>4, <2>5, <2>9, <3>5, <4>1
    <3> HIDE DEF Moved
    <3>8. QED
      BY <3>6, <3>7
  <2> HIDE DEF Moved
  <2>10. QED
    BY <2>6, <2>7, <2>8, <2>9 DEF ChainMoves
<1>6. /\ chain' \in [Contracts -> SettledCounts]
      /\ \A k \in Contracts : \A p \in Operators :
           /\ chain'[k].exited[p] = IF k = c /\ p = op THEN n ELSE chain[k].exited[p]
           /\ chain'[k].stuck[p] = IF k = c /\ p = op THEN x ELSE chain[k].stuck[p]
  <2>1. chain' \in [Contracts -> SettledCounts]
        /\ \A k \in Contracts : chain'[k] = IF k = c THEN m ELSE chain[k]
    BY <1>3, <1>5
  <2>2. QED
    BY <1>5, <2>1
<1> HIDE DEF e, s, d
<1>7. ASSUME NEW k \in Contracts, NEW p \in Operators
      PROVE  /\ chain'[k].exited[p] + chain'[k].stuck[p] <= contracts[k].deposited[p]
             /\ chain[k].exited[p] <= chain'[k].exited[p]
  <2>1. /\ chain[k].exited[p] \in Nat /\ chain[k].stuck[p] \in Nat
        /\ chain[k].exited[p] + chain[k].stuck[p] <= contracts[k].deposited[p]
    BY <1>1, <1>3 DEF ChainInv, SettledCounts, Counts
  <2>2. CASE k = c /\ p = op
    <3>1. chain'[k].exited[p] = n /\ chain'[k].stuck[p] = x
      BY <1>6, <2>2
    <3>2. n \in Nat /\ x \in Nat /\ e <= n /\ n + x <= d
      BY <1>5
    <3>3. e = chain[k].exited[p] /\ d = contracts[k].deposited[p]
      BY <2>2 DEF e, d
    <3>4. QED
      BY <3>1, <3>2, <3>3
  <2>3. CASE ~(k = c /\ p = op)
    <3>1. chain'[k].exited[p] = chain[k].exited[p] /\ chain'[k].stuck[p] = chain[k].stuck[p]
      BY <1>6, <2>3
    <3>2. QED
      BY <2>1, <3>1
  <2>4. QED
    BY <2>2, <2>3
<1>8. ChainInv'
  <2>1. ASSUME NEW k \in Contracts, NEW p \in Operators
        PROVE  /\ gathered.truth[k].exited[p] <= chain'[k].exited[p]
               /\ contracts[k].exited[p] <= chain'[k].exited[p]
    <3>1. {gathered.truth[k].exited[p], contracts[k].exited[p], chain[k].exited[p], chain'[k].exited[p]}
            \subseteq Nat
      <4>1. {gathered.truth[k].exited, contracts[k].exited, chain[k].exited, chain'[k].exited}
              \subseteq [Operators -> Nat]
        <5>1. /\ gathered.truth[k] \in SettledCounts /\ chain[k] \in SettledCounts
              /\ chain'[k] \in SettledCounts /\ contracts[k] \in ModuleContract
          BY <1>1, <1>3, <1>6 DEF ChainInv
        <5>2. QED
          BY <5>1 DEF SettledCounts, ModuleContract, Counts
      <4>2. QED
        BY <4>1
    <3>2. gathered.truth[k].exited[p] <= chain[k].exited[p] /\ contracts[k].exited[p] <= chain[k].exited[p]
      BY <1>1 DEF ChainInv
    <3>3. QED
      BY <1>7, <3>1, <3>2
  <2>2. contracts' = contracts /\ gathered' = gathered
    BY <1>1 DEF routerVars
  <2>3. QED
    BY <1>1, <1>6, <1>7, <2>1, <2>2 DEF ChainInv
<1>9. ASSUME NEW id \in DOMAIN stakingModules
      PROVE  stakingModules[id].exitedValidatorsCount <= ExitedInTotal(chain, id)'
  <2> DEFINE k == stakingModules[id].contract
  <2>1. k \in Contracts /\ stakingModules[id] \in StakingModule
    BY <1>1, ModuleFacts DEF ModulesInv
  <2>2. chain[k].exited \in Counts /\ chain'[k].exited \in Counts
    BY <1>3, <1>6, <2>1 DEF SettledCounts
  <2>3. \A p \in Operators : chain[k].exited[p] <= chain'[k].exited[p]
    BY <1>7, <2>1
  <2>4. SumFunction(chain[k].exited) \in Nat /\ SumFunction(chain'[k].exited) \in Nat
        /\ SumFunction(chain[k].exited) <= SumFunction(chain'[k].exited)
    BY <2>2, <2>3, CountsAreSummed
  <2>5. stakingModules[id].exitedValidatorsCount <= SumFunction(chain[k].exited)
        /\ stakingModules[id].exitedValidatorsCount \in Nat
    BY <1>1, <2>1 DEF ModulesInv, ExitedInTotal, ContractOf, StakingModule
  <2>6. ExitedInTotal(chain, id)' = SumFunction(chain'[k].exited)
    BY <1>1 DEF ExitedInTotal, ContractOf, routerVars
  <2> HIDE DEF k
  <2>7. QED
    BY <2>4, <2>5, <2>6
<1>10. ModulesInv'
  <2>1. /\ stakingModules' = stakingModules /\ reported' = reported /\ depositable' = depositable
        /\ contracts' = contracts /\ withdrawalCredentials' = withdrawalCredentials
    BY <1>1 DEF routerVars
  <2>2. StakingRouterTypeOK' /\ ContractsAreDistinct'
    BY <1>1, <2>1 DEF ModulesInv, StakingRouterTypeOK, ContractsAreDistinct
  <2>3. \A id \in DOMAIN stakingModules' :
          /\ reported'[ContractOf(id)'] <= stakingModules'[id].exitedValidatorsCount
          /\ stakingModules'[id].stakingModuleFee + stakingModules'[id].treasuryFee <= TOTAL_BASIS_POINTS
    BY <1>1, <2>1 DEF ModulesInv, ContractOf
  <2>4. QED
    BY <1>1, <1>9, <2>1, <2>2, <2>3 DEF ModulesInv
<1>11. QED
  BY <1>2, <1>8, <1>10 DEF CountsInv

(***************************************************************************)
(* The totals of modules change to what they are, or are about to be       *)
(* told: the rest of a step that brings them.                              *)
(***************************************************************************)
LEMMA ModulesKept ==
  ASSUME ModulesInv, ModulesStay, reported' \in [Contracts -> Nat],
         \A id \in DOMAIN stakingModules :
           /\ stakingModules'[id].exitedValidatorsCount
                <= SumFunction(chain'[stakingModules[id].contract].exited)
           /\ reported'[stakingModules[id].contract] <= stakingModules'[id].exitedValidatorsCount
  PROVE  ModulesInv'
<1>1. /\ StakingRouterTypeOK' /\ ContractsAreDistinct'
      /\ \A id \in DOMAIN stakingModules : ContractOf(id)' = ContractOf(id)
      /\ \A id \in DOMAIN stakingModules :
           stakingModules'[id].stakingModuleFee + stakingModules'[id].treasuryFee <= TOTAL_BASIS_POINTS
  BY RouterStays
<1>2. depositable' \in Nat /\ DOMAIN stakingModules' = DOMAIN stakingModules
  BY DEF ModulesInv, ModulesStay
<1>3. \A id \in DOMAIN stakingModules : stakingModules'[id].contract = stakingModules[id].contract
  BY <1>1 DEF ContractOf
<1>4. QED
  BY <1>1, <1>2, <1>3 DEF ModulesInv, ExitedInTotal, ContractOf

LEMMA TotalsStay ==
  ASSUME CountsInv, TotalsInv, ModulesStay, GatheredStays,
         \A id \in DOMAIN stakingModules :
           /\ stakingModules'[id].exitedValidatorsCount >= ExitedInTotal(gathered.truth, id)
              \/ stakingModules'[id].exitedValidatorsCount = stakingModules[id].exitedValidatorsCount
           /\ ~gathered'.corrected =>
                /\ ~gathered.corrected
                /\ \/ stakingModules'[id].exitedValidatorsCount = ExitedInTotal(gathered.truth, id)
                   \/ stakingModules'[id].exitedValidatorsCount = stakingModules[id].exitedValidatorsCount
  PROVE  TotalsInv'
<1> DEFINE exited == gathered.payload[1]
<1>1. /\ gathered'.payload[1] = exited /\ gathered'.truth = gathered.truth
      /\ DOMAIN stakingModules' = DOMAIN stakingModules
  BY DEF GatheredStays, ModulesStay
<1>2. \A id \in DOMAIN stakingModules : stakingModules'[id].contract = stakingModules[id].contract
  BY DEF ModulesStay, OtherwiseSame
<1>3. \A id \in DOMAIN stakingModules : ExitedInTotal(gathered.truth, id)' = ExitedInTotal(gathered.truth, id)
  BY <1>1, <1>2 DEF ExitedInTotal, ContractOf
<1>4. \A id \in DOMAIN stakingModules : ExitedInTotal(gathered.truth, id) \in Nat
  <2>1. StakingRouterTypeOK
    BY DEF CountsInv, ModulesInv
  <2>2. ASSUME NEW id \in DOMAIN stakingModules PROVE ExitedInTotal(gathered.truth, id) \in Nat
    <3>1. stakingModules[id].contract \in Contracts
      BY <2>1, ModuleFacts
    <3>2. QED
      BY <3>1, TotalsOfModule DEF ExitedInTotal, ContractOf
  <2>3. QED
    BY <2>2
<1>5. /\ exited \in Seq(Nat \X Nat)
      /\ \A i \in DOMAIN exited :
           /\ exited[i][1] \in DOMAIN stakingModules
           /\ exited[i][2] = ExitedInTotal(gathered.truth, exited[i][1])
           /\ exited[i][2] # 0
      /\ StrictlyAscending([i \in DOMAIN exited |-> exited[i][1]])
      /\ \A id \in DOMAIN stakingModules :
           /\ \/ stakingModules[id].exitedValidatorsCount >= ExitedInTotal(gathered.truth, id)
              \/ Listed(exited, id)
           /\ ~gathered.corrected =>
                stakingModules[id].exitedValidatorsCount <= ExitedInTotal(gathered.truth, id)
  BY DEF TotalsInv, TrueTotals
<1>6. TrueTotals(gathered.payload[1])'
  <2>1. \A i \in DOMAIN exited :
          exited[i][2] = SumFunction(gathered'.truth[stakingModules'[exited[i][1]].contract].exited)
    BY <1>1, <1>2, <1>5 DEF ExitedInTotal, ContractOf
  <2> HIDE DEF exited
  <2>2. QED
    BY <1>1, <1>5, <2>1 DEF TrueTotals, ExitedInTotal, ContractOf
<1> HIDE DEF exited
<1>7. StrictlyAscending([i \in DOMAIN gathered.payload[1] |-> gathered.payload[1][i][1]])'
      /\ \A i \in DOMAIN gathered'.payload[1] : gathered'.payload[1][i][2] # 0
  BY <1>1, <1>5 DEF StrictlyAscending
<1>8. \A id \in DOMAIN stakingModules' :
        /\ \/ stakingModules'[id].exitedValidatorsCount >= ExitedInTotal(gathered.truth, id)'
           \/ Listed(gathered.payload[1], id)'
        /\ ~gathered'.corrected =>
             stakingModules'[id].exitedValidatorsCount <= ExitedInTotal(gathered.truth, id)'
  <2> SUFFICES ASSUME NEW id \in DOMAIN stakingModules
               PROVE  /\ \/ stakingModules'[id].exitedValidatorsCount >= ExitedInTotal(gathered.truth, id)'
                         \/ Listed(gathered.payload[1], id)'
                      /\ ~gathered'.corrected =>
                           stakingModules'[id].exitedValidatorsCount <= ExitedInTotal(gathered.truth, id)'
    BY <1>1
  <2>1. Listed(exited, id) => Listed(gathered.payload[1], id)'
    BY <1>1 DEF Listed
  <2>2. ExitedInTotal(gathered.truth, id)' = ExitedInTotal(gathered.truth, id)
        /\ ExitedInTotal(gathered.truth, id) \in Nat
    BY <1>3, <1>4
  <2>3. QED
    BY <1>5, <2>1, <2>2
<1>9. QED
  BY <1>6, <1>7, <1>8 DEF TotalsInv

(***************************************************************************)
(* The main data is processed.                                             *)
(***************************************************************************)
LEMMA MainDataFacts ==
  ASSUME ReportsInv, AccountingMainData
  PROVE  LET data == Report.hash
         IN  /\ UNCHANGED <<now, contracts, withdrawalCredentials, depositable, chain, gathered>>
             /\ InTime /\ Report' = Report /\ Processing' = Report.refSlot
             /\ Report.refSlot # Processing
             /\ MainDataIsAccepted(data.payload)
             /\ stakingModules' = WithTotals(data.payload[1])
             /\ extraData' = [refSlot |-> Report.refSlot, dataFormat |-> data.payload[2],
                              submitted |-> FALSE, dataHash |-> data.payload[3],
                              itemsCount |-> data.payload[4], itemsProcessed |-> 0]
             /\ reported' = IF data.payload = gathered.payload
                            THEN [c \in Contracts |-> SumFunction(gathered.truth[c].exited)]
                            ELSE reported
<1> DEFINE data == Report.hash
           o == accountingOracle
<1>1. /\ SubmitMainData(data) /\ data # ZeroHash
      /\ UNCHANGED <<securityVars, chain, gathered>>
      /\ reported' = IF data.payload = gathered.payload
                     THEN [c \in Contracts |-> SumFunction(gathered.truth[c].exited)]
                     ELSE reported
  BY DEF AccountingMainData, Report
<1>2. /\ DOMAIN oracle = Oracles /\ o \in Oracles
      /\ DOMAIN oracle[o] = DOMAIN Initialized(consensus, 1, 0)
  BY AccountingOracleAssumption DEF ReportsInv, PhasesInv, WellFormed
<1>3. /\ data.refSlot = Report.refSlot
      /\ now <= Report.processingDeadlineTime /\ Processing # Report.refSlot
      /\ oracle' = [oracle EXCEPT ![o].lastProcessingRefSlot = Report.refSlot]
      /\ UNCHANGED now
      /\ MainDataIsAccepted(data.payload)
      /\ UpdateExitedValidatorsCountByStakingModule(data.payload[1])
      /\ extraData' = [refSlot |-> data.refSlot, dataFormat |-> data.payload[2],
                       submitted |-> FALSE, dataHash |-> data.payload[3],
                       itemsCount |-> data.payload[4], itemsProcessed |-> 0]
      /\ UNCHANGED contracts
  BY <1>1 DEF SubmitMainData, SubmitReportData, CheckConsensusData, StartProcessing, Report, Processing
<1>4. stakingModules' = WithTotals(data.payload[1]) /\ UNCHANGED withdrawalCredentials
  BY <1>3 DEF UpdateExitedValidatorsCountByStakingModule, WithTotals
<1>5. Report' = Report /\ Processing' = Report.refSlot
  BY <1>2, <1>3 DEF Report, Processing, Initialized
<1>6. UNCHANGED depositable
  BY <1>1 DEF securityVars, lidoVars
<1>7. InTime
  BY <1>1, <1>3 DEF InTime
<1>8. QED
  BY <1>1, <1>3, <1>4, <1>5, <1>6, <1>7

LEMMA TakenStays ==
  ASSUME ModulesInv, NEW totals, NEW k, Taken(totals, k, stakingModules'),
         UNCHANGED <<contracts, withdrawalCredentials, depositable>>
  PROVE  ModulesStay
<1>1. StakingRouterTypeOK
  BY DEF ModulesInv
<1>2. PICK D : D = DOMAIN stakingModules
  OBVIOUS
<1>3. PICK n \in Nat : D = 1..n
  BY <1>1, <1>2, ModuleFacts
<1>4. stakingModules' \in [1..n -> StakingModule]
        /\ \A id \in DOMAIN stakingModules : OtherwiseSame(stakingModules'[id], stakingModules[id])
  BY <1>2, <1>3 DEF Taken, Modules
<1>5. stakingModules' \in Seq(StakingModule) /\ DOMAIN stakingModules' = DOMAIN stakingModules
  BY <1>2, <1>3, <1>4
<1>6. contracts' \in [Contracts -> ModuleContract]
  BY <1>1 DEF StakingRouterTypeOK
<1>7. QED
  BY <1>4, <1>5, <1>6 DEF ModulesStay

LEMMA MainDataKeepsReports ==
  ASSUME ReportsInv, AccountingMainData
  PROVE  CountsInv' /\ TimesInv' /\ TotalsInv' /\ ExtraDataInv'
<1> DEFINE payload == Report.hash.payload
           g == gathered.refSlot
<1>1. /\ CountsInv /\ TimesInv /\ TotalsInv /\ ExtraDataInv /\ PhasesInv /\ ModulesInv /\ ChainInv
      /\ StakingRouterTypeOK
  BY DEF ReportsInv, CountsInv, ModulesInv
<1>2. /\ UNCHANGED <<now, contracts, withdrawalCredentials, depositable, chain, gathered>>
      /\ InTime /\ Report' = Report /\ Processing' = Report.refSlot
      /\ Report.refSlot # Processing
      /\ stakingModules' = WithTotals(payload[1])
      /\ extraData' = [refSlot |-> Report.refSlot, dataFormat |-> payload[2],
                       submitted |-> FALSE, dataHash |-> payload[3],
                       itemsCount |-> payload[4], itemsProcessed |-> 0]
      /\ reported' = IF payload = gathered.payload
                     THEN [c \in Contracts |-> SumFunction(gathered.truth[c].exited)]
                     ELSE reported
  BY MainDataFacts
<1>3. Report.refSlot = g /\ payload \in {gathered.payload} \union Malformed
  BY <1>1, <1>2 DEF TimesInv
<1>4. payload # gathered.payload =>
        payload[1] = <<>> /\ payload[2] = EXTRA_DATA_FORMAT_LIST /\ Len(payload[3]) # payload[4]
  BY <1>3, CommitteesAssumption
<1>5. ChainInv'
  BY <1>1, <1>2 DEF ChainInv
<1>6. TimesInv'
  BY <1>1, <1>2, <1>3 DEF TimesInv, InTime
<1>7. ASSUME NEW id \in DOMAIN stakingModules
      PROVE  /\ ExitedInTotal(gathered.truth, id) \in Nat /\ ExitedInTotal(chain, id) \in Nat
             /\ ExitedInTotal(gathered.truth, id) <= ExitedInTotal(chain, id)
             /\ ExitedInTotal(gathered.truth, id)
                  = SumFunction(gathered.truth[stakingModules[id].contract].exited)
             /\ stakingModules[id].exitedValidatorsCount <= ExitedInTotal(chain, id)
             /\ stakingModules[id].exitedValidatorsCount \in Nat
  <2>1. stakingModules[id].contract \in Contracts /\ stakingModules[id] \in StakingModule
    BY <1>1, ModuleFacts
  <2>2. QED
    BY <1>1, <2>1, TotalsOfModule DEF ExitedInTotal, ContractOf, ModulesInv, StakingModule
<1>8. ModulesStay
      /\ \A id \in DOMAIN stakingModules :
           \/ stakingModules'[id].exitedValidatorsCount = stakingModules[id].exitedValidatorsCount
              /\ (payload = gathered.payload =>
                    stakingModules[id].exitedValidatorsCount >= ExitedInTotal(gathered.truth, id))
           \/ payload = gathered.payload
              /\ stakingModules'[id].exitedValidatorsCount = ExitedInTotal(gathered.truth, id)
  <2>1. Totals(payload[1])
    <3>1. CASE payload = gathered.payload
      BY <1>1, <3>1 DEF TotalsInv, TrueTotals, Totals
    <3>2. CASE payload # gathered.payload
      <4>1. PICK e : e = payload[1]
        OBVIOUS
      <4>2. e = <<>>
        BY <1>4, <3>2, <4>1
      <4>3. Totals(e)
        BY <4>2 DEF Totals
      <4>4. QED
        BY <4>1, <4>3
    <3>3. QED
      BY <3>1, <3>2
  <2>2. Taken(payload[1], Len(payload[1]), stakingModules')
    BY <1>1, <1>2, <2>1, TotalsAreTaken
  <2>3. ModulesStay
    BY <1>1, <1>2, <2>2, TakenStays
  <2>4. ASSUME NEW id \in DOMAIN stakingModules
        PROVE  \/ stakingModules'[id].exitedValidatorsCount = stakingModules[id].exitedValidatorsCount
                  /\ (payload = gathered.payload =>
                        stakingModules[id].exitedValidatorsCount >= ExitedInTotal(gathered.truth, id))
               \/ payload = gathered.payload
                  /\ stakingModules'[id].exitedValidatorsCount = ExitedInTotal(gathered.truth, id)
    <3>1. DOMAIN payload[1] = 1..Len(payload[1])
      BY <2>1, LenProperties DEF Totals
    <3>2. \/ stakingModules'[id].exitedValidatorsCount = stakingModules[id].exitedValidatorsCount
             /\ ~Listed(payload[1], id)
          \/ ListedTotal(payload[1], id, stakingModules'[id].exitedValidatorsCount)
      BY <2>2, <3>1 DEF Taken, Listed
    <3>3. CASE payload = gathered.payload
      BY <1>1, <3>2, <3>3 DEF TotalsInv, TrueTotals, ListedTotal
    <3>4. CASE payload # gathered.payload
      <4>1. ~ListedTotal(payload[1], id, stakingModules'[id].exitedValidatorsCount)
        BY <1>4, <3>4 DEF ListedTotal
      <4>2. QED
        BY <3>2, <3>4, <4>1
    <3>5. QED
      BY <3>3, <3>4
  <2>5. QED
    BY <2>3, <2>4
<1>9. reported' \in [Contracts -> Nat]
  <2>1. \A c \in Contracts : SumFunction(gathered.truth[c].exited) \in Nat
    BY <1>1, TotalsOfModule
  <2>2. QED
    BY <1>1, <1>2, <2>1 DEF ModulesInv
<1>10. ASSUME NEW id \in DOMAIN stakingModules
       PROVE  /\ stakingModules'[id].exitedValidatorsCount
                   <= SumFunction(chain'[stakingModules[id].contract].exited)
              /\ reported'[stakingModules[id].contract] <= stakingModules'[id].exitedValidatorsCount
  <2>1. ExitedInTotal(chain, id) = SumFunction(chain'[stakingModules[id].contract].exited)
    BY <1>2 DEF ExitedInTotal, ContractOf
  <2>2. stakingModules[id].contract \in Contracts
    BY <1>1, ModuleFacts
  <2>3. CASE payload = gathered.payload
    <3>1. reported'[stakingModules[id].contract] = ExitedInTotal(gathered.truth, id)
      BY <1>2, <1>7, <2>2, <2>3
    <3>2. QED
      BY <1>7, <1>8, <2>1, <2>3, <3>1
  <2>4. CASE payload # gathered.payload
    <3>1. /\ reported'[stakingModules[id].contract] = reported[stakingModules[id].contract]
          /\ reported[stakingModules[id].contract] <= stakingModules[id].exitedValidatorsCount
      BY <1>1, <1>2, <2>4 DEF ModulesInv, ContractOf
    <3>2. QED
      BY <1>7, <1>8, <2>1, <2>4, <3>1
  <2>5. QED
    BY <2>3, <2>4
<1>11. ModulesInv'
  BY <1>1, <1>8, <1>9, <1>10, ModulesKept
<1>12. GatheredStays /\ gathered' = gathered
  BY <1>2 DEF GatheredStays
<1>13. TotalsInv'
  <2>1. \A id \in DOMAIN stakingModules :
           /\ stakingModules'[id].exitedValidatorsCount >= ExitedInTotal(gathered.truth, id)
              \/ stakingModules'[id].exitedValidatorsCount = stakingModules[id].exitedValidatorsCount
           /\ ~gathered'.corrected =>
                /\ ~gathered.corrected
                /\ \/ stakingModules'[id].exitedValidatorsCount = ExitedInTotal(gathered.truth, id)
                   \/ stakingModules'[id].exitedValidatorsCount = stakingModules[id].exitedValidatorsCount
    BY <1>7, <1>8, <1>12
  <2>2. QED
    BY <1>1, <1>8, <1>12, <2>1, TotalsStay
<1>14. ~ExtraDataDelivered
  BY <1>1, <1>2, <1>3 DEF ExtraDataDelivered, PhasesInv, SlotsAreOrdered
<1>15. /\ TrueItems(GatheredItems)'
       /\ DescribesItems(gathered.payload[2], gathered.payload[3], gathered.payload[4], GatheredItems)'
       /\ Describe(GatheredItems, gathered.truth) => Describe(GatheredItems, gathered.truth)'
  BY <1>1, <1>2, <1>8, <1>12, ItemsStay
<1>16. ~gathered'.corrected =>
         /\ Describe(GatheredItems, gathered.truth)'
         /\ \A c \in Contracts : \A op \in Operators :
              contracts'[c].exited[op] <= gathered'.truth[c].exited[op]
  BY <1>1, <1>2, <1>12, <1>14, <1>15 DEF ExtraDataInv
<1>17. \/ /\ extraData'.dataFormat = gathered'.payload[2]
          /\ extraData'.dataHash = gathered'.payload[3]
          /\ extraData'.itemsCount = gathered'.payload[4]
       \/ /\ extraData'.dataFormat = EXTRA_DATA_FORMAT_LIST
          /\ Len(extraData'.dataHash) # extraData'.itemsCount
  BY <1>2, <1>4, <1>12
<1>18. ExtraDataInv'
  BY <1>15, <1>16, <1>17 DEF ExtraDataInv
<1>19. QED
  BY <1>5, <1>6, <1>11, <1>13, <1>18 DEF CountsInv

(***************************************************************************)
(* The extra data is processed, and a module whose exits are complete is   *)
(* told so.                                                                *)
(***************************************************************************)
LEMMA FinishedCounts ==
  ASSUME NEW cs \in [Contracts -> ModuleContract], NEW failing, NEW r, r = ReportingFinished(cs, failing)
  PROVE  /\ r \in [Contracts -> ModuleContract]
         /\ \A c \in Contracts :
              \/ r[c].settled = cs[c].settled
              \/ /\ c \in RegisteredContracts
                 /\ r[c].settled = [exited |-> cs[c].exited, stuck |-> cs[c].stuck]
<1>1. ASSUME NEW m \in ModuleContract, NEW n, n = OnExitedAndStuckValidatorsCountsUpdated(m)
      PROVE  /\ n \in ModuleContract
             /\ n.settled = [exited |-> m.exited, stuck |-> m.stuck]
  BY <1>1 DEF OnExitedAndStuckValidatorsCountsUpdated, ModuleContract, SettledCounts
<1>2. ASSUME NEW c \in Contracts
      PROVE  \/ r[c] = cs[c]
             \/ c \in RegisteredContracts /\ r[c] = OnExitedAndStuckValidatorsCountsUpdated(cs[c])
  BY DEF ReportingFinished, RegisteredContracts
<1>3. DOMAIN r = Contracts /\ r = [c \in Contracts |-> r[c]]
  BY DEF ReportingFinished
<1>4. \A c \in Contracts : r[c] \in ModuleContract
  BY <1>1, <1>2
<1>5. r \in [Contracts -> ModuleContract]
  BY <1>3, <1>4
<1>6. QED
  BY <1>1, <1>2, <1>5

LEMMA FinishedAlone ==
  ASSUME NEW cs \in [Contracts -> ModuleContract], NEW failing, NEW r, r = ReportingFinished(cs, failing),
         NEW c \in Contracts
  PROVE  r[c].deposited = cs[c].deposited /\ r[c].exited = cs[c].exited
<1>1. ASSUME NEW m \in ModuleContract, NEW n, n = OnExitedAndStuckValidatorsCountsUpdated(m)
      PROVE  n.deposited = m.deposited /\ n.exited = m.exited
  BY <1>1 DEF OnExitedAndStuckValidatorsCountsUpdated, ModuleContract, SettledCounts
<1>2. \/ r[c] = cs[c]
      \/ r[c] = OnExitedAndStuckValidatorsCountsUpdated(cs[c])
  BY DEF ReportingFinished
<1>3. QED
  BY <1>1, <1>2

Brought(cs) ==
  /\ cs \in [Contracts -> ModuleContract]
  /\ \A c \in Contracts : cs[c].deposited = contracts[c].deposited /\ cs[c].settled = contracts[c].settled
  /\ \A c \in Contracts : \A type \in 1..2 : \A op \in Operators :
       KindOf(cs[c], type)[op] \in {KindOf(contracts[c], type)[op], KindOf(gathered.truth[c], type)[op]}
  /\ ~gathered.corrected => \A id \in DOMAIN stakingModules : \A type \in 1..2 : \A op \in Operators :
       KindOf(cs[ContractOf(id)], type)[op] = KindOf(gathered.truth[ContractOf(id)], type)[op]

LEMMA NothingToBring ==
  ASSUME ReportsInv, GatheredItems = <<>>, ~ExtraDataDelivered
  PROVE  Brought(contracts)
<1>1. StakingRouterTypeOK /\ ExtraDataInv /\ ChainInv
  BY DEF ReportsInv, CountsInv, ModulesInv
<1>2. contracts \in [Contracts -> ModuleContract]
  BY <1>1 DEF StakingRouterTypeOK
<1>3. ASSUME ~gathered.corrected, NEW id \in DOMAIN stakingModules, NEW type \in 1..2
      PROVE  KindOf(contracts[ContractOf(id)], type) = KindOf(gathered.truth[ContractOf(id)], type)
  <2>1. Describe(GatheredItems, gathered.truth)
    BY <1>1, <1>3 DEF ExtraDataInv
  <2>2. ~Wrong(type, gathered.truth, id)
    BY <2>1 DEF Describe
  <2>3. QED
    BY <2>2 DEF Wrong
<1>4. QED
  BY <1>2, <1>3 DEF Brought

LEMMA ItemsBring ==
  ASSUME ReportsInv, NEW items, items = GatheredItems, ~ExtraDataDelivered,
         NEW result, result = ProcessExtraDataItems(items), ~result.reverted
  PROVE  Brought(result.contracts)
<1> DEFINE truth == gathered.truth
           cs == result.contracts
<1>1. StakingRouterTypeOK /\ ExtraDataInv /\ truth \in [Contracts -> SettledCounts]
  BY DEF ReportsInv, CountsInv, ModulesInv, ChainInv
<1>2. items \in Seq(Item) /\ \A i \in DOMAIN items : TrueItem(items[i], truth)
  BY <1>1 DEF ExtraDataInv, TrueItems
<1>3. result \in ItemState /\ Processed(truth, items, Len(items), result)
  BY <1>1, <1>2, ItemsAreProcessed
<1>4. cs \in [Contracts -> ModuleContract]
  BY <1>3 DEF ItemState
<1>5. /\ \A c \in Contracts : cs[c].deposited = contracts[c].deposited /\ cs[c].settled = contracts[c].settled
      /\ \A c \in Contracts : \A type \in 1..2 : \A op \in Operators :
           KindOf(cs[c], type)[op] \in {KindOf(contracts[c], type)[op], KindOf(truth[c], type)[op]}
  BY <1>3 DEF Processed, CountsOf
<1>6. DOMAIN items = 1..Len(items)
  BY <1>2, LenProperties
<1>7. \A i \in DOMAIN items : \A j \in DOMAIN items[i][3] :
        KindOf(cs[ContractOf(items[i][2])], items[i][1])[items[i][3][j][1]]
          = KindOf(truth[ContractOf(items[i][2])], items[i][1])[items[i][3][j][1]]
  BY <1>3, <1>6 DEF Processed, CountsOf
<1> HIDE DEF cs, truth
<1>8. ASSUME ~gathered.corrected, NEW id \in DOMAIN stakingModules, NEW type \in 1..2, NEW op \in Operators
      PROVE  KindOf(cs[ContractOf(id)], type)[op] = KindOf(truth[ContractOf(id)], type)[op]
  <2> DEFINE c == ContractOf(id)
  <2>1. c \in Contracts
    BY <1>1, ModuleFacts DEF ContractOf
  <2>2. CASE KindOf(truth[c], type)[op] = KindOf(contracts[c], type)[op]
    BY <1>5, <2>1, <2>2
  <2>3. CASE KindOf(truth[c], type)[op] # KindOf(contracts[c], type)[op]
    <3>1. Describe(items, truth)
      BY <1>1, <1>8 DEF ExtraDataInv, truth
    <3>2. Wrong(type, truth, id)
      BY <2>3 DEF Wrong
    <3>3. PICK i \in DOMAIN items : items[i][1] = type /\ items[i][2] = id
      BY <3>1, <3>2 DEF Describe
    <3>4. WholeItem(items[i], truth)
      BY <3>1 DEF Describe
    <3>5. PICK j \in DOMAIN items[i][3] : items[i][3][j][1] = op
      BY <2>3, <3>3, <3>4 DEF WholeItem
    <3>6. QED
      BY <1>7, <3>3, <3>5
  <2>4. QED
    BY <2>2, <2>3
<1>9. QED
  BY <1>4, <1>5, <1>8 DEF Brought, cs, truth

LEMMA ExtraDataFacts ==
  ASSUME ReportsInv, AccountingExtraData
  PROVE  /\ UNCHANGED <<now, oracle, stakingModules, withdrawalCredentials, depositable,
                        chain, gathered, reported>>
         /\ extraData.refSlot = gathered.refSlot
         /\ extraData'.refSlot = extraData.refSlot /\ extraData'.submitted
         /\ extraData'.dataFormat = extraData.dataFormat /\ extraData'.dataHash = extraData.dataHash
         /\ extraData'.itemsCount = extraData.itemsCount
         /\ \E cs, failing : Brought(cs) /\ contracts' = ReportingFinished(cs, failing)
<1>1. /\ PhasesInv /\ TimesInv /\ ExtraDataInv /\ DOMAIN extraData = DOMAIN NoExtraData
  BY DEF ReportsInv, PhasesInv, WellFormed
<1>2. UNCHANGED <<depositable, chain, gathered, reported>>
  BY DEF AccountingExtraData, securityVars, lidoVars, worldVars
<1>3. ASSUME NEW format, CanSubmitExtraData(format)
      PROVE  /\ extraData.refSlot = gathered.refSlot /\ gathered.refSlot # 0
             /\ extraData.dataFormat = format
             /\ \/ /\ format = gathered.payload[2]
                   /\ extraData.dataHash = gathered.payload[3]
                   /\ extraData.itemsCount = gathered.payload[4]
                \/ /\ format = EXTRA_DATA_FORMAT_LIST
                   /\ Len(extraData.dataHash) # extraData.itemsCount
  <2>1. /\ Report.hash # ZeroHash /\ extraData.refSlot = Report.refSlot
        /\ now <= Report.processingDeadlineTime /\ extraData.dataFormat = format
    BY <1>3 DEF CanSubmitExtraData, MainDataIsProcessed, NotTooLate, Report
  <2>2. Report.refSlot = gathered.refSlot /\ Report.refSlot # 0
    BY <1>1, <2>1 DEF TimesInv, InTime
  <2>3. QED
    BY <1>1, <2>1, <2>2 DEF ExtraDataInv
<1>4. ASSUME NEW failing, SubmitReportExtraDataEmpty(failing)
      PROVE  /\ UNCHANGED <<now, oracle, stakingModules, withdrawalCredentials>>
             /\ extraData.refSlot = gathered.refSlot
             /\ extraData'.refSlot = extraData.refSlot /\ extraData'.submitted
             /\ extraData'.dataFormat = extraData.dataFormat /\ extraData'.dataHash = extraData.dataHash
             /\ extraData'.itemsCount = extraData.itemsCount
             /\ \E cs : Brought(cs) /\ contracts' = ReportingFinished(cs, failing)
  <2>1. /\ UNCHANGED <<now, oracle, stakingModules, withdrawalCredentials>>
        /\ CanSubmitExtraData(EXTRA_DATA_FORMAT_EMPTY) /\ ~extraData.submitted
        /\ contracts' = ReportingFinished(contracts, failing)
        /\ extraData' = [extraData EXCEPT !.submitted = TRUE]
    BY <1>4 DEF SubmitReportExtraDataEmpty, baseOracleVars
  <2>2. extraData.refSlot = gathered.refSlot /\ gathered.payload[2] # EXTRA_DATA_FORMAT_LIST
    BY <1>3, <2>1 DEF EXTRA_DATA_FORMAT_LIST, EXTRA_DATA_FORMAT_EMPTY
  <2>3. GatheredItems = <<>> /\ ~ExtraDataDelivered
    BY <2>1, <2>2 DEF GatheredItems, ExtraDataDelivered
  <2>4. Brought(contracts)
    BY <2>3, NothingToBring
  <2>5. extraData'.refSlot = extraData.refSlot /\ extraData'.submitted
        /\ extraData'.dataFormat = extraData.dataFormat /\ extraData'.dataHash = extraData.dataHash
        /\ extraData'.itemsCount = extraData.itemsCount
    BY <1>1, <2>1 DEF NoExtraData
  <2>6. QED
    BY <2>1, <2>2, <2>4, <2>5
<1>5. ASSUME NEW failing, NEW items, SubmitReportExtraDataList(items, failing)
      PROVE  /\ UNCHANGED <<now, oracle, stakingModules, withdrawalCredentials>>
             /\ extraData.refSlot = gathered.refSlot
             /\ extraData'.refSlot = extraData.refSlot /\ extraData'.submitted
             /\ extraData'.dataFormat = extraData.dataFormat /\ extraData'.dataHash = extraData.dataHash
             /\ extraData'.itemsCount = extraData.itemsCount
             /\ \E cs : Brought(cs) /\ contracts' = ReportingFinished(cs, failing)
  <2> DEFINE result == ProcessExtraDataItems(items)
  <2>1. /\ UNCHANGED <<now, oracle, stakingModules, withdrawalCredentials>>
        /\ CanSubmitExtraData(EXTRA_DATA_FORMAT_LIST) /\ extraData.itemsProcessed = 0
        /\ items = extraData.dataHash /\ ~result.reverted /\ Len(items) = extraData.itemsCount
        /\ contracts' = ReportingFinished(result.contracts, failing)
        /\ extraData' = [extraData EXCEPT !.submitted = TRUE, !.itemsProcessed = Len(items)]
    BY <1>5 DEF SubmitReportExtraDataList, baseOracleVars
  <2> HIDE DEF result
  <2>2. /\ extraData.refSlot = gathered.refSlot /\ extraData.dataFormat = EXTRA_DATA_FORMAT_LIST
        /\ gathered.payload[2] = EXTRA_DATA_FORMAT_LIST /\ items = gathered.payload[3]
    BY <1>3, <2>1
  <2>3. items = GatheredItems /\ ~ExtraDataDelivered
    BY <1>1, <2>1, <2>2 DEF GatheredItems, ExtraDataDelivered, PhasesInv, ExtraDataIsMarked
  <2>4. Brought(result.contracts)
    BY <2>1, <2>3, ItemsBring DEF result
  <2>5. extraData'.refSlot = extraData.refSlot /\ extraData'.submitted
        /\ extraData'.dataFormat = extraData.dataFormat /\ extraData'.dataHash = extraData.dataHash
        /\ extraData'.itemsCount = extraData.itemsCount
    BY <1>1, <2>1 DEF NoExtraData
  <2>6. QED
    BY <2>1, <2>2, <2>4, <2>5
<1>6. PICK failing \in SUBSET RegisteredContracts :
        \/ SubmitReportExtraDataEmpty(failing)
        \/ \E items : SubmitReportExtraDataList(items, failing)
  BY DEF AccountingExtraData
<1>7. CASE SubmitReportExtraDataEmpty(failing)
  BY <1>2, <1>4, <1>7
<1>8. CASE \E items : SubmitReportExtraDataList(items, failing)
  BY <1>2, <1>5, <1>8
<1>9. QED
  BY <1>6, <1>7, <1>8

LEMMA KindsByName == \A m : KindOf(m, 1) = m["stuck"] /\ KindOf(m, 2) = m["exited"]
BY DEF KindOf, ItemTypes

LEMMA ExtraDataKeepsReports ==
  ASSUME ReportsInv, AccountingExtraData
  PROVE  CountsInv' /\ TimesInv' /\ TotalsInv' /\ ExtraDataInv'
<1>1. /\ CountsInv /\ TimesInv /\ TotalsInv /\ ExtraDataInv /\ PhasesInv /\ ModulesInv /\ ChainInv
      /\ StakingRouterTypeOK
  BY DEF ReportsInv, CountsInv, ModulesInv
<1>2. /\ UNCHANGED <<now, oracle, stakingModules, withdrawalCredentials, depositable,
                     chain, gathered, reported>>
      /\ extraData.refSlot = gathered.refSlot
      /\ extraData'.refSlot = extraData.refSlot /\ extraData'.submitted
      /\ extraData'.dataFormat = extraData.dataFormat /\ extraData'.dataHash = extraData.dataHash
      /\ extraData'.itemsCount = extraData.itemsCount
  BY ExtraDataFacts
<1>3. PICK cs, failing : Brought(cs) /\ contracts' = ReportingFinished(cs, failing)
  BY ExtraDataFacts
<1>4. cs \in [Contracts -> ModuleContract]
  BY <1>3 DEF Brought
<1>5. /\ contracts' \in [Contracts -> ModuleContract]
      /\ \A c \in Contracts : contracts'[c].deposited = cs[c].deposited /\ contracts'[c].exited = cs[c].exited
  <2>1. contracts' \in [Contracts -> ModuleContract]
    BY <1>3, <1>4, FinishedCounts
  <2>2. ASSUME NEW c \in Contracts
        PROVE  contracts'[c].deposited = cs[c].deposited /\ contracts'[c].exited = cs[c].exited
    BY <1>3, <1>4, FinishedAlone
  <2>3. QED
    BY <2>1, <2>2
<1>6. ASSUME NEW c \in Contracts, NEW op \in Operators
      PROVE  /\ contracts'[c].deposited = contracts[c].deposited
             /\ contracts'[c].exited[op] \in {contracts[c].exited[op], gathered.truth[c].exited[op]}
             /\ contracts'[c].exited[op] <= chain[c].exited[op]
  <2>1. KindOf(cs[c], 2)[op] \in {KindOf(contracts[c], 2)[op], KindOf(gathered.truth[c], 2)[op]}
        /\ cs[c].deposited = contracts[c].deposited
    <3>1. 2 \in 1..2
      OBVIOUS
    <3>2. QED
      BY <1>3, <3>1 DEF Brought
  <2>2. cs[c].exited[op] \in {contracts[c].exited[op], gathered.truth[c].exited[op]}
    BY <2>1, KindsByName
  <2>3. contracts[c].exited[op] <= chain[c].exited[op] /\ gathered.truth[c].exited[op] <= chain[c].exited[op]
    BY <1>1 DEF ChainInv
  <2>4. QED
    BY <1>5, <2>1, <2>2, <2>3
<1>7. ChainInv'
  BY <1>1, <1>2, <1>6 DEF ChainInv
<1>8. ModulesStay
  <2>1. stakingModules \in Seq(StakingModule)
    BY <1>1 DEF StakingRouterTypeOK
  <2>2. QED
    BY <1>2, <1>5, <2>1 DEF ModulesStay, OtherwiseSame
<1>9. ModulesInv'
  <2>1. reported' \in [Contracts -> Nat]
    BY <1>1, <1>2 DEF ModulesInv
  <2>2. \A id \in DOMAIN stakingModules :
          /\ stakingModules'[id].exitedValidatorsCount
               <= SumFunction(chain'[stakingModules[id].contract].exited)
          /\ reported'[stakingModules[id].contract] <= stakingModules'[id].exitedValidatorsCount
    BY <1>1, <1>2 DEF ModulesInv, ExitedInTotal, ContractOf
  <2>3. QED
    BY <1>1, <1>8, <2>1, <2>2, ModulesKept
<1>10. GatheredStays
  BY <1>2 DEF GatheredStays
<1>11. TotalsInv'
  <2>1. \A id \in DOMAIN stakingModules :
          stakingModules'[id].exitedValidatorsCount = stakingModules[id].exitedValidatorsCount
    BY <1>2
  <2>2. ~gathered'.corrected => ~gathered.corrected
    BY <1>2
  <2>3. QED
    BY <1>1, <1>8, <1>10, <2>1, <2>2, TotalsStay
<1>12. TimesInv'
  BY <1>1, <1>2, ReportKept DEF OracleUnchanged
<1>13. /\ TrueItems(GatheredItems)'
       /\ DescribesItems(gathered.payload[2], gathered.payload[3], gathered.payload[4], GatheredItems)'
  BY <1>1, <1>8, <1>10, ItemsStay
<1>14. ExtraDataDelivered'
  BY <1>2 DEF ExtraDataDelivered
<1>15. gathered'.refSlot # 0 /\ extraData'.refSlot = gathered'.refSlot =>
         \/ /\ extraData'.dataFormat = gathered'.payload[2]
            /\ extraData'.dataHash = gathered'.payload[3]
            /\ extraData'.itemsCount = gathered'.payload[4]
         \/ /\ extraData'.dataFormat = EXTRA_DATA_FORMAT_LIST
            /\ Len(extraData'.dataHash) # extraData'.itemsCount
  BY <1>1, <1>2 DEF ExtraDataInv
<1>16. ExtraDataInv'
  BY <1>13, <1>14, <1>15 DEF ExtraDataInv
<1>17. QED
  BY <1>7, <1>9, <1>11, <1>12, <1>16 DEF CountsInv

(***************************************************************************)
(* A module told that its counts are complete has those that were gathered *)
(* of it.                                                                  *)
(***************************************************************************)
ModulesHearTheTruth ==
  \A c \in Contracts :
    contracts'[c].settled # contracts[c].settled /\ ~gathered'.corrected
      => contracts'[c].settled = gathered.truth[c]

LEMMA ExtraDataTellsTheTruth ==
  ASSUME ReportsInv, AccountingExtraData
  PROVE  ModulesHearTheTruth
<1> SUFFICES ASSUME NEW c \in Contracts, contracts'[c].settled # contracts[c].settled, ~gathered'.corrected
             PROVE  contracts'[c].settled = gathered.truth[c]
  BY DEF ModulesHearTheTruth
<1>1. gathered' = gathered /\ gathered.truth \in [Contracts -> SettledCounts]
  BY ExtraDataFacts DEF ReportsInv, CountsInv, ChainInv
<1>2. PICK cs, failing : Brought(cs) /\ contracts' = ReportingFinished(cs, failing)
  BY ExtraDataFacts
<1>3. cs \in [Contracts -> ModuleContract] /\ cs[c].settled = contracts[c].settled
  BY <1>2 DEF Brought
<1>4. /\ c \in RegisteredContracts
      /\ contracts'[c].settled = [exited |-> cs[c].exited, stuck |-> cs[c].stuck]
  BY <1>2, <1>3, FinishedCounts
<1>5. PICK id \in DOMAIN stakingModules : ContractOf(id) = c
  BY <1>4 DEF RegisteredContracts, ContractOf
<1>6. \A type \in 1..2 : \A op \in Operators : KindOf(cs[c], type)[op] = KindOf(gathered.truth[c], type)[op]
  BY <1>1, <1>2, <1>5 DEF Brought
<1>7. \A op \in Operators : /\ cs[c].stuck[op] = gathered.truth[c].stuck[op]
                            /\ cs[c].exited[op] = gathered.truth[c].exited[op]
  <2>1. 1 \in 1..2 /\ 2 \in 1..2
    OBVIOUS
  <2>2. QED
    BY <1>6, <2>1, KindsByName
<1>8. PICK m, t : m = cs[c] /\ t = gathered.truth[c]
  OBVIOUS
<1>9. m \in ModuleContract /\ t \in SettledCounts
  BY <1>1, <1>3, <1>8
<1>10. {m.stuck, m.exited, t.stuck, t.exited} \subseteq [Operators -> Nat]
  BY <1>9 DEF ModuleContract, SettledCounts, Counts
<1>11. m.stuck = t.stuck /\ m.exited = t.exited
  BY <1>7, <1>8, <1>10
<1>12. t = [exited |-> t.exited, stuck |-> t.stuck]
  BY <1>9 DEF SettledCounts
<1>13. QED
  BY <1>4, <1>8, <1>11, <1>12

(***************************************************************************)
(* The DAO corrects counts.                                                *)
(***************************************************************************)
LEMMA CorrectedModule ==
  ASSUME NEW m \in ModuleContract, NEW op \in Operators, NEW exits \in Nat, NEW stuck \in Nat,
         NEW updated, updated = [WithExited(WithStuck(m, op, stuck), op, exits) EXCEPT !.nonce = @ + 1],
         NEW n, n \in {updated, OnExitedAndStuckValidatorsCountsUpdated(updated)}
  PROVE  /\ n \in ModuleContract /\ n.deposited = m.deposited
         /\ \A p \in Operators : n.exited[p] = IF p = op THEN exits ELSE m.exited[p]
<1>1. PICK a : a = WithStuck(m, op, stuck)
  OBVIOUS
<1>2. PICK b : b = WithExited(a, op, exits)
  OBVIOUS
<1>3. a \in ModuleContract /\ a.deposited = m.deposited /\ a.exited = m.exited
  BY <1>1, StuckTold
<1>4. b \in ModuleContract /\ b.deposited = a.deposited /\ b.exited = [a.exited EXCEPT ![op] = exits]
  <2>1. PICK k : k = [a.exited EXCEPT ![op] = exits]
    OBVIOUS
  <2>2. k \in Counts
    BY <1>3, <2>1 DEF ModuleContract, Counts
  <2>3. b = [a EXCEPT !.exited = k]
    BY <1>2, <2>1 DEF WithExited
  <2>4. QED
    BY <1>3, <2>1, <2>2, <2>3 DEF ModuleContract
<1>5. updated = [b EXCEPT !.nonce = @ + 1]
  BY <1>1, <1>2
<1>6. updated \in ModuleContract /\ updated.deposited = b.deposited /\ updated.exited = b.exited
  <2>1. PICK k : k = b.nonce + 1
    OBVIOUS
  <2>2. k \in Nat
    BY <1>4, <2>1 DEF ModuleContract
  <2>3. PICK u : u = [b EXCEPT !.nonce = k]
    OBVIOUS
  <2>4. u \in ModuleContract /\ u.deposited = b.deposited /\ u.exited = b.exited
    BY ONLY <1>4, <2>2, <2>3 DEF ModuleContract
  <2>5. QED
    BY <1>5, <2>1, <2>3, <2>4
<1>7. n \in ModuleContract /\ n.deposited = updated.deposited /\ n.exited = updated.exited
  <2>1. CASE n = updated
    BY <1>6, <2>1
  <2>2. CASE n = OnExitedAndStuckValidatorsCountsUpdated(updated)
    <3>1. PICK k : k = [exited |-> updated.exited, stuck |-> updated.stuck]
      OBVIOUS
    <3>2. k \in SettledCounts
      BY <1>6, <3>1 DEF ModuleContract, SettledCounts
    <3>3. n = [updated EXCEPT !.settled = k]
      BY <2>2, <3>1 DEF OnExitedAndStuckValidatorsCountsUpdated
    <3>4. QED
      BY <1>6, <3>2, <3>3 DEF ModuleContract
  <2>3. QED
    BY <2>1, <2>2
<1>8. \A p \in Operators : n.exited[p] = IF p = op THEN exits ELSE m.exited[p]
  <2>1. m.exited \in [Operators -> Nat]
    BY DEF ModuleContract, Counts
  <2>2. n.exited = [m.exited EXCEPT ![op] = exits]
    <3> HIDE DEF ModuleContract
    <3> QED BY <1>3, <1>4, <1>6, <1>7, Zenon
  <2>3. QED
    BY <2>1, <2>2
<1>9. QED
  BY <1>3, <1>4, <1>6, <1>7, <1>8

LEMMA CorrectionFacts ==
  ASSUME ReportsInv, NEW id \in DOMAIN stakingModules, NEW op \in Operators, NEW trigger \in BOOLEAN,
         DaoCorrects(id, op, trigger)
  PROVE  /\ UNCHANGED <<now, oracle, extraData, withdrawalCredentials, depositable, chain, reported>>
         /\ gathered' = [gathered EXCEPT !.corrected = TRUE]
         /\ stakingModules' = [stakingModules EXCEPT ![id].exitedValidatorsCount =
                                 SumFunction(chain[stakingModules[id].contract].exited)]
         /\ \E n \in ModuleContract :
              /\ contracts' = [contracts EXCEPT ![stakingModules[id].contract] = n]
              /\ n.deposited = contracts[stakingModules[id].contract].deposited
              /\ \A p \in Operators :
                   n.exited[p] = IF p = op THEN chain[stakingModules[id].contract].exited[op]
                                 ELSE contracts[stakingModules[id].contract].exited[p]
<1> DEFINE c == stakingModules[id].contract
           m == contracts[c]
           exits == chain[c].exited[op]
           stuck == chain[c].stuck[op]
<1>1. StakingRouterTypeOK /\ ChainInv
  BY DEF ReportsInv, CountsInv, ModulesInv
<1>2. c \in Contracts /\ m \in ModuleContract /\ exits \in Nat /\ stuck \in Nat
  <2>1. c \in Contracts
    BY <1>1, ModuleFacts
  <2>2. m \in ModuleContract /\ chain[c] \in SettledCounts
    BY <1>1, <2>1 DEF StakingRouterTypeOK, ChainInv
  <2>3. QED
    BY <2>1, <2>2 DEF SettledCounts, Counts
<1> DEFINE updated == [WithExited(WithStuck(m, op, stuck), op, exits) EXCEPT !.nonce = @ + 1]
           n == IF trigger THEN OnExitedAndStuckValidatorsCountsUpdated(updated) ELSE updated
<1>3. /\ stakingModules' = [stakingModules EXCEPT ![id].exitedValidatorsCount = SumFunction(chain[c].exited)]
      /\ contracts' = [contracts EXCEPT ![c] = n]
      /\ UNCHANGED withdrawalCredentials
  BY DEF DaoCorrects, UnsafeSetExitedValidatorsCount
<1>4. /\ UNCHANGED <<now, oracle, extraData, depositable, chain, reported>>
      /\ gathered' = [gathered EXCEPT !.corrected = TRUE]
  BY DEF DaoCorrects, baseOracleVars, securityVars, lidoVars
<1>5. n \in {updated, OnExitedAndStuckValidatorsCountsUpdated(updated)}
  OBVIOUS
<1> HIDE DEF n, m, exits, stuck
<1>6. /\ n \in ModuleContract /\ n.deposited = m.deposited
      /\ \A p \in Operators : n.exited[p] = IF p = op THEN exits ELSE m.exited[p]
  BY <1>2, <1>5, CorrectedModule
<1>7. QED
  BY <1>3, <1>4, <1>6 DEF m, exits

LEMMA DaoKeepsReports ==
  ASSUME ReportsInv, NEW id \in DOMAIN stakingModules, NEW op \in Operators, NEW trigger \in BOOLEAN,
         DaoCorrects(id, op, trigger)
  PROVE  /\ CountsInv' /\ TimesInv' /\ TotalsInv' /\ ExtraDataInv'
         /\ gathered'.corrected
<1> DEFINE c == stakingModules[id].contract
           total == SumFunction(chain[c].exited)
<1>1. /\ CountsInv /\ TimesInv /\ TotalsInv /\ ExtraDataInv /\ PhasesInv /\ ModulesInv /\ ChainInv
      /\ StakingRouterTypeOK
  BY DEF ReportsInv, CountsInv, ModulesInv
<1>2. /\ UNCHANGED <<now, oracle, extraData, withdrawalCredentials, depositable, chain, reported>>
      /\ gathered' = [gathered EXCEPT !.corrected = TRUE]
      /\ stakingModules' = [stakingModules EXCEPT ![id].exitedValidatorsCount = total]
  BY CorrectionFacts
<1>3. PICK n \in ModuleContract :
        /\ contracts' = [contracts EXCEPT ![c] = n]
        /\ n.deposited = contracts[c].deposited
        /\ \A p \in Operators : n.exited[p] = IF p = op THEN chain[c].exited[op] ELSE contracts[c].exited[p]
  BY CorrectionFacts
<1>4. c \in Contracts /\ total \in Nat
  BY <1>1, ModuleFacts, TotalsOfModule
<1>5. /\ gathered'.refSlot = gathered.refSlot /\ gathered'.payload = gathered.payload
      /\ gathered'.truth = gathered.truth /\ gathered'.corrected
  <2>1. DOMAIN gathered = {"refSlot", "payload", "truth", "corrected"}
    BY <1>1 DEF PhasesInv, WellFormed
  <2>2. QED
    BY <1>2, <2>1
<1> HIDE DEF total
<1>6. /\ contracts' \in [Contracts -> ModuleContract]
      /\ \A d \in Contracts : contracts'[d] = IF d = c THEN n ELSE contracts[d]
  <2>1. contracts \in [Contracts -> ModuleContract]
    BY <1>1 DEF StakingRouterTypeOK
  <2>2. QED
    BY <1>3, <1>4, <2>1
<1>7. ASSUME NEW d \in Contracts, NEW p \in Operators
      PROVE  /\ contracts'[d].deposited = contracts[d].deposited
             /\ contracts'[d].exited[p] <= chain[d].exited[p]
  <2>1. contracts[d].exited[p] <= chain[d].exited[p] /\ chain[d].exited[p] \in Nat
    BY <1>1 DEF ChainInv, SettledCounts, Counts
  <2>2. QED
    BY <1>3, <1>6, <2>1
<1>8. ChainInv'
  BY <1>1, <1>2, <1>5, <1>7 DEF ChainInv
<1>9. /\ stakingModules' \in Seq(StakingModule) /\ DOMAIN stakingModules' = DOMAIN stakingModules
      /\ \A i \in DOMAIN stakingModules :
           /\ OtherwiseSame(stakingModules'[i], stakingModules[i])
           /\ stakingModules'[i].exitedValidatorsCount =
                IF i = id THEN total ELSE stakingModules[i].exitedValidatorsCount
  <2>1. stakingModules \in Seq(StakingModule) /\ stakingModules[id] \in StakingModule
    BY <1>1, ModuleFacts DEF StakingRouterTypeOK
  <2>2. PICK k : k = [stakingModules[id] EXCEPT !.exitedValidatorsCount = total]
    OBVIOUS
  <2>3. k \in StakingModule /\ OtherwiseSame(k, stakingModules[id]) /\ k.exitedValidatorsCount = total
    BY <1>4, <2>1, <2>2 DEF StakingModule, OtherwiseSame
  <2>4. stakingModules' = [stakingModules EXCEPT ![id] = k]
    BY <1>2, <2>2
  <2>5. /\ stakingModules' \in Seq(StakingModule) /\ DOMAIN stakingModules' = DOMAIN stakingModules
        /\ \A i \in DOMAIN stakingModules : stakingModules'[i] = IF i = id THEN k ELSE stakingModules[i]
    BY <2>1, <2>3, <2>4
  <2>6. QED
    BY <2>3, <2>5 DEF OtherwiseSame
<1>10. ModulesStay
  BY <1>2, <1>6, <1>9 DEF ModulesStay
<1>11. ASSUME NEW i \in DOMAIN stakingModules
       PROVE  /\ stakingModules[i].contract \in Contracts
              /\ ExitedInTotal(gathered.truth, i) \in Nat
              /\ ExitedInTotal(gathered.truth, i) <= SumFunction(chain[stakingModules[i].contract].exited)
              /\ {stakingModules[i].exitedValidatorsCount,
                  SumFunction(chain[stakingModules[i].contract].exited),
                  reported[stakingModules[i].contract]} \subseteq Nat
              /\ reported[stakingModules[i].contract] <= stakingModules[i].exitedValidatorsCount
              /\ stakingModules[i].exitedValidatorsCount
                   <= SumFunction(chain[stakingModules[i].contract].exited)
  <2>1. stakingModules[i].contract \in Contracts /\ stakingModules[i] \in StakingModule
    BY <1>1, ModuleFacts
  <2>2. /\ reported[stakingModules[i].contract] <= stakingModules[i].exitedValidatorsCount
        /\ stakingModules[i].exitedValidatorsCount <= SumFunction(chain[stakingModules[i].contract].exited)
        /\ reported[stakingModules[i].contract] \in Nat
    BY <1>1, <2>1 DEF ModulesInv, ExitedInTotal, ContractOf
  <2>3. ExitedInTotal(gathered.truth, i) = SumFunction(gathered.truth[stakingModules[i].contract].exited)
    BY DEF ExitedInTotal, ContractOf
  <2>4. QED
    BY <1>1, <2>1, <2>2, <2>3, TotalsOfModule DEF StakingModule
<1>12. ModulesInv'
  <2>1. reported' \in [Contracts -> Nat]
    BY <1>1, <1>2 DEF ModulesInv
  <2>2. ASSUME NEW i \in DOMAIN stakingModules
        PROVE  /\ stakingModules'[i].exitedValidatorsCount
                    <= SumFunction(chain'[stakingModules[i].contract].exited)
               /\ reported'[stakingModules[i].contract] <= stakingModules'[i].exitedValidatorsCount
    BY <1>2, <1>9, <1>11 DEF total
  <2>3. QED
    BY <1>1, <1>10, <2>1, <2>2, ModulesKept
<1>13. GatheredStays
  BY <1>5 DEF GatheredStays
<1>14. TotalsInv'
  <2>1. \A i \in DOMAIN stakingModules :
           \/ stakingModules'[i].exitedValidatorsCount >= ExitedInTotal(gathered.truth, i)
           \/ stakingModules'[i].exitedValidatorsCount = stakingModules[i].exitedValidatorsCount
    BY <1>9, <1>11 DEF total
  <2>2. QED
    BY <1>1, <1>5, <1>10, <1>13, <2>1, TotalsStay
<1>15. TimesInv'
  BY <1>1, <1>2, <1>5 DEF TimesInv, InTime, Report, Processing
<1>16. /\ TrueItems(GatheredItems)'
       /\ DescribesItems(gathered.payload[2], gathered.payload[3], gathered.payload[4], GatheredItems)'
  BY <1>1, <1>10, <1>13, ItemsStay
<1>17. gathered'.refSlot # 0 /\ extraData'.refSlot = gathered'.refSlot =>
         \/ /\ extraData'.dataFormat = gathered'.payload[2]
            /\ extraData'.dataHash = gathered'.payload[3]
            /\ extraData'.itemsCount = gathered'.payload[4]
         \/ /\ extraData'.dataFormat = EXTRA_DATA_FORMAT_LIST
            /\ Len(extraData'.dataHash) # extraData'.itemsCount
  BY <1>1, <1>2, <1>5 DEF ExtraDataInv
<1>18. ExtraDataInv'
  BY <1>5, <1>16, <1>17 DEF ExtraDataInv
<1>19. QED
  BY <1>5, <1>8, <1>12, <1>14, <1>15, <1>18 DEF CountsInv

(***************************************************************************)
(* Every step of reports keeps the invariant, and modules hear the truth.  *)
(***************************************************************************)
LEMMA ReportsKeep ==
  ASSUME ReportsInv, [Next]_vars
  PROVE  ReportsInv' /\ ModulesHearTheTruth
<1>1. Reports /\ PhasesInv' /\ ModulesInv
  BY PhaseKeepsInv DEF ReportsInv, CountsInv
<1>2. ~Exits /\ ~Deposits /\ ~Trustless
  BY <1>1 DEF Reports, Exits, Deposits, Trustless
<1>3. CASE SlotEnds
  BY <1>1, <1>3, SlotKeepsReports DEF SlotEnds, ReportsInv, Reports, ModulesHearTheTruth, routerVars
<1>4. CASE AccountingCommittee
  BY <1>1, <1>4, CommitteeKeepsReports
     DEF AccountingCommittee, ReportsInv, Reports, ModulesHearTheTruth, routerVars, worldVars
<1>5. CASE AccountingMainData
  <2>1. UNCHANGED <<scenario, contracts>>
    BY <1>5, MainDataFacts DEF AccountingMainData
  <2>2. QED
    BY <1>1, <1>5, <2>1, MainDataKeepsReports DEF ReportsInv, Reports, ModulesHearTheTruth
<1>6. CASE AccountingExtraData
  <2>1. UNCHANGED scenario
    BY <1>6 DEF AccountingExtraData, worldVars
  <2>2. QED
    BY <1>1, <1>6, <2>1, ExtraDataKeepsReports, ExtraDataTellsTheTruth DEF ReportsInv, Reports
<1>7. ASSUME NEW c \in Contracts, NEW op \in Operators, ChainMoves(c, op)
      PROVE  ReportsInv' /\ ModulesHearTheTruth
  <2>1. UNCHANGED <<scenario, contracts>>
    BY <1>7 DEF ChainMoves, routerVars
  <2>2. QED
    BY <1>1, <1>7, <2>1, ChainKeepsReports DEF ReportsInv, Reports, ModulesHearTheTruth
<1>8. ASSUME NEW id \in DOMAIN stakingModules, NEW op \in Operators, NEW trigger \in BOOLEAN,
             DaoCorrects(id, op, trigger)
      PROVE  ReportsInv' /\ ModulesHearTheTruth
  <2>1. UNCHANGED scenario
    BY <1>8 DEF DaoCorrects
  <2>2. CountsInv' /\ TimesInv' /\ TotalsInv' /\ ExtraDataInv' /\ gathered'.corrected
    BY <1>8, DaoKeepsReports
  <2>3. QED
    BY <1>1, <2>1, <2>2 DEF ReportsInv, Reports, ModulesHearTheTruth
<1>9. CASE UNCHANGED vars
  <2>1. /\ UNCHANGED <<now, oracle, routerVars, depositable, extraData, gathered, chain, reported,
                       scenario, contracts>>
    BY <1>9 DEF vars, baseOracleVars, routerVars, worldVars, securityVars, lidoVars
  <2>2. CountsInv' /\ TimesInv' /\ TotalsInv' /\ ExtraDataInv'
    BY <1>1, <2>1, CountsUntouched, ReportKept, ReportsUntouched DEF ReportsInv, OracleUnchanged
  <2>3. QED
    BY <1>1, <2>1, <2>2 DEF ReportsInv, Reports, ModulesHearTheTruth
<1>10. /\ ~ExitBusCommittee /\ ~ExitBusData /\ ~ExitBusPauses
       /\ ~AnyConsensusContract /\ ~AnyVersionOrPause
       /\ \A g, id : ~GuardianSigns(g, id)
       /\ ~SomebodyDeposits /\ ~SomebodyPauses /\ ~OthersDeposit /\ ~OperatorsManageKeys
       /\ ~DaoManagesRouter /\ ~OwnerManagesSecurity
  BY <1>2 DEF ExitBusCommittee, ExitBusData, ExitBusPauses, AnyConsensusContract, AnyVersionOrPause,
       GuardianSigns, SomebodyDeposits, SomebodyPauses, OthersDeposit, OperatorsManageKeys,
       DaoManagesRouter, OwnerManagesSecurity
<1>11. QED
  BY <1>3, <1>4, <1>5, <1>6, <1>7, <1>8, <1>9, <1>10 DEF Next

LEMMA InitReports ==
  ASSUME Init, Reports
  PROVE  ReportsInv
<1>1. CountsInv /\ PhasesInv /\ StakingRouterTypeOK /\ ModulesInv /\ ChainInv
  BY InitCounts, InitPhases DEF CountsInv, ModulesInv
<1>2. /\ now = 1 /\ gathered = Gathered(0) /\ oracle = [o \in Oracles |-> Initialized(consensus, 1, 0)]
  BY DEF Init
<1>3. /\ gathered.refSlot = 0 /\ gathered.payload = TruthfulPayload(chain) /\ gathered.truth = chain
  BY <1>2 DEF Gathered
<1>4. TimesInv
  <2>1. Report.hash = ZeroHash /\ Report.refSlot = 0 /\ Processing = 0
    BY <1>2, AccountingOracleAssumption DEF Report, Processing, Initialized
  <2>2. 0 % FRAME_SLOTS = 0
    BY CommitteesAssumption
  <2>3. QED
    BY <1>2, <1>3, <2>1, <2>2 DEF TimesInv, InTime
<1>5. TotalsInv
  <2> DEFINE exited == NewlyExited(chain)
  <2>1. \A id \in DOMAIN stakingModules :
          /\ ExitedInTotal(chain, id) \in Nat
          /\ stakingModules[id].exitedValidatorsCount <= ExitedInTotal(chain, id)
    <3>1. ASSUME NEW id \in DOMAIN stakingModules PROVE ExitedInTotal(chain, id) \in Nat
      <4>1. stakingModules[id].contract \in Contracts
        BY <1>1, ModuleFacts
      <4>2. QED
        BY <1>1, <4>1, TotalsOfModule DEF ExitedInTotal, ContractOf
    <3>2. QED
      BY <1>1, <3>1 DEF ModulesInv
  <2>2. /\ exited \in Seq(Nat \X Nat)
        /\ \A i \in DOMAIN exited :
             /\ exited[i][1] \in DOMAIN stakingModules
             /\ exited[i][2] = ExitedInTotal(chain, exited[i][1])
             /\ exited[i][2] # 0
        /\ StrictlyAscending([i \in DOMAIN exited |-> exited[i][1]])
        /\ \A id \in DOMAIN stakingModules :
             \/ stakingModules[id].exitedValidatorsCount >= ExitedInTotal(chain, id)
             \/ Listed(exited, id)
    BY <1>1, <2>1, TotalsGathered
  <2>3. gathered.payload[1] = exited
    BY <1>3 DEF TruthfulPayload
  <2> HIDE DEF exited
  <2>4. TrueTotals(gathered.payload[1])
    BY <1>3, <2>2, <2>3 DEF TrueTotals
  <2>5. QED
    BY <1>3, <2>1, <2>2, <2>3, <2>4 DEF TotalsInv
<1>6. ExtraDataInv
  <2>1. PICK items : items = Items(chain)
    OBVIOUS
  <2>2. Describe(items, gathered.truth)
    BY <1>1, <1>3, <2>1, ItemsGathered DEF ChainInv
  <2>3. GatheredItems = items
        /\ DescribesItems(gathered.payload[2], gathered.payload[3], gathered.payload[4], items)
    <3>1. CASE items = <<>>
      BY <1>3, <2>1, <3>1 DEF TruthfulPayload, GatheredItems, DescribesItems, EXTRA_DATA_FORMAT_LIST,
         EXTRA_DATA_FORMAT_EMPTY
    <3>2. CASE items # <<>>
      BY <1>3, <2>1, <3>2 DEF TruthfulPayload, GatheredItems, DescribesItems
    <3>3. QED
      BY <3>1, <3>2
  <2>4. TrueItems(GatheredItems)
    BY <2>2, <2>3 DEF Describe, TrueItems
  <2>5. \A c \in Contracts : \A op \in Operators : contracts[c].exited[op] <= gathered.truth[c].exited[op]
    BY <1>1, <1>3 DEF ChainInv
  <2>6. QED
    BY <1>3, <2>2, <2>3, <2>4, <2>5 DEF ExtraDataInv
<1>7. QED
  BY <1>1, <1>4, <1>5, <1>6 DEF ReportsInv

(***************************************************************************)
(* A truthful report goes through.                                         *)
(***************************************************************************)
LEMMA ListsAreNotZero ==
  ASSUME NEW items \in Seq(Item)
  PROVE  items # ZeroHash
<1> DEFINE Entry == Nat \X Nat \X Seq(Nat \X Nat)
<1>1. ASSUME NEW counts \in Seq(Operators \X Nat) PROVE counts \in Seq(Nat \X Nat)
  <2>1. Operators \X Nat \subseteq Nat \X Nat
    BY StakingRouterAssumption
  <2>2. PICK n \in Nat : counts \in [1..n -> Operators \X Nat]
    BY LenProperties
  <2>3. counts \in [1..n -> Nat \X Nat]
    BY <2>1, <2>2
  <2>4. QED
    BY <2>2, <2>3
<1>2. ASSUME NEW item \in Item PROVE item \in Entry
  <2>1. item[1] \in Nat /\ item[2] \in Nat /\ item[3] \in Seq(Operators \X Nat)
        /\ item = <<item[1], item[2], item[3]>>
    BY DEF Item
  <2>2. item[3] \in Seq(Nat \X Nat)
    BY <1>1, <2>1
  <2>3. QED
    BY <2>1, <2>2
<1>3. PICK n \in Nat : items \in [1..n -> Item]
  BY LenProperties
<1> HIDE DEF Entry
<1>4. items \in [1..n -> Entry]
  BY <1>2, <1>3
<1>5. items \in Seq(Entry)
  BY <1>3, <1>4
<1>6. QED
  BY <1>5, ListsHaveHashes DEF Entry

LEMMA ReportGoesThrough ==
  ASSUME ReportsInv
  PROVE  TruthfulReportGoesThrough
<1> SUFFICES ASSUME ~gathered.corrected
             PROVE  /\ MainDataIsAccepted(gathered.payload)
                    /\ gathered.payload[2] = EXTRA_DATA_FORMAT_LIST /\ ~ExtraDataDelivered
                         => ~ProcessExtraDataItems(gathered.payload[3]).reverted
  BY DEF TruthfulReportGoesThrough
<1> DEFINE exited == gathered.payload[1]
<1>1. CountsInv /\ TotalsInv /\ ExtraDataInv /\ ChainInv /\ ModulesInv /\ StakingRouterTypeOK
  BY DEF ReportsInv, CountsInv, ModulesInv
<1>2. PICK items : items = GatheredItems
  OBVIOUS
<1>3. /\ items \in Seq(Item) /\ \A i \in DOMAIN items : TrueItem(items[i], gathered.truth)
      /\ DescribesItems(gathered.payload[2], gathered.payload[3], gathered.payload[4], items)
  BY <1>1, <1>2 DEF ExtraDataInv, TrueItems
<1>4. ExtraDataIsDescribed(gathered.payload[2], gathered.payload[3], gathered.payload[4])
  <2>1. CASE items = <<>>
    BY <1>3, <2>1 DEF DescribesItems, ExtraDataIsDescribed
  <2>2. CASE items # <<>>
    <3>1. Len(items) # 0
      BY <1>3, <2>2, EmptySeq
    <3>2. items # ZeroHash
      BY <1>3, ListsAreNotZero
    <3>3. QED
      BY <1>3, <2>2, <3>1, <3>2 DEF DescribesItems, ExtraDataIsDescribed
  <2>3. QED
    BY <2>1, <2>2
<1>5. ExitedCountsAreValid(exited)
  <2> SUFFICES ASSUME NEW i \in DOMAIN exited
               PROVE  /\ exited[i][1] \in DOMAIN stakingModules
                      /\ exited[i][2] >= stakingModules[exited[i][1]].exitedValidatorsCount
                      /\ exited[i][2] <= TotalDeposited(stakingModules[exited[i][1]].contract)
    BY DEF ExitedCountsAreValid, Registered
  <2> DEFINE id == exited[i][1]
             total == exited[i][2]
  <2>1. /\ id \in DOMAIN stakingModules /\ total = ExitedInTotal(gathered.truth, id)
        /\ stakingModules[id].exitedValidatorsCount <= ExitedInTotal(gathered.truth, id)
    BY <1>1 DEF TotalsInv, TrueTotals
  <2> HIDE DEF id, total
  <2> DEFINE c == stakingModules[id].contract
  <2>2. c \in Contracts /\ stakingModules[id].exitedValidatorsCount \in Nat
    <3>1. c \in Contracts /\ stakingModules[id] \in StakingModule
      BY <1>1, <2>1, ModuleFacts
    <3>2. QED
      BY <3>1 DEF StakingModule
  <2>3. total = SumFunction(gathered.truth[c].exited)
    BY <2>1 DEF ExitedInTotal, ContractOf
  <2>4. total \in Nat /\ total <= TotalDeposited(c)
    BY <1>1, <2>2, <2>3, TotalsOfModule
  <2>5. stakingModules[id].exitedValidatorsCount <= total
    BY <2>1
  <2>6. QED
    BY <2>1, <2>2, <2>4, <2>5 DEF id, total
<1>6. ExitedByModuleIsAccepted(exited)
  BY <1>1, <1>5 DEF TotalsInv, ExitedByModuleIsAccepted
<1>7. MainDataIsAccepted(gathered.payload)
  BY <1>4, <1>6 DEF MainDataIsAccepted
<1>8. ASSUME gathered.payload[2] = EXTRA_DATA_FORMAT_LIST, ~ExtraDataDelivered
      PROVE  ~ProcessExtraDataItems(gathered.payload[3]).reverted
  <2>1. gathered.payload[3] = items
    BY <1>2, <1>8 DEF GatheredItems
  <2>2. items # <<>>
    BY <1>3, <1>8 DEF DescribesItems, EXTRA_DATA_FORMAT_LIST, EXTRA_DATA_FORMAT_EMPTY
  <2>3. Describe(items, gathered.truth) /\ NotAhead(gathered.truth)
    BY <1>1, <1>2, <1>8 DEF ExtraDataInv, ChainInv, NotAhead
  <2>4. gathered.truth \in [Contracts -> SettledCounts]
    BY <1>1 DEF ChainInv
  <2>5. ~ProcessExtraDataItems(items).reverted
    BY <1>1, <1>3, <2>2, <2>3, <2>4, ItemsAreProcessed
  <2>6. QED
    BY <2>1, <2>5
<1>9. QED
  BY <1>7, <1>8

------------------------------------------------------------------------------

(***************************************************************************)
(* The invariant of all scenarios.                                         *)
(***************************************************************************)
CountingInv ==
  /\ CountsInv
  /\ Reports => ReportsInv
  /\ Deposits => DepositsInv /\ NobodyExited

LEMMA InitCounting == Init => CountingInv
BY InitCounts, InitReports, InitDeposits DEF CountingInv

LEMMA NextCounting == CountingInv /\ [Next]_vars => CountingInv' /\ ModulesHearTheTruth
<1> SUFFICES ASSUME CountingInv, [Next]_vars PROVE CountingInv' /\ ModulesHearTheTruth
  OBVIOUS
<1>1. CASE Reports
  <2>1. ReportsInv' /\ ModulesHearTheTruth
    BY <1>1, ReportsKeep DEF CountingInv
  <2>2. CountsInv' /\ ~Deposits'
    BY <2>1 DEF ReportsInv, Reports, Deposits
  <2>3. QED
    BY <2>1, <2>2 DEF CountingInv
<1>2. CASE Deposits
  <2>1. DepositsInv' /\ CountsInv' /\ NobodyExited' /\ ModulesHearNothing
    BY <1>2, DepositsKeepCounts, NextIsGood DEF CountingInv, Good
  <2>2. ~Reports'
    BY <2>1 DEF DepositsInv, Reports, Deposits
  <2>3. QED
    BY <2>1, <2>2 DEF CountingInv, ModulesHearNothing, ModulesHearTheTruth
<1>3. CASE ~Reports /\ ~Deposits
  <2>1. CountsInv' /\ UNCHANGED routerVars /\ ~Reports' /\ ~Deposits'
    BY <1>3, ExitsKeepCounts DEF CountingInv
  <2>2. QED
    BY <2>1 DEF CountingInv, ModulesHearTheTruth, routerVars
<1>4. QED
  BY <1>1, <1>2, <1>3

(***************************************************************************)
(* Reports and requests to exit deposit nothing.                           *)
(***************************************************************************)
LEMMA ReportsDepositNothing ==
  ASSUME ReportsInv, [Next]_vars
  PROVE  NoDeposit
<1>1. Reports /\ ~Exits /\ ~Deposits /\ ~Trustless
  BY DEF ReportsInv, Reports, Exits, Deposits, Trustless
<1>2. CASE SlotEnds \/ AccountingCommittee
  BY <1>2 DEF SlotEnds, AccountingCommittee, routerVars, NoDeposit
<1>3. CASE AccountingMainData
  BY <1>3, MainDataFacts DEF NoDeposit
<1>4. CASE AccountingExtraData
  <2>1. PICK cs, failing : Brought(cs) /\ contracts' = ReportingFinished(cs, failing)
    BY <1>4, ExtraDataFacts
  <2>2. cs \in [Contracts -> ModuleContract]
        /\ \A c \in Contracts : cs[c].deposited = contracts[c].deposited
    BY <2>1 DEF Brought
  <2>3. \A c \in Contracts : contracts'[c].deposited = cs[c].deposited
    BY <2>1, <2>2, FinishedAlone
  <2>4. QED
    BY <2>2, <2>3 DEF NoDeposit
<1>5. ASSUME NEW c \in Contracts, NEW op \in Operators, ChainMoves(c, op)
      PROVE  NoDeposit
  BY <1>5 DEF ChainMoves, routerVars, NoDeposit
<1>6. ASSUME NEW id \in DOMAIN stakingModules, NEW op \in Operators, NEW trigger \in BOOLEAN,
             DaoCorrects(id, op, trigger)
      PROVE  NoDeposit
  <2>1. PICK n \in ModuleContract :
          /\ contracts' = [contracts EXCEPT ![stakingModules[id].contract] = n]
          /\ n.deposited = contracts[stakingModules[id].contract].deposited
    BY <1>6, CorrectionFacts
  <2>2. contracts \in [Contracts -> ModuleContract]
    BY DEF ReportsInv, CountsInv, ModulesInv, StakingRouterTypeOK
  <2>3. QED
    BY <2>1, <2>2 DEF NoDeposit
<1>7. CASE UNCHANGED vars
  BY <1>7 DEF vars, routerVars, NoDeposit
<1>8. QED
  BY <1>1, <1>2, <1>3, <1>4, <1>5, <1>6, <1>7
     DEF Next, ExitBusCommittee, ExitBusData, ExitBusPauses, AnyConsensusContract, AnyVersionOrPause,
       GuardianSigns, SomebodyDeposits, SomebodyPauses, OthersDeposit, OperatorsManageKeys,
       DaoManagesRouter, OwnerManagesSecurity

LEMMA EveryDepositIsGood == CountingInv /\ [Next]_vars => DepositsAreGood
<1> SUFFICES ASSUME CountingInv, [Next]_vars PROVE DepositsAreGood
  OBVIOUS
<1>1. CASE Reports
  <2>1. NoDeposit /\ StakingRouterTypeOK
    BY <1>1, ReportsDepositNothing DEF CountingInv, CountsInv, ModulesInv
  <2>2. QED
    BY <2>1, ModuleFacts DEF NoDeposit, DepositsAreGood, DepositsTo
<1>2. CASE Deposits
  BY <1>2, NextIsGood DEF CountingInv, Good
<1>3. CASE ~Reports /\ ~Deposits
  BY <1>3, ExitsKeepCounts DEF CountingInv, routerVars, DepositsAreGood, DepositsTo
<1>4. QED
  BY <1>1, <1>2, <1>3

(***************************************************************************)
(* The active validators the router counts with leave out every exit of    *)
(* the last truthful report, whatever of it the modules know, and none     *)
(* that did not happen; so the allocation of deposits stays between what a *)
(* module has and what it can take, and fees are at most the rewards       *)
(* (_loadStakingModulesCacheItem, getStakingModuleMaxDepositsCount,        *)
(* getStakingRewardsDistribution).                                         *)
(***************************************************************************)
THEOREM ActiveValidatorsAreCounted == Spec => []ActiveCountIsUpToDate
<1>1. Init => CountingInv
  BY InitCounting
<1>2. CountingInv /\ [Next]_vars => CountingInv'
  BY NextCounting
<1>3. CountingInv => ActiveCountIsUpToDate
  BY CountsAreUpToDate DEF CountingInv
<1>4. QED
  BY <1>1, <1>2, <1>3, PTL DEF Spec

(***************************************************************************)
(* No truthful report is refused in its frame, neither its main data nor   *)
(* its extra data, whatever reports were lost, malformed or left half done *)
(* before it, unless the DAO corrected counts meanwhile                    *)
(* (_handleConsensusReportData, _processExtraDataItems).                   *)
(***************************************************************************)
THEOREM NoTruthfulReportIsRefused == Spec => []TruthfulReportGoesThrough
<1>1. Init => CountingInv
  BY InitCounting
<1>2. CountingInv /\ [Next]_vars => CountingInv'
  BY NextCounting
<1>3. CountingInv => TruthfulReportGoesThrough
  BY ReportGoesThrough DEF CountingInv, TruthfulReportGoesThrough
<1>4. QED
  BY <1>1, <1>2, <1>3, PTL DEF Spec

(***************************************************************************)
(* What a module is told to be complete are the counts at one reference    *)
(* slot, never a mixture of two reports, although a report may come in     *)
(* part and the next one tells only what changed                           *)
(* (onValidatorsCountsByNodeOperatorReportingFinished).                    *)
(***************************************************************************)
THEOREM ModulesAreToldOneReport == Spec => ModulesAreToldTheTruth
<1>1. Init => CountingInv
  BY InitCounting
<1>2. CountingInv /\ [Next]_vars => CountingInv'
  BY NextCounting
<1>3. CountingInv /\ [Next]_vars =>
        [\A c \in Contracts :
           contracts'[c].settled # contracts[c].settled /\ ~gathered'.corrected
             => contracts'[c].settled = gathered.truth[c]]_vars
  BY NextCounting DEF ModulesHearTheTruth
<1>4. QED
  BY <1>1, <1>2, <1>3, PTL DEF Spec, ModulesAreToldTheTruth

(***************************************************************************)
(* The router's storage and its modules keep their types, in deposits, in  *)
(* reports and in what the DAO corrects.                                   *)
(***************************************************************************)
THEOREM RouterIsWellTyped == Spec => []StakingRouterTypeOK
<1>1. Init => CountingInv
  BY InitCounting
<1>2. CountingInv /\ [Next]_vars => CountingInv'
  BY NextCounting
<1>3. CountingInv => StakingRouterTypeOK
  BY DEF CountingInv, CountsInv, ModulesInv
<1>4. QED
  BY <1>1, <1>2, <1>3, PTL DEF Spec

(***************************************************************************)
(* Whatever happens between the signatures and the deposit, the keys that  *)
(* are deposited are the next of those that a quorum of those who are      *)
(* guardians now have seen, but for keys of operators that were penalized  *)
(* since, with no deposit by anybody in between (depositBufferedEther).    *)
(***************************************************************************)
THEOREM DepositsAreVetted == Spec => DepositIsVetted
<1>1. Init => CountingInv
  BY InitCounting
<1>2. CountingInv /\ [Next]_vars => CountingInv'
  BY NextCounting
<1>3. CountingInv /\ [Next]_vars =>
        [\A id \in DOMAIN stakingModules : DepositsTo(id) => Vetted(id)]_<<routerVars, securityVars>>
  BY EveryDepositIsGood DEF DepositsAreGood
<1>4. QED
  BY <1>1, <1>2, <1>3, PTL DEF Spec, DepositIsVetted

(***************************************************************************)
(* Keys are deposited only with the credentials they were signed for,      *)
(* whichever modules fail to drop theirs (setWithdrawalCredentials).       *)
(***************************************************************************)
THEOREM DepositsAreUnderTheirCredentials == Spec => DepositedUnderTheirCredentials
<1>1. Init => CountingInv
  BY InitCounting
<1>2. CountingInv /\ [Next]_vars => CountingInv'
  BY NextCounting
<1>3. CountingInv /\ [Next]_vars =>
        [\A id \in DOMAIN stakingModules : DepositsTo(id) => UnderTheirCredentials(id)
        ]_<<routerVars, securityVars>>
  BY EveryDepositIsGood DEF DepositsAreGood
<1>4. QED
  BY <1>1, <1>2, <1>3, PTL DEF Spec, DepositedUnderTheirCredentials, UnderTheirCredentials

==============================================================================

------------------------ MODULE HashConsensusProofs ------------------------
(***************************************************************************)
(* Theorems about HashConsensus and the BaseOracle it reports to, for any  *)
(* committee, frame configuration, quorum, number of report processors and *)
(* length of a run.                                                        *)
(*                                                                         *)
(* The invariant HCInv has three strands.  Time: the reference slot never  *)
(* goes back, and no report, vote or consensus is of a slot after it, so   *)
(* that when the slot moves on all that was gathered is of the past.       *)
(* Members: the three tables describe one committee.  Support: the members *)
(* whose last report is a variant of the current slot are all counted in   *)
(* its support, which a removal or a changed report takes back.            *)
(*                                                                         *)
(* The part about majorities adds VotesInv.  The last part needs no        *)
(* invariant of its own: the fast lane is a window on a circle of members. *)
(***************************************************************************)
EXTENDS HashConsensus, DataLemmas

------------------------------------------------------------------------------

(***************************************************************************)
(* BaseOracle on its own, for any number of oracles, consensus contracts,  *)
(* versions and slots.                                                     *)
(*                                                                         *)
(* The invariant is IInv: the types, and that the stored report is not     *)
(* behind the slot being processed.  The second part is what makes the     *)
(* comparison "processing slot # report slot" of _startProcessing the      *)
(* same as "processing slot < report slot"; without it no step of the      *)
(* properties below would be provable.                                     *)
(***************************************************************************)

IInv == BaseOracleTypeOK /\ ReportNotBehindProcessing

(***************************************************************************)
(* The initial state and every step keep IInv.                             *)
(***************************************************************************)
LEMMA InitIInv == BaseOracleInit => IInv
<1> SUFFICES ASSUME BaseOracleInit PROVE IInv
  OBVIOUS
<1>1. ASSUME NEW o \in Oracles
      PROVE  /\ oracle[o] \in OracleStorage
             /\ oracle[o].lastProcessingRefSlot = oracle[o].report.refSlot
  <2>1. PICK c \in ConsensusContracts, v \in ConsensusVersions, r \in RefSlots :
          oracle[o] = Initialized(c, v, r)
    BY DEF BaseOracleInit
  <2>2. r \in Nat
    BY BaseOracleAssumption
  <2>3. QED
    BY <2>1, <2>2 DEF Initialized, OracleStorage, ConsensusReport
<1>2. oracle \in [Oracles -> OracleStorage]
  BY <1>1 DEF BaseOracleInit
<1>3. \A o \in Oracles : oracle[o].lastProcessingRefSlot \in Nat
  BY <1>1 DEF OracleStorage
<1>4. QED
  BY <1>1, <1>2, <1>3 DEF BaseOracleInit, IInv, BaseOracleTypeOK, ReportNotBehindProcessing

(***************************************************************************)
(* One lemma per operation that changes the storage of an oracle.          *)
(***************************************************************************)
LEMMA SubmitKeepsIInv ==
  ASSUME IInv, NEW o \in Oracles, NEW c \in ConsensusContracts, NEW hash \in ReportHash,
         NEW r \in Nat, NEW deadline \in Nat,
         SubmitConsensusReport(o, c, hash, r, deadline), now' = now
  PROVE  IInv'
  BY DEF IInv, BaseOracleTypeOK, ReportNotBehindProcessing, OracleStorage, ConsensusReport,
         SubmitConsensusReport

LEMMA DiscardKeepsIInv ==
  ASSUME IInv, NEW o \in Oracles, NEW c \in ConsensusContracts, NEW r \in Nat,
         DiscardConsensusReport(o, c, r), now' = now
  PROVE  IInv'
  BY SMTT(30) DEF IInv, BaseOracleTypeOK, ReportNotBehindProcessing, OracleStorage, ConsensusReport,
         DiscardConsensusReport

LEMMA SubmitReportDataKeepsIInv ==
  ASSUME IInv, NEW o \in Oracles, NEW data, SubmitReportData(o, data)
  PROVE  IInv'
  BY DEF IInv, BaseOracleTypeOK, ReportNotBehindProcessing, OracleStorage, ConsensusReport,
         SubmitReportData, StartProcessing

LEMMA ManageKeepsIInv ==
  ASSUME IInv, NEW o \in Oracles,
         \/ \E v \in ConsensusVersions : SetConsensusVersion(o, v)
         \/ \E c \in ConsensusContracts, r \in RefSlots : SetConsensusContract(o, c, r)
  PROVE  IInv'
  BY DEF IInv, BaseOracleTypeOK, ReportNotBehindProcessing, OracleStorage, ConsensusReport,
         SetConsensusVersion, SetConsensusContract

LEMMA NextIInv == IInv /\ [BaseOracleNext]_baseOracleVars => IInv'
<1> SUFFICES ASSUME IInv, [BaseOracleNext]_baseOracleVars PROVE IInv'
  OBVIOUS
<1>1. CASE Tick
  BY <1>1 DEF IInv, BaseOracleTypeOK, ReportNotBehindProcessing, Tick
<1>2. ASSUME NEW o \in Oracles, ConsensusContractCalls(o) PROVE IInv'
  <2>1. PICK c \in ConsensusContracts, r \in RefSlots :
          /\ UNCHANGED now
          /\ \/ DiscardConsensusReport(o, c, r)
             \/ \E v \in ConsensusVersions, p \in Payloads, s \in RefSlots,
                   deadline \in now..MAX_TIME :
                  SubmitConsensusReport(o, c,
                    [consensusVersion |-> v, refSlot |-> s, payload |-> p], r, deadline)
    BY <1>2 DEF ConsensusContractCalls
  <2>2. r \in Nat
    BY BaseOracleAssumption
  <2>3. CASE DiscardConsensusReport(o, c, r)
    BY <2>1, <2>2, <2>3, DiscardKeepsIInv
  <2>4. ASSUME NEW v \in ConsensusVersions, NEW p \in Payloads, NEW s \in RefSlots,
               NEW deadline \in now..MAX_TIME,
               SubmitConsensusReport(o, c,
                 [consensusVersion |-> v, refSlot |-> s, payload |-> p], r, deadline)
        PROVE  IInv'
    <3>1. [consensusVersion |-> v, refSlot |-> s, payload |-> p] \in ReportHash
      BY BaseOracleAssumption DEF ReportHash
    <3>2. deadline \in Nat
      BY BaseOracleAssumption DEF IInv, BaseOracleTypeOK
    <3>3. QED
      BY <2>1, <2>2, <2>4, <3>1, <3>2, SubmitKeepsIInv
  <2>5. QED
    BY <2>1, <2>3, <2>4
<1>3. ASSUME NEW o \in Oracles, NEW v \in ConsensusVersions, NEW r \in RefSlots,
             NEW p \in Payloads,
             SubmitReportData(o, [consensusVersion |-> v, refSlot |-> r, payload |-> p])
      PROVE  IInv'
  BY <1>3, SubmitReportDataKeepsIInv
<1>4. ASSUME NEW o \in Oracles,
             \/ \E v \in ConsensusVersions : SetConsensusVersion(o, v)
             \/ \E c \in ConsensusContracts, r \in RefSlots : SetConsensusContract(o, c, r)
      PROVE  IInv'
  BY <1>4, ManageKeepsIInv
<1>5. CASE UNCHANGED baseOracleVars
  BY <1>5 DEF IInv, BaseOracleTypeOK, ReportNotBehindProcessing, baseOracleVars
<1>6. QED
  BY <1>1, <1>2, <1>3, <1>4, <1>5 DEF BaseOracleNext

(***************************************************************************)
(* An oracle's storage is always well formed, and its stored report is     *)
(* never for a slot older than the one being processed.                    *)
(***************************************************************************)
THEOREM ReportIsNotBehindProcessing ==
  BaseOracleSpec => [](BaseOracleTypeOK /\ ReportNotBehindProcessing)
  BY InitIInv, NextIInv, PTL DEF BaseOracleSpec, IInv
------------------------------------------------------------------------------

(***************************************************************************)
(* What a step does to one oracle q: nothing, or it advances processing to *)
(* the slot of the stored report, or it replaces or discards the report    *)
(* while it is not under processing.                                       *)
(***************************************************************************)
Step(q) ==
  \/ /\ oracle'[q].report = oracle[q].report
     /\ oracle'[q].lastProcessingRefSlot = oracle[q].lastProcessingRefSlot
  \/ /\ oracle[q].report.hash # ZeroHash
     /\ oracle[q].lastProcessingRefSlot # oracle[q].report.refSlot
     /\ oracle'[q].report = oracle[q].report
     /\ oracle'[q].lastProcessingRefSlot = oracle[q].report.refSlot
  \/ /\ oracle'[q].lastProcessingRefSlot = oracle[q].lastProcessingRefSlot
     /\ oracle'[q].report.hash = ZeroHash
     /\ oracle'[q].report.refSlot = oracle[q].report.refSlot
     /\ oracle[q].report.refSlot > oracle[q].lastProcessingRefSlot
  \/ /\ oracle'[q].lastProcessingRefSlot = oracle[q].lastProcessingRefSlot
     /\ oracle'[q].report.hash \in ReportHash
     /\ oracle'[q].report.refSlot \in Nat
     /\ oracle'[q].report.refSlot >= oracle[q].report.refSlot
     /\ oracle'[q].report.refSlot > oracle[q].lastProcessingRefSlot

OnlyOracle(o) == \A q \in Oracles \ {o} : oracle'[q] = oracle[q]

LEMMA NextSteps ==
  ASSUME IInv, [BaseOracleNext]_baseOracleVars
  PROVE  \/ oracle' = oracle
         \/ \E o \in Oracles : Step(o) /\ OnlyOracle(o)
<1> USE DEF IInv, BaseOracleTypeOK, OracleStorage, ConsensusReport
<1>1. CASE Tick \/ UNCHANGED baseOracleVars
  BY <1>1 DEF Tick, baseOracleVars
<1>2. ASSUME NEW o \in Oracles, ConsensusContractCalls(o)
      PROVE  oracle' = oracle \/ (Step(o) /\ OnlyOracle(o))
  <2>1. PICK c \in ConsensusContracts, r \in RefSlots :
          \/ DiscardConsensusReport(o, c, r)
          \/ \E v \in ConsensusVersions, p \in Payloads, s \in RefSlots,
                deadline \in now..MAX_TIME :
               SubmitConsensusReport(o, c,
                 [consensusVersion |-> v, refSlot |-> s, payload |-> p], r, deadline)
    BY <1>2 DEF ConsensusContractCalls
  <2>2. r \in Nat
    BY BaseOracleAssumption
  <2>3. CASE DiscardConsensusReport(o, c, r)
    BY <2>2, <2>3 DEF DiscardConsensusReport, Step, OnlyOracle
  <2>4. ASSUME NEW v \in ConsensusVersions, NEW p \in Payloads, NEW s \in RefSlots,
               NEW deadline \in now..MAX_TIME,
               SubmitConsensusReport(o, c,
                 [consensusVersion |-> v, refSlot |-> s, payload |-> p], r, deadline)
        PROVE  Step(o) /\ OnlyOracle(o)
    <3>1. [consensusVersion |-> v, refSlot |-> s, payload |-> p] \in ReportHash
      BY BaseOracleAssumption DEF ReportHash
    <3>2. QED
      BY <2>2, <2>4, <3>1 DEF SubmitConsensusReport, Step, OnlyOracle
  <2>5. QED
    BY <2>1, <2>3, <2>4
<1>3. ASSUME NEW o \in Oracles, NEW data, SubmitReportData(o, data)
      PROVE  Step(o) /\ OnlyOracle(o)
  BY <1>3 DEF SubmitReportData, StartProcessing, Step, OnlyOracle
<1>4. ASSUME NEW o \in Oracles,
             \/ \E v \in ConsensusVersions : SetConsensusVersion(o, v)
             \/ \E c \in ConsensusContracts, r \in RefSlots : SetConsensusContract(o, c, r)
      PROVE  Step(o) /\ OnlyOracle(o)
  BY <1>4 DEF SetConsensusVersion, SetConsensusContract, Step, OnlyOracle
<1>5. QED
  BY <1>1, <1>2, <1>3, <1>4 DEF BaseOracleNext

(***************************************************************************)
(* The last processing slot of an oracle never goes back.                  *)
(***************************************************************************)
THEOREM ProcessingAdvances == BaseOracleSpec => ProcessingOnlyAdvances
<1>1. ASSUME IInv, [BaseOracleNext]_baseOracleVars, NEW o \in Oracles
      PROVE  oracle'[o].lastProcessingRefSlot >= oracle[o].lastProcessingRefSlot
  <2>1. oracle' = oracle \/ Step(o) \/ oracle'[o] = oracle[o]
    BY <1>1, NextSteps DEF OnlyOracle
  <2>2. QED
    BY <1>1, <2>1 DEF IInv, BaseOracleTypeOK, ReportNotBehindProcessing, OracleStorage,
                      ConsensusReport, Step
<1>2. IInv /\ [BaseOracleNext]_baseOracleVars =>
        [\A o \in Oracles :
           oracle'[o].lastProcessingRefSlot >= oracle[o].lastProcessingRefSlot]_baseOracleVars
  BY <1>1
<1>3. QED
  BY <1>2, InitIInv, NextIInv, PTL DEF BaseOracleSpec, ProcessingOnlyAdvances

(***************************************************************************)
(* A report under processing only gives way to the report of a later slot. *)
(***************************************************************************)
ReportIsFinal ==
  \A o \in Oracles :
    /\ oracle[o].report.hash # ZeroHash
    /\ oracle[o].report.refSlot = oracle[o].lastProcessingRefSlot
    /\ oracle'[o].report # oracle[o].report
    => oracle'[o].report.refSlot > oracle[o].lastProcessingRefSlot

THEOREM ProcessingIsFinal == BaseOracleSpec => ReportFinalOnceProcessing
<1>1. ASSUME IInv, [BaseOracleNext]_baseOracleVars PROVE ReportIsFinal
  <2>1. \A o \in Oracles : oracle' = oracle \/ Step(o) \/ oracle'[o] = oracle[o]
    BY <1>1, NextSteps DEF OnlyOracle
  <2>2. QED
    BY <1>1, <2>1 DEF IInv, BaseOracleTypeOK, OracleStorage, ConsensusReport, Step, ReportIsFinal
<1>2. IInv /\ [BaseOracleNext]_baseOracleVars => [ReportIsFinal]_baseOracleVars
  BY <1>1
<1>3. QED
  BY <1>2, InitIInv, NextIInv, PTL DEF BaseOracleSpec, ReportFinalOnceProcessing, ReportIsFinal

------------------------------------------------------------------------------

(***************************************************************************)
(* The oracles implement ReportProcessor.                                  *)
(***************************************************************************)
LEMMA PendingType ==
  ASSUME IInv, NEW o \in Oracles
  PROVE  /\ PendingReport(o) \in RP!Report \union {None}
         /\ PendingReport(o) # None <=>
              /\ oracle[o].report.hash # ZeroHash
              /\ oracle[o].report.refSlot # oracle[o].lastProcessingRefSlot
  BY ZeroHashAssumption
  DEF IInv, BaseOracleTypeOK, OracleStorage, ConsensusReport, PendingReport, None, RP!Report

LEMMA InitImplements == BaseOracleInit => RP!Init
<1> SUFFICES ASSUME BaseOracleInit PROVE RP!Init
  OBVIOUS
<1>1. \A o \in Oracles : oracle[o].report.hash = ZeroHash
  BY DEF BaseOracleInit, Initialized
<1>2. \A o \in Oracles : oracle[o].lastProcessingRefSlot \in Nat
  BY InitIInv DEF IInv, BaseOracleTypeOK, OracleStorage
<1>3. QED
  BY <1>1, <1>2 DEF RP!Init, PendingReport

LEMMA StepImplements ==
  ASSUME IInv, IInv', [BaseOracleNext]_baseOracleVars
  PROVE  [RP!Next]_RP!vars
<1>1. CASE oracle' = oracle
  BY <1>1 DEF RP!vars, PendingReport
<1>2. ASSUME NEW o \in Oracles, Step(o), OnlyOracle(o)
      PROVE  [RP!Next]_RP!vars
  <2> DEFINE pending == [q \in Oracles |-> PendingReport(q)]
             processed == [q \in Oracles |-> oracle[q].lastProcessingRefSlot]
  <2>1. \A q \in Oracles \ {o} :
          /\ PendingReport(q)' = PendingReport(q)
          /\ oracle'[q].lastProcessingRefSlot = oracle[q].lastProcessingRefSlot
    BY <1>2 DEF OnlyOracle, PendingReport
  <2>2. pending' = [pending EXCEPT ![o] = PendingReport(o)']
    BY <2>1
  <2>3. processed' = [processed EXCEPT ![o] = oracle'[o].lastProcessingRefSlot]
    BY <2>1
  <2>4. /\ pending[o] = PendingReport(o)
        /\ pending'[o] = PendingReport(o)'
        /\ processed[o] = oracle[o].lastProcessingRefSlot
        /\ processed'[o] = oracle'[o].lastProcessingRefSlot
    OBVIOUS
  <2>5. CASE /\ PendingReport(o)' = PendingReport(o)
             /\ oracle'[o].lastProcessingRefSlot = oracle[o].lastProcessingRefSlot
    <3>1. pending' = pending /\ processed' = processed
      BY <2>1, <2>5
    <3>2. QED
      BY <3>1 DEF RP!vars
  <2>6. CASE /\ PendingReport(o) # None
             /\ PendingReport(o)' = None
             /\ oracle'[o].lastProcessingRefSlot = PendingReport(o).refSlot
    <3>1. RP!Take(o)
      BY <2>2, <2>3, <2>4, <2>6 DEF RP!Take
    <3>2. QED
      BY <3>1 DEF RP!Next
  <2>7. CASE /\ PendingReport(o) # None
             /\ PendingReport(o)' = None
             /\ oracle'[o].lastProcessingRefSlot = oracle[o].lastProcessingRefSlot
    <3>1. RP!Drop(o)
      BY <2>1, <2>2, <2>4, <2>7 DEF RP!Drop
    <3>2. QED
      BY <3>1 DEF RP!Next
  <2>8. CASE /\ PendingReport(o)' \in RP!Report
             /\ PendingReport(o)'.refSlot > oracle[o].lastProcessingRefSlot
             /\ PendingReport(o) # None => PendingReport(o)'.refSlot >= PendingReport(o).refSlot
             /\ oracle'[o].lastProcessingRefSlot = oracle[o].lastProcessingRefSlot
    <3>1. RP!Agree(o)
      BY <2>1, <2>2, <2>4, <2>8 DEF RP!Agree
    <3>2. QED
      BY <3>1 DEF RP!Next
  <2>9. QED
    <3> USE <1>2, PendingType DEF IInv, BaseOracleTypeOK, OracleStorage, ConsensusReport
    <3>1. CASE /\ oracle'[o].report = oracle[o].report
               /\ oracle'[o].lastProcessingRefSlot = oracle[o].lastProcessingRefSlot
      BY <2>5, <3>1 DEF PendingReport
    <3>2. CASE /\ oracle[o].report.hash # ZeroHash
               /\ oracle[o].lastProcessingRefSlot # oracle[o].report.refSlot
               /\ oracle'[o].report = oracle[o].report
               /\ oracle'[o].lastProcessingRefSlot = oracle[o].report.refSlot
      BY <2>6, <3>2 DEF PendingReport
    <3>3. CASE /\ oracle'[o].lastProcessingRefSlot = oracle[o].lastProcessingRefSlot
               /\ oracle'[o].report.hash = ZeroHash
      BY <2>5, <2>7, <3>3 DEF PendingReport
    <3>4. CASE /\ oracle'[o].lastProcessingRefSlot = oracle[o].lastProcessingRefSlot
               /\ oracle'[o].report.hash \in ReportHash
               /\ oracle'[o].report.refSlot \in Nat
               /\ oracle'[o].report.refSlot >= oracle[o].report.refSlot
               /\ oracle'[o].report.refSlot > oracle[o].lastProcessingRefSlot
      <4>1. PendingReport(o)' = [hash    |-> oracle'[o].report.hash,
                                 refSlot |-> oracle'[o].report.refSlot]
        BY <3>4, ZeroHashAssumption DEF PendingReport
      <4>2. PendingReport(o)' \in RP!Report
        BY <3>4, <4>1 DEF RP!Report
      <4>3. PendingReport(o) # None => PendingReport(o).refSlot = oracle[o].report.refSlot
        BY DEF PendingReport
      <4>4. QED
        BY <2>8, <3>4, <4>1, <4>2, <4>3
    <3>5. QED
      BY <3>1, <3>2, <3>3, <3>4 DEF Step
<1>3. QED
  BY <1>1, <1>2, NextSteps

(***************************************************************************)
(* BaseOracle implements ReportProcessor, whatever the consensus contracts *)
(* call and however they are replaced.                                     *)
(***************************************************************************)
THEOREM BaseOracleImplementsReportProcessor == BaseOracleSpec => ImplementsReportProcessor
<1>1. IInv /\ IInv' /\ [BaseOracleNext]_baseOracleVars => [RP!Next]_RP!vars
  BY StepImplements
<1>2. QED
  BY <1>1, InitIInv, NextIInv, InitImplements, PTL
  DEF BaseOracleSpec, ImplementsReportProcessor, RP!Spec

------------------------------------------------------------------------------

(***************************************************************************)
(* FrameTime, for any chain and frame configuration: what the clock and a  *)
(* change of the frame size do to the reference slot.                      *)
(***************************************************************************)
LEMMA EpochGrows ==
  ASSUME NEW t \in Nat, NEW u \in Nat, GENESIS_TIME <= t, t <= u
  PROVE  /\ ComputeEpochAtTimestamp(t) \in Nat
         /\ ComputeEpochAtTimestamp(u) \in Nat
         /\ ComputeEpochAtTimestamp(t) <= ComputeEpochAtTimestamp(u)
<1>1. /\ ComputeSlotAtTimestamp(t) \in Nat
      /\ ComputeSlotAtTimestamp(u) \in Nat
      /\ ComputeSlotAtTimestamp(t) <= ComputeSlotAtTimestamp(u)
  <2>1. t - GENESIS_TIME \in Nat /\ u - GENESIS_TIME \in Nat /\ t - GENESIS_TIME <= u - GENESIS_TIME
    BY ChainConfigAssumption
  <2>2. QED
    BY <2>1, Division, DivisionMonotone, ChainConfigAssumption DEF ComputeSlotAtTimestamp
<1>2. QED
  BY <1>1, Division, DivisionMonotone, ChainConfigAssumption DEF ComputeEpochAtTimestamp

(***************************************************************************)
(* Frames: the current epoch is in the frame, whose reference slot is the  *)
(* one before its first epoch.                                             *)
(***************************************************************************)
LEMMA FrameHasEpoch ==
  ASSUME NEW t \in Nat, GENESIS_TIME <= t, NEW config \in FrameConfig,
         InitialEpochArrived(t, config)
  PROVE  LET start == ComputeFrameStartEpoch(t, config)
         IN  /\ ComputeFrameIndex(t, config) \in Nat
             /\ start \in Nat
             /\ config.initialEpoch <= start
             /\ start <= ComputeEpochAtTimestamp(t)
             /\ ComputeEpochAtTimestamp(t) < start + config.epochsPerFrame
<1> DEFINE epoch == ComputeEpochAtTimestamp(t)
           q == ComputeFrameIndex(t, config)
<1>1. epoch \in Nat /\ config.initialEpoch \in Nat /\ config.epochsPerFrame \in Nat \ {0}
  BY EpochGrows DEF FrameConfig
<1>2. epoch - config.initialEpoch \in Nat
  BY <1>1 DEF InitialEpochArrived
<1>3. /\ q \in Nat
      /\ q * config.epochsPerFrame <= epoch - config.initialEpoch
      /\ epoch - config.initialEpoch < q * config.epochsPerFrame + config.epochsPerFrame
  BY <1>1, <1>2, Division DEF ComputeFrameIndex
<1>4. ComputeFrameStartEpoch(t, config) = config.initialEpoch + q * config.epochsPerFrame
  BY DEF ComputeFrameStartEpoch, ComputeStartEpochOfFrameWithIndex
<1>5. q * config.epochsPerFrame \in Nat
  BY <1>1, <1>3
<1>6. QED
  <2> HIDE DEF epoch, q
  <2> QED BY <1>1, <1>3, <1>4, <1>5 DEF epoch, q

LEMMA RefSlotOfFrame ==
  ASSUME NEW t, NEW config
  PROVE  FrameAtTimestamp(t, config).refSlot
           = ComputeFrameStartEpoch(t, config) * SLOTS_PER_EPOCH - 1
BY DEF FrameAtTimestamp, FrameAtIndex, ComputeFrameStartEpoch, ComputeStartSlotAtEpoch

LEMMA DeadlineOfFrame ==
  ASSUME NEW t, NEW config
  PROVE  FrameAtTimestamp(t, config).reportProcessingDeadlineSlot
           = ComputeFrameStartEpoch(t, config) * SLOTS_PER_EPOCH
               + config.epochsPerFrame * SLOTS_PER_EPOCH - 1 - DEADLINE_SLOT_OFFSET
BY DEF FrameAtTimestamp, FrameAtIndex, ComputeFrameStartEpoch, ComputeStartSlotAtEpoch

(***************************************************************************)
(* Time never takes the reference slot back.                               *)
(***************************************************************************)
LEMMA FrameStartGrows ==
  ASSUME NEW t \in Nat, NEW u \in Nat, GENESIS_TIME <= t, t <= u, NEW config \in FrameConfig,
         InitialEpochArrived(t, config)
  PROVE  /\ InitialEpochArrived(u, config)
         /\ ComputeFrameStartEpoch(t, config) <= ComputeFrameStartEpoch(u, config)
<1> DEFINE n == config.epochsPerFrame
           init == config.initialEpoch
<1>1. n \in Nat \ {0} /\ init \in Nat
  BY DEF FrameConfig
<1>2. /\ ComputeEpochAtTimestamp(t) \in Nat
      /\ ComputeEpochAtTimestamp(u) \in Nat
      /\ ComputeEpochAtTimestamp(t) <= ComputeEpochAtTimestamp(u)
  BY EpochGrows
<1>3. init <= ComputeEpochAtTimestamp(t) /\ InitialEpochArrived(u, config)
  BY <1>1, <1>2 DEF InitialEpochArrived
<1>4. /\ ComputeFrameIndex(t, config) \in Nat
      /\ ComputeFrameIndex(u, config) \in Nat
      /\ ComputeFrameIndex(t, config) <= ComputeFrameIndex(u, config)
  <2>1. /\ ComputeEpochAtTimestamp(t) - init \in Nat
        /\ ComputeEpochAtTimestamp(u) - init \in Nat
        /\ ComputeEpochAtTimestamp(t) - init <= ComputeEpochAtTimestamp(u) - init
    BY <1>1, <1>2, <1>3
  <2>2. QED
    BY <1>1, <2>1, Division, DivisionMonotone DEF ComputeFrameIndex
<1>5. ComputeFrameIndex(t, config) * n <= ComputeFrameIndex(u, config) * n
  BY <1>1, <1>4, MultipleMonotone
<1>6. QED
  BY <1>1, <1>3, <1>4, <1>5 DEF ComputeFrameStartEpoch, ComputeStartEpochOfFrameWithIndex

LEMMA RefSlotGrows ==
  ASSUME NEW t \in Nat, NEW u \in Nat, GENESIS_TIME <= t, t <= u, NEW config \in FrameConfig,
         InitialEpochArrived(t, config)
  PROVE  /\ FrameAtTimestamp(t, config).refSlot \in Int
         /\ FrameAtTimestamp(u, config).refSlot \in Int
         /\ FrameAtTimestamp(t, config).refSlot <= FrameAtTimestamp(u, config).refSlot
<1>1. InitialEpochArrived(u, config)
  BY FrameStartGrows
<1>2. /\ ComputeFrameStartEpoch(t, config) \in Nat
      /\ ComputeFrameStartEpoch(u, config) \in Nat
      /\ ComputeFrameStartEpoch(t, config) <= ComputeFrameStartEpoch(u, config)
  BY <1>1, FrameHasEpoch, FrameStartGrows, ChainConfigAssumption
<1>3. ComputeFrameStartEpoch(t, config) * SLOTS_PER_EPOCH
        <= ComputeFrameStartEpoch(u, config) * SLOTS_PER_EPOCH
  BY <1>2, MultipleMonotone, ChainConfigAssumption
<1>4. /\ ComputeFrameStartEpoch(t, config) * SLOTS_PER_EPOCH \in Int
      /\ ComputeFrameStartEpoch(u, config) * SLOTS_PER_EPOCH \in Int
  BY <1>2, ChainConfigAssumption
<1>5. QED
  BY <1>3, <1>4, RefSlotOfFrame

(***************************************************************************)
(* A new frame size takes effect at the start of the running frame, and    *)
(* keeps its reference slot or moves it by at least a new frame.           *)
(***************************************************************************)
LEMMA NewFrameSize ==
  ASSUME NEW t \in Nat, GENESIS_TIME <= t, NEW config \in FrameConfig, NEW new \in FrameConfig,
         InitialEpochArrived(t, config),
         new.initialEpoch = ComputeFrameStartEpoch(t, config)
  PROVE  LET refSlot == FrameAtTimestamp(t, config).refSlot
             newRefSlot == FrameAtTimestamp(t, new).refSlot
         IN  /\ InitialEpochArrived(t, new)
             /\ newRefSlot = refSlot \/ newRefSlot >= refSlot + new.epochsPerFrame * SLOTS_PER_EPOCH
<1> DEFINE start == ComputeFrameStartEpoch(t, config)
           n == new.epochsPerFrame
           q == ComputeFrameIndex(t, new)
<1>1. n \in Nat \ {0} /\ start \in Nat /\ start <= ComputeEpochAtTimestamp(t)
  BY FrameHasEpoch DEF FrameConfig
<1>2. InitialEpochArrived(t, new)
  BY <1>1, EpochGrows DEF InitialEpochArrived
<1>3. q \in Nat
  BY <1>2, FrameHasEpoch
<1>4. ComputeFrameStartEpoch(t, new) = start + q * n
  BY DEF ComputeFrameStartEpoch, ComputeStartEpochOfFrameWithIndex
<1>5. ComputeFrameStartEpoch(t, new) * SLOTS_PER_EPOCH
        = start * SLOTS_PER_EPOCH + q * (n * SLOTS_PER_EPOCH)
  BY <1>1, <1>3, <1>4, ChainConfigAssumption
<1>6. n * SLOTS_PER_EPOCH \in Nat /\ start * SLOTS_PER_EPOCH \in Nat
  BY <1>1, ChainConfigAssumption
<1>7. q = 0 \/ n * SLOTS_PER_EPOCH <= q * (n * SLOTS_PER_EPOCH)
  <2>1. CASE q # 0
    <3>1. 1 * (n * SLOTS_PER_EPOCH) <= q * (n * SLOTS_PER_EPOCH)
      BY <1>3, <1>6, <2>1, MultipleMonotone
    <3>2. QED
      BY <1>6, <3>1
  <2>2. QED
    BY <2>1
<1>8. q * (n * SLOTS_PER_EPOCH) \in Nat
  BY <1>3, <1>6
<1>9. /\ FrameAtTimestamp(t, config).refSlot = start * SLOTS_PER_EPOCH - 1
      /\ FrameAtTimestamp(t, new).refSlot
           = start * SLOTS_PER_EPOCH + q * (n * SLOTS_PER_EPOCH) - 1
  <2>1. FrameAtTimestamp(t, config).refSlot = start * SLOTS_PER_EPOCH - 1
    BY RefSlotOfFrame, Zenon
  <2>2. FrameAtTimestamp(t, new).refSlot = ComputeFrameStartEpoch(t, new) * SLOTS_PER_EPOCH - 1
    BY RefSlotOfFrame, Zenon
  <2> DEFINE startSlot == start * SLOTS_PER_EPOCH
             newStartSlot == ComputeFrameStartEpoch(t, new) * SLOTS_PER_EPOCH
             skipped == q * (n * SLOTS_PER_EPOCH)
  <2>3. newStartSlot = startSlot + skipped /\ startSlot \in Nat /\ skipped \in Nat
    BY <1>5, <1>6, <1>8
  <2>4. FrameAtTimestamp(t, new).refSlot = newStartSlot - 1
    BY <2>2
  <2>5. FrameAtTimestamp(t, new).refSlot = startSlot + skipped - 1
    <3> HIDE DEF startSlot, newStartSlot, skipped
    <3> QED BY <2>3, <2>4
  <2>6. QED
    BY <2>1, <2>5
<1>10. q = 0 => q * (n * SLOTS_PER_EPOCH) = 0
  BY <1>6
<1>11. QED
  <2> DEFINE frameSlots == n * SLOTS_PER_EPOCH
             startSlot == start * SLOTS_PER_EPOCH
             skipped == q * frameSlots
  <2>1. /\ frameSlots \in Nat /\ startSlot \in Nat /\ skipped \in Nat
        /\ skipped = 0 \/ frameSlots <= skipped
        /\ FrameAtTimestamp(t, config).refSlot = startSlot - 1
        /\ FrameAtTimestamp(t, new).refSlot = startSlot + skipped - 1
    BY <1>6, <1>7, <1>8, <1>9, <1>10
  <2>2. \/ startSlot + skipped - 1 = startSlot - 1
        \/ startSlot + skipped - 1 >= startSlot - 1 + frameSlots
    <3> HIDE DEF frameSlots, startSlot, skipped
    <3> QED BY <2>1
  <2>3. QED
    BY <1>2, <2>1, <2>2

------------------------------------------------------------------------------

(***************************************************************************)
(* The invariant.  Nothing in the state is of a slot after the current     *)
(* reference slot, so that when the slot moves on everything gathered so   *)
(* far is of the past.                                                     *)
(***************************************************************************)
Time ==
  /\ GENESIS_TIME <= now
  /\ \E slot \in Nat : now = ComputeTimestampAtSlot(slot)

OfThePast(slot) == FrameStarted /\ slot <= CurrentFrame.refSlot

OraclesAreOfThePast ==
  \A o \in Oracles : \/ oracle[o].report.refSlot = oracle[o].lastProcessingRefSlot
                     \/ OfThePast(oracle[o].report.refSlot)

MembersAreOfThePast ==
  \A k \in DOMAIN memberStates : \/ memberStates[k].lastReportRefSlot = 0
                                 \/ OfThePast(memberStates[k].lastReportRefSlot)

ConsensusIsOfThePast ==
  \/ reportingState.lastConsensusRefSlot = 0
  \/ /\ OfThePast(reportingState.lastConsensusRefSlot)
     /\ reportingState.lastConsensusRefSlot = CurrentFrame.refSlot =>
          /\ reportingState.lastReportRefSlot = CurrentFrame.refSlot
          /\ reportingState.lastConsensusVariantIndex \in DOMAIN reportVariants

HCInv ==
  /\ TypeOK
  /\ Time
  /\ ReportNotBehindProcessing
  /\ OraclesAreOfThePast
  /\ ConsensusIsOfThePast
  /\ MembersConsistent
  /\ MembersAreOfThePast
  /\ SupportNeverUnderflows

(***************************************************************************)
(* The current frame: its deadline is not over.                            *)
(***************************************************************************)
LEMMA CurrentFrameFacts ==
  ASSUME now \in Nat, GENESIS_TIME <= now, frameConfig \in FrameConfig, FrameStarted
  PROVE  /\ CurrentFrame.refSlot \in Int
         /\ CurrentFrame.reportProcessingDeadlineSlot \in Int
         /\ CurrentFrame.refSlot <= CurrentFrame.reportProcessingDeadlineSlot
         /\ CurrentSlot \in Nat
         /\ CurrentSlot <= CurrentFrame.reportProcessingDeadlineSlot
<1> DEFINE start == ComputeFrameStartEpoch(now, frameConfig)
           n == frameConfig.epochsPerFrame
           epoch == ComputeEpochAtTimestamp(now)
           startSlot == start * SLOTS_PER_EPOCH
           frameSlots == n * SLOTS_PER_EPOCH
<1>1. /\ start \in Nat /\ n \in Nat \ {0} /\ epoch \in Nat
      /\ start <= epoch /\ epoch < start + n
  BY FrameHasEpoch, EpochGrows DEF FrameStarted, FrameConfig
<1>2. startSlot \in Nat /\ frameSlots \in Nat
  BY <1>1, ChainConfigAssumption
<1>3. CurrentFrame.refSlot = startSlot - 1
  BY RefSlotOfFrame, Zenon DEF CurrentFrame
<1>4. CurrentFrame.reportProcessingDeadlineSlot = startSlot + frameSlots - 1 - DEADLINE_SLOT_OFFSET
  BY DeadlineOfFrame, Zenon DEF CurrentFrame
<1>5. CurrentSlot \in Nat
  <2>1. now - GENESIS_TIME \in Nat
    BY ChainConfigAssumption
  <2>2. QED
    BY <2>1, Division, ChainConfigAssumption DEF CurrentSlot, ComputeSlotAtTimestamp
<1>6. CurrentSlot < startSlot + frameSlots
  <2>1. CurrentSlot < epoch * SLOTS_PER_EPOCH + SLOTS_PER_EPOCH
    BY <1>5, Division, ChainConfigAssumption DEF CurrentSlot, ComputeEpochAtTimestamp
  <2>2. (epoch + 1) * SLOTS_PER_EPOCH <= (start + n) * SLOTS_PER_EPOCH
    <3> HIDE DEF epoch, start, n
    <3> QED BY <1>1, MultipleMonotone, ChainConfigAssumption
  <2>3. (epoch + 1) * SLOTS_PER_EPOCH = epoch * SLOTS_PER_EPOCH + SLOTS_PER_EPOCH
    <3> HIDE DEF epoch
    <3> QED BY <1>1, ChainConfigAssumption
  <2>4. (start + n) * SLOTS_PER_EPOCH = startSlot + frameSlots
    <3> HIDE DEF start, n
    <3> QED BY <1>1, ChainConfigAssumption
  <2>5. epoch * SLOTS_PER_EPOCH \in Nat
    BY <1>1, ChainConfigAssumption
  <2>6. QED
    <3> DEFINE epochSlot == epoch * SLOTS_PER_EPOCH
    <3>1. /\ CurrentSlot < epochSlot + SLOTS_PER_EPOCH
          /\ epochSlot + SLOTS_PER_EPOCH <= startSlot + frameSlots
          /\ epochSlot \in Nat
      BY <2>1, <2>2, <2>3, <2>4, <2>5
    <3> HIDE DEF epochSlot, startSlot, frameSlots
    <3> QED BY <1>2, <1>5, <3>1, ChainConfigAssumption
<1>7. QED
  <2> HIDE DEF startSlot, frameSlots
  <2> QED BY <1>2, <1>3, <1>4, <1>5, <1>6 DEF DEADLINE_SLOT_OFFSET

LEMMA DeadlineIsAhead ==
  ASSUME now \in Nat, Time, frameConfig \in FrameConfig, FrameStarted
  PROVE  now <= ComputeTimestampAtSlot(CurrentFrame.reportProcessingDeadlineSlot)
<1> DEFINE deadline == CurrentFrame.reportProcessingDeadlineSlot
<1>1. deadline \in Int /\ CurrentSlot <= deadline
  BY CurrentFrameFacts DEF Time
<1>2. PICK slot \in Nat : now = GENESIS_TIME + slot * SECONDS_PER_SLOT
  BY DEF Time, ComputeTimestampAtSlot
<1>3. CurrentSlot = slot
  <2>1. now - GENESIS_TIME = slot * SECONDS_PER_SLOT /\ slot * SECONDS_PER_SLOT \in Nat
    BY <1>2, ChainConfigAssumption
  <2>2. (slot * SECONDS_PER_SLOT) \div SECONDS_PER_SLOT = slot
    BY ChainConfigAssumption
  <2>3. QED
    BY <2>1, <2>2 DEF CurrentSlot, ComputeSlotAtTimestamp
<1>4. slot * SECONDS_PER_SLOT <= deadline * SECONDS_PER_SLOT
  <2> HIDE DEF deadline
  <2> QED BY <1>1, <1>3, MultipleMonotone, ChainConfigAssumption
<1>5. slot * SECONDS_PER_SLOT \in Int /\ deadline * SECONDS_PER_SLOT \in Int
  <2> HIDE DEF deadline
  <2> QED BY <1>1, ChainConfigAssumption
<1>6. QED
  BY <1>2, <1>4, <1>5, ChainConfigAssumption DEF ComputeTimestampAtSlot

------------------------------------------------------------------------------

(***************************************************************************)
(* What the committee sends to a processor keeps the oracles' part.        *)
(***************************************************************************)
OraclesInv == IInv /\ OraclesAreOfThePast

LEMMA SubmitKeepsOracles ==
  ASSUME TypeOK, Time, OraclesInv, FrameStarted, UNCHANGED <<now, frameConfig>>,
         NEW o \in Oracles, NEW report \in ReportHash,
         SubmitReportForProcessing(o, CurrentFrame, report)
  PROVE  OraclesInv' /\ CurrentFrame.refSlot \in Nat
<1> DEFINE slot == CurrentFrame.refSlot
           deadline == ComputeTimestampAtSlot(CurrentFrame.reportProcessingDeadlineSlot)
<1>1. SubmitConsensusReport(o, HC, report, slot, deadline)
  BY DEF SubmitReportForProcessing
<1>2. oracle \in [Oracles -> OracleStorage] /\ now \in Nat /\ frameConfig \in FrameConfig
  BY DEF TypeOK, BaseOracleTypeOK
<1>3. slot \in Nat
  <2>1. slot \in Int
    BY <1>2, CurrentFrameFacts DEF Time
  <2>2. oracle[o].lastProcessingRefSlot \in Nat /\ slot > oracle[o].lastProcessingRefSlot
    BY <1>1, <1>2 DEF SubmitConsensusReport, OracleStorage
  <2>3. QED
    BY <2>1, <2>2
<1>4. deadline \in Nat
  <2>1. /\ CurrentFrame.reportProcessingDeadlineSlot \in Int
        /\ slot <= CurrentFrame.reportProcessingDeadlineSlot
    BY <1>2, CurrentFrameFacts DEF Time
  <2>2. CurrentFrame.reportProcessingDeadlineSlot \in Nat
    BY <1>3, <2>1
  <2>3. QED
    BY <2>2, ChainConfigAssumption DEF ComputeTimestampAtSlot
<1>5. IInv'
  <2> HIDE DEF slot, deadline
  <2> QED BY <1>1, <1>3, <1>4, SubmitKeepsIInv, HashConsensusAssumption DEF OraclesInv
<1>6. OraclesAreOfThePast'
  <2>1. FrameStarted' /\ CurrentFrame' = CurrentFrame
    BY DEF FrameStarted, CurrentFrame
  <2>2. ASSUME NEW p \in Oracles
        PROVE  \/ oracle'[p].report.refSlot = oracle'[p].lastProcessingRefSlot
               \/ oracle'[p].report.refSlot <= slot
    <3>1. \/ oracle[p].report.refSlot = oracle[p].lastProcessingRefSlot
          \/ oracle[p].report.refSlot <= slot
      BY DEF OraclesInv, OraclesAreOfThePast, OfThePast
    <3>2. CASE p = o
      <4>1. oracle'[o].report.refSlot = slot
        BY <1>1, <1>2 DEF SubmitConsensusReport, OracleStorage
      <4>2. QED
        BY <1>3, <3>2, <4>1
    <3>3. CASE p # o
      BY <1>1, <1>2, <3>1, <3>3 DEF SubmitConsensusReport
    <3>4. QED
      BY <3>2, <3>3
  <2>3. QED
    BY <2>1, <2>2 DEF OraclesAreOfThePast, OfThePast
<1>7. QED
  BY <1>3, <1>5, <1>6 DEF OraclesInv

LEMMA DiscardKeepsOracles ==
  ASSUME TypeOK, OraclesInv, FrameStarted, UNCHANGED <<now, frameConfig>>,
         NEW o \in Oracles, CurrentFrame.refSlot \in Nat,
         DiscardConsensusReport(o, HC, CurrentFrame.refSlot)
  PROVE  OraclesInv'
<1>1. oracle \in [Oracles -> OracleStorage]
  BY DEF TypeOK, BaseOracleTypeOK
<1>2. IInv'
  BY DiscardKeepsIInv, HashConsensusAssumption DEF OraclesInv
<1>3. \A p \in Oracles : /\ oracle'[p].report.refSlot = oracle[p].report.refSlot
                         /\ oracle'[p].lastProcessingRefSlot = oracle[p].lastProcessingRefSlot
  BY <1>1 DEF DiscardConsensusReport, OracleStorage, ConsensusReport
<1>4. OraclesAreOfThePast'
  BY <1>3 DEF OraclesInv, OraclesAreOfThePast, OfThePast, FrameStarted, CurrentFrame
<1>5. QED
  BY <1>2, <1>4 DEF OraclesInv

LEMMA UnchangedKeepsOracles ==
  ASSUME OraclesInv, UNCHANGED <<now, frameConfig, oracle>>
  PROVE  OraclesInv'
BY DEF OraclesInv, IInv, BaseOracleTypeOK, ReportNotBehindProcessing, OraclesAreOfThePast,
       OfThePast, FrameStarted, CurrentFrame

(***************************************************************************)
(* _consensusReached and _consensusNotReached: what they leave of the      *)
(* reporting state rs they are called with.                                *)
(***************************************************************************)
Settled(rs) ==
  /\ reportingState' \in ReportingState
  /\ reportingState'.lastReportRefSlot = rs.lastReportRefSlot
  /\ \/ reportingState'.lastConsensusRefSlot = 0
     \/ reportingState' = rs
     \/ /\ reportingState'.lastConsensusRefSlot = CurrentFrame.refSlot
        /\ rs.lastReportRefSlot = CurrentFrame.refSlot
        /\ reportingState'.lastConsensusVariantIndex \in DOMAIN reportVariants'

LEMMA ReachedKeepsOracles ==
  ASSUME TypeOK, Time, OraclesInv, FrameStarted, UNCHANGED <<now, frameConfig>>,
         NEW rs \in ReportingState, rs.lastReportRefSlot = CurrentFrame.refSlot,
         NEW report \in ReportHash, NEW i \in Nat, i \in DOMAIN reportVariants',
         ConsensusReached(rs, CurrentFrame, report, i)
  PROVE  OraclesInv' /\ Settled(rs)
<1>1. reportProcessor \in Oracles
  BY DEF TypeOK
<1>2. CASE SubmitReportForProcessing(reportProcessor, CurrentFrame, report) /\
           reportingState' = [rs EXCEPT !.lastConsensusRefSlot = CurrentFrame.refSlot,
                                        !.lastConsensusVariantIndex = i]
  <2>1. OraclesInv' /\ CurrentFrame.refSlot \in Nat
    BY <1>1, <1>2, SubmitKeepsOracles
  <2>2. QED
    BY <1>2, <2>1 DEF Settled, ReportingState
<1>3. CASE reportingState' = rs /\ UNCHANGED oracle
  BY <1>3, UnchangedKeepsOracles DEF Settled
<1>4. QED
  BY <1>2, <1>3 DEF ConsensusReached

LEMMA NotReachedKeepsOracles ==
  ASSUME TypeOK, OraclesInv, FrameStarted, UNCHANGED <<now, frameConfig>>,
         NEW rs \in ReportingState, ConsensusNotReached(rs, CurrentFrame)
  PROVE  OraclesInv' /\ Settled(rs)
<1>1. reportProcessor \in Oracles
  BY DEF TypeOK
<1>2. CASE rs.lastConsensusRefSlot = CurrentFrame.refSlot
  <2>1. /\ reportingState' = [rs EXCEPT !.lastConsensusRefSlot = 0]
        /\ DiscardConsensusReport(reportProcessor, HC, CurrentFrame.refSlot)
    BY <1>2 DEF ConsensusNotReached
  <2>2. CurrentFrame.refSlot \in Nat
    BY <1>2 DEF ReportingState
  <2>3. OraclesInv'
    BY <1>1, <2>1, <2>2, DiscardKeepsOracles
  <2>4. QED
    BY <2>1, <2>3 DEF Settled, ReportingState
<1>3. CASE rs.lastConsensusRefSlot # CurrentFrame.refSlot
  BY <1>3, UnchangedKeepsOracles DEF ConsensusNotReached, Settled
<1>4. QED
  BY <1>2, <1>3

(***************************************************************************)
(* A set of naturals has a least element, so that the first variant with   *)
(* enough support is one of the variants.                                  *)
(***************************************************************************)
LEMMA LeastElement ==
  ASSUME NEW S \in SUBSET Nat, S # {}
  PROVE  (CHOOSE m \in S : \A n \in S : m <= n) \in S
<1> DEFINE Less == {pair \in Nat \X Nat : pair[1] < pair[2]}
<1>1. IsWellFoundedOn(Less, Nat)
  BY NatLessThanWellFounded DEF OpToRel
<1>2. PICK m \in S : \A n \in S : ~ (<<n, m>> \in Less)
  <2> HIDE DEF Less
  <2> QED BY <1>1, WFMin
<1>3. ASSUME NEW n \in S PROVE m <= n
  <2>1. n \in Nat /\ m \in Nat
    BY <1>3
  <2>2. n < m => <<n, m>> \in Less
    BY <2>1
  <2>3. ~ (n < m)
    <3> HIDE DEF Less
    <3> QED BY <1>2, <1>3, <2>2
  <2>4. QED
    BY <2>1, <2>3
<1>4. QED
  BY <1>3

LEMMA CheckKeepsOracles ==
  ASSUME TypeOK, Time, OraclesInv, FrameStarted, UNCHANGED <<now, frameConfig>>,
         reportVariants' \in Seq(ReportVariant), NEW q \in Nat, CheckConsensus(q)
  PROVE  OraclesInv' /\ Settled(reportingState)
<1> DEFINE agreed == {i \in DOMAIN reportVariants' :
                        /\ reportingState.lastReportRefSlot = CurrentFrame.refSlot
                        /\ reportVariants'[i].support >= q}
           first == CHOOSE i \in agreed : \A j \in agreed : i <= j
<1>1. reportingState \in ReportingState
  BY DEF TypeOK
<1>2. CASE UNCHANGED <<reportingState, oracle>>
  BY <1>1, <1>2, UnchangedKeepsOracles DEF Settled
<1>3. CASE /\ agreed # {}
           /\ ConsensusReached(reportingState, CurrentFrame, reportVariants'[first].hash, first)
  <2>1. agreed \subseteq Nat /\ agreed \subseteq DOMAIN reportVariants'
    OBVIOUS
  <2>2. first \in agreed
    <3> HIDE DEF agreed
    <3> QED BY <1>3, <2>1, LeastElement
  <2>3. reportingState.lastReportRefSlot = CurrentFrame.refSlot
    BY <1>3
  <2>4. first \in Nat /\ first \in DOMAIN reportVariants'
    <3> HIDE DEF agreed, first
    <3> QED BY <2>1, <2>2
  <2>5. reportVariants'[first].hash \in ReportHash
    <3> HIDE DEF agreed, first
    <3>1. reportVariants'[first] \in ReportVariant
      BY <2>4, ElementOfSeq, LenProperties
    <3>2. QED
      BY <3>1 DEF ReportVariant
  <2>6. QED
    <3> HIDE DEF first
    <3> QED BY <1>1, <1>3, <2>3, <2>4, <2>5, ReachedKeepsOracles
<1>4. CASE ConsensusNotReached(reportingState, CurrentFrame)
  BY <1>1, <1>4, NotReachedKeepsOracles
<1>5. QED
  BY <1>2, <1>3, <1>4 DEF CheckConsensus

------------------------------------------------------------------------------

(***************************************************************************)
(* The tables of members.                                                  *)
(***************************************************************************)
LEMMA SwapAndPopElements ==
  ASSUME NEW S, NEW s \in Seq(S), NEW i \in 1..Len(s)
  PROVE  /\ SwapAndPop(s, i) \in Seq(S)
         /\ Len(SwapAndPop(s, i)) = Len(s) - 1
         /\ \A k \in 1..Len(s) - 1 : SwapAndPop(s, i)[k] = IF k = i THEN s[Len(s)] ELSE s[k]
<1> DEFINE swapped == [s EXCEPT ![i] = s[Len(s)]]
<1>1. Len(s) \in Nat /\ Len(s) \in 1..Len(s) /\ s[Len(s)] \in S
  BY LenProperties, ElementOfSeq
<1>2. /\ swapped \in Seq(S)
      /\ Len(swapped) = Len(s)
      /\ \A j \in 1..Len(s) : swapped[j] = IF j = i THEN s[Len(s)] ELSE s[j]
  BY <1>1, ExceptSeq
<1>3. SwapAndPop(s, i) = SubSeq(swapped, 1, Len(s) - 1)
  BY DEF SwapAndPop
<1>4. \A j \in 1..Len(s) - 1 : swapped[j] \in S
  <2> HIDE DEF swapped
  <2> QED BY <1>1, <1>2, ElementOfSeq
<1>5. /\ SubSeq(swapped, 1, Len(s) - 1) \in Seq(S)
      /\ Len(SubSeq(swapped, 1, Len(s) - 1)) = Len(s) - 1
      /\ \A k \in 1..Len(s) - 1 : SubSeq(swapped, 1, Len(s) - 1)[k] = swapped[k]
  <2> HIDE DEF swapped
  <2> DEFINE rest == Len(s) - 1
             sub == SubSeq(swapped, 1, rest)
  <2>1. rest \in Nat
    BY <1>1
  <2>2. /\ sub \in Seq(S)
        /\ Len(sub) = IF 1 <= rest THEN rest - 1 + 1 ELSE 0
        /\ \A k \in 1..rest - 1 + 1 : sub[k] = swapped[1 + k - 1]
    <3> HIDE DEF rest
    <3>1. rest \in Int /\ 1 \in Int /\ \A j \in 1..rest : swapped[j] \in S
      BY <1>4, <2>1 DEF rest
    <3>2. QED
      BY <3>1, SubSeqProperties
  <2> HIDE DEF rest, sub
  <2>3. Len(sub) = rest
    BY <2>1, <2>2
  <2>4. ASSUME NEW k \in 1..rest PROVE sub[k] = swapped[k]
    <3>1. k \in 1..rest - 1 + 1 /\ 1 + k - 1 = k
      BY <2>1, <2>4
    <3>2. sub[k] = swapped[1 + k - 1]
      BY <2>2, <3>1
    <3>3. QED
      BY <3>1, <3>2
  <2>5. QED
    BY <2>2, <2>3, <2>4 DEF rest, sub
<1>6. QED
  <2> HIDE DEF swapped
  <2> QED BY <1>1, <1>2, <1>3, <1>5

LEMMA AddKeepsMembers ==
  ASSUME TypeOK, MembersConsistent, NEW addr \in Addresses, ~IsMember(addr),
         memberStates' = Append(memberStates, [lastReportRefSlot |-> 0, lastReportVariantIndex |-> 0]),
         memberAddresses' = Append(memberAddresses, addr),
         memberIndices1b' = [memberIndices1b EXCEPT ![addr] = Len(memberStates) + 1]
  PROVE  /\ memberStates' \in Seq(MemberState)
         /\ memberAddresses' \in Seq(Addresses)
         /\ memberIndices1b' \in [Addresses -> Nat]
         /\ MembersConsistent'
<1> DEFINE new == [lastReportRefSlot |-> 0, lastReportVariantIndex |-> 0]
           total == Len(memberAddresses)
<1>1. /\ memberStates \in Seq(MemberState) /\ memberAddresses \in Seq(Addresses)
      /\ memberIndices1b \in [Addresses -> Nat] /\ new \in MemberState
      /\ total \in Nat /\ Len(memberStates) = total
  BY LenProperties DEF TypeOK, MemberState, MembersConsistent
<1>2. memberStates' \in Seq(MemberState) /\ Len(memberStates') = total + 1
  BY <1>1, AppendProperties
<1>3. /\ memberAddresses' \in Seq(Addresses)
      /\ Len(memberAddresses') = total + 1
      /\ \A k \in 1..total : memberAddresses'[k] = memberAddresses[k]
      /\ memberAddresses'[total + 1] = addr
  BY <1>1, AppendProperties
<1>4. DOMAIN memberAddresses = 1..total /\ DOMAIN memberAddresses' = 1..(total + 1)
  BY <1>1, <1>3, LenProperties
<1>5. memberIndices1b' \in [Addresses -> Nat]
  BY <1>1
<1>6. /\ memberIndices1b'[addr] = total + 1
      /\ \A a \in Addresses \ {addr} : memberIndices1b'[a] = memberIndices1b[a]
  BY <1>1
<1>7. ASSUME NEW k \in 1..(total + 1) PROVE memberIndices1b'[memberAddresses'[k]] = k
  <2>1. CASE k = total + 1
    BY <1>3, <1>6, <2>1
  <2>2. CASE k # total + 1
    <3>1. k \in 1..total
      BY <1>1, <2>2
    <3>2. memberAddresses'[k] = memberAddresses[k] /\ memberAddresses[k] \in Addresses
      BY <1>1, <1>3, <3>1, ElementOfSeq
    <3>3. memberIndices1b[memberAddresses[k]] = k
      BY <1>4, <3>1 DEF MembersConsistent
    <3>4. memberAddresses[k] # addr
      BY <3>1, <3>3 DEF IsMember
    <3>5. QED
      BY <1>6, <3>2, <3>3, <3>4
  <2>3. QED
    BY <2>1, <2>2
<1>8. ASSUME NEW a \in Addresses, memberIndices1b'[a] # 0
      PROVE  memberIndices1b'[a] \in 1..(total + 1) /\ memberAddresses'[memberIndices1b'[a]] = a
  <2>1. CASE a = addr
    BY <1>1, <1>3, <1>6, <2>1
  <2>2. CASE a # addr
    <3>1. /\ memberIndices1b'[a] = memberIndices1b[a]
          /\ memberIndices1b[a] \in 1..total
          /\ memberAddresses[memberIndices1b[a]] = a
      BY <1>4, <1>6, <1>8, <2>2 DEF MembersConsistent, IsMember
    <3>2. QED
      BY <1>1, <1>3, <3>1
  <2>3. QED
    BY <2>1, <2>2
<1>9. QED
  BY <1>2, <1>3, <1>4, <1>5, <1>7, <1>8 DEF MembersConsistent, IsMember

LEMMA RemoveKeepsMembers ==
  ASSUME TypeOK, MembersConsistent, NEW addr \in Addresses, IsMember(addr),
         memberStates' = SwapAndPop(memberStates, memberIndices1b[addr]),
         memberAddresses' = SwapAndPop(memberAddresses, memberIndices1b[addr]),
         memberIndices1b' =
           [memberIndices1b EXCEPT ![memberAddresses[Len(memberAddresses)]] = memberIndices1b[addr],
                                   ![addr] = 0]
  PROVE  /\ memberStates' \in Seq(MemberState)
         /\ memberAddresses' \in Seq(Addresses)
         /\ memberIndices1b' \in [Addresses -> Nat]
         /\ MembersConsistent'
<1> DEFINE total == Len(memberAddresses)
           index == memberIndices1b[addr]
           last  == memberAddresses[total]
<1>1. /\ memberStates \in Seq(MemberState) /\ memberAddresses \in Seq(Addresses)
      /\ memberIndices1b \in [Addresses -> Nat]
      /\ total \in Nat /\ Len(memberStates) = total
      /\ DOMAIN memberAddresses = 1..total
  BY LenProperties DEF TypeOK, MembersConsistent
<1>2. index \in 1..total /\ memberAddresses[index] = addr
  BY <1>1 DEF MembersConsistent, IsMember
<1>3. total \in 1..total /\ last \in Addresses /\ memberIndices1b[last] = total
  BY <1>1, <1>2, ElementOfSeq DEF MembersConsistent
<1>4. memberStates' \in Seq(MemberState) /\ Len(memberStates') = total - 1
  BY <1>1, <1>2, SwapAndPopElements
<1>5. /\ memberAddresses' \in Seq(Addresses)
      /\ Len(memberAddresses') = total - 1
      /\ \A k \in 1..total - 1 : memberAddresses'[k] = IF k = index THEN last ELSE memberAddresses[k]
  BY <1>1, <1>2, SwapAndPopElements, ZenonT(30)
<1>6. DOMAIN memberAddresses' = 1..total - 1
  BY <1>5, LenProperties
<1>7. /\ memberIndices1b' \in [Addresses -> Nat]
      /\ memberIndices1b'[addr] = 0
      /\ last # addr => memberIndices1b'[last] = index
      /\ \A a \in Addresses \ {addr, last} : memberIndices1b'[a] = memberIndices1b[a]
  <2> HIDE DEF last, index
  <2>1. memberIndices1b' = [memberIndices1b EXCEPT ![last] = index, ![addr] = 0]
    BY DEF last, index
  <2>2. index \in Nat
    BY <1>1 DEF index
  <2>3. QED
    BY <1>1, <1>3, <2>1, <2>2
<1>8. ASSUME NEW k \in 1..total - 1 PROVE memberIndices1b'[memberAddresses'[k]] = k
  <2>1. CASE k = index
    <3>1. memberAddresses'[k] = last /\ last # addr
      <4>1. memberAddresses'[k] = last
        BY <1>5, <2>1
      <4>2. index # total
        BY <1>1, <2>1
      <4>3. QED
        BY <1>3, <4>1, <4>2
    <3>2. QED
      BY <1>7, <2>1, <3>1
  <2>2. CASE k # index
    <3>1. memberAddresses'[k] = memberAddresses[k] /\ k \in 1..total /\ k # total
      <4>1. memberAddresses'[k] = memberAddresses[k]
        BY <1>5, <2>2
      <4>2. k \in 1..total /\ k # total
        BY <1>1, <1>8
      <4>3. QED
        BY <4>1, <4>2
    <3>2. memberAddresses[k] \in Addresses /\ memberIndices1b[memberAddresses[k]] = k
      BY <1>1, <3>1, ElementOfSeq DEF MembersConsistent
    <3>3. memberAddresses[k] # addr /\ memberAddresses[k] # last
      BY <1>3, <2>2, <3>1, <3>2
    <3>4. QED
      BY <1>7, <3>1, <3>2, <3>3
  <2>3. QED
    BY <2>1, <2>2
<1>9. ASSUME NEW a \in Addresses, memberIndices1b'[a] # 0
      PROVE  memberIndices1b'[a] \in 1..total - 1 /\ memberAddresses'[memberIndices1b'[a]] = a
  <2>1. a # addr
    BY <1>7, <1>9
  <2>2. CASE a = last
    <3>1. memberIndices1b'[a] = index /\ index # total
      BY <1>2, <1>3, <1>7, <2>1, <2>2
    <3>2. index \in 1..total - 1
      BY <1>1, <1>2, <3>1
    <3>3. QED
      BY <1>5, <2>2, <3>1, <3>2
  <2>3. CASE a # last
    <3>1. memberIndices1b'[a] = memberIndices1b[a]
      BY <1>7, <2>1, <2>3
    <3>2. memberIndices1b[a] \in 1..total /\ memberAddresses[memberIndices1b[a]] = a
      BY <1>1, <1>9, <3>1 DEF MembersConsistent, IsMember
    <3>3. memberIndices1b[a] # total /\ memberIndices1b[a] # index
      BY <1>2, <2>1, <2>3, <3>2
    <3>4. memberIndices1b[a] \in 1..total - 1
      BY <1>1, <3>2, <3>3
    <3>5. QED
      BY <1>5, <3>1, <3>2, <3>3, <3>4
  <2>4. QED
    BY <2>2, <2>3
<1>10. QED
  BY <1>4, <1>5, <1>6, <1>7, <1>8, <1>9 DEF MembersConsistent, IsMember

------------------------------------------------------------------------------

(***************************************************************************)
(* The members behind a variant, as a function of the list of members; and *)
(* that they are counted: SupportNeverUnderflows for lists that need not   *)
(* be the ones of the state.                                               *)
(***************************************************************************)
SupportersIn(states, slot, i) ==
  {k \in DOMAIN states : /\ states[k].lastReportRefSlot = slot
                         /\ states[k].lastReportVariantIndex = i}

Counted(states, variants, reportedSlot, slot) ==
  \A k \in DOMAIN states : states[k].lastReportRefSlot = slot =>
    LET i == states[k].lastReportVariantIndex
    IN  /\ reportedSlot = slot
        /\ i \in DOMAIN variants
        /\ variants[i].support >= Cardinality(SupportersIn(states, slot, i))

LEMMA CountedIsSupport ==
  SupportNeverUnderflows <=>
    (FrameStarted /\ CurrentFrame.refSlot > 0 =>
       Counted(memberStates, reportVariants, reportingState.lastReportRefSlot, CurrentFrame.refSlot))
BY DEF SupportNeverUnderflows, Supporters, Counted, SupportersIn

LEMMA CountedIsSupportPrimed ==
  SupportNeverUnderflows' <=>
    (FrameStarted' /\ CurrentFrame'.refSlot > 0 =>
       Counted(memberStates', reportVariants', reportingState'.lastReportRefSlot, CurrentFrame'.refSlot))
BY DEF SupportNeverUnderflows, Supporters, Counted, SupportersIn

LEMMA SupportersAreMembers ==
  ASSUME NEW states \in Seq(MemberState), NEW slot, NEW i
  PROVE  /\ SupportersIn(states, slot, i) \subseteq 1..Len(states)
         /\ IsFiniteSet(SupportersIn(states, slot, i))
         /\ Cardinality(SupportersIn(states, slot, i)) \in Nat
<1>1. Len(states) \in Nat /\ DOMAIN states = 1..Len(states)
  BY LenProperties
<1>2. SupportersIn(states, slot, i) \subseteq 1..Len(states)
  BY <1>1 DEF SupportersIn
<1>3. IsFiniteSet(1..Len(states))
  BY <1>1, FS_Interval
<1>4. QED
  BY <1>2, <1>3, FS_Subset, FS_CardinalityType

(***************************************************************************)
(* A new member has not reported.                                          *)
(***************************************************************************)
NewMember == [lastReportRefSlot |-> 0, lastReportVariantIndex |-> 0]

LEMMA NewMemberSupportsNothing ==
  ASSUME NEW states \in Seq(MemberState), NEW slot \in Nat \ {0}
  PROVE  LET added == Append(states, NewMember)
         IN  /\ \A i : SupportersIn(added, slot, i) = SupportersIn(states, slot, i)
             /\ \A k \in DOMAIN added : added[k].lastReportRefSlot = slot =>
                  k \in DOMAIN states /\ added[k] = states[k]
<1> DEFINE total == Len(states)
           added == Append(states, NewMember)
<1>1. NewMember \in MemberState /\ total \in Nat
  BY LenProperties DEF MemberState, NewMember
<1>2. /\ added \in Seq(MemberState)
      /\ Len(added) = total + 1
      /\ \A k \in 1..total : added[k] = states[k]
      /\ added[total + 1] = NewMember
  BY <1>1, AppendProperties
<1>3. DOMAIN states = 1..total /\ DOMAIN added = 1..(total + 1)
  BY <1>2, LenProperties
<1>4. 1..(total + 1) = 1..total \union {total + 1}
  BY <1>1
<1>5. NewMember.lastReportRefSlot # slot
  BY DEF NewMember
<1>6. \A i : SupportersIn(added, slot, i) = SupportersIn(states, slot, i)
  <2> HIDE DEF total, added
  <2> QED BY <1>2, <1>3, <1>4, <1>5 DEF SupportersIn
<1>7. ASSUME NEW k \in DOMAIN added, added[k].lastReportRefSlot = slot
      PROVE  k \in DOMAIN states /\ added[k] = states[k]
  <2> HIDE DEF total, added
  <2> QED BY <1>2, <1>3, <1>4, <1>5, <1>7
<1>8. QED
  BY <1>6, <1>7

LEMMA AddKeepsCounted ==
  ASSUME NEW states \in Seq(MemberState), NEW variants, NEW reported, NEW slot \in Nat \ {0},
         Counted(states, variants, reported, slot)
  PROVE  Counted(Append(states, NewMember), variants, reported, slot)
<1> DEFINE added == Append(states, NewMember)
<1>1. /\ \A i : SupportersIn(added, slot, i) = SupportersIn(states, slot, i)
      /\ \A k \in DOMAIN added : added[k].lastReportRefSlot = slot =>
           k \in DOMAIN states /\ added[k] = states[k]
  BY NewMemberSupportsNothing
<1>2. Counted(added, variants, reported, slot)
  <2> HIDE DEF added
  <2> QED BY <1>1 DEF Counted
<1>3. QED
  BY <1>2

(***************************************************************************)
(* A removed member no longer supports, and the last member, who takes the *)
(* free place, supports what he did.                                       *)
(***************************************************************************)
LEMMA RemoveLosesSupporter ==
  ASSUME NEW states \in Seq(MemberState), NEW slot, NEW i, NEW d \in 1..Len(states)
  PROVE  /\ Cardinality(SupportersIn(SwapAndPop(states, d), slot, i)) \in Nat
         /\ Cardinality(SupportersIn(SwapAndPop(states, d), slot, i))
              = Cardinality(SupportersIn(states, slot, i) \ {d})
<1> DEFINE total == Len(states)
           rest == SwapAndPop(states, d)
           S == SupportersIn(rest, slot, i)
           T == SupportersIn(states, slot, i) \ {d}
           f == [k \in S |-> IF k = d THEN total ELSE k]
<1>1. total \in Nat /\ total \in 1..total /\ DOMAIN states = 1..total
  BY LenProperties
<1>2. /\ rest \in Seq(MemberState)
      /\ Len(rest) = total - 1
      /\ \A k \in 1..total - 1 : rest[k] = IF k = d THEN states[total] ELSE states[k]
  BY <1>1, SwapAndPopElements
<1>3. DOMAIN rest = 1..total - 1
  BY <1>2, LenProperties
<1>4. IsFiniteSet(T)
  BY SupportersAreMembers, FS_RemoveElement
<1>5. S \subseteq 1..total - 1
  <2> HIDE DEF rest, total
  <2> QED BY <1>3 DEF SupportersIn
<1>6. ASSUME NEW k \in S PROVE f[k] \in T
  <2>1. /\ k \in 1..total - 1
        /\ rest[k].lastReportRefSlot = slot
        /\ rest[k].lastReportVariantIndex = i
    <3> HIDE DEF rest, total
    <3> QED BY <1>3 DEF SupportersIn
  <2>2. f[k] = IF k = d THEN total ELSE k
    OBVIOUS
  <2>3. rest[k] = states[f[k]]
    <3> HIDE DEF rest, total, f
    <3> QED BY <1>2, <2>1, <2>2
  <2>4. f[k] \in 1..total /\ f[k] # d
    <3> HIDE DEF total, f
    <3>1. CASE k = d
      BY <1>1, <2>1, <2>2, <3>1
    <3>2. CASE k # d
      BY <1>1, <2>1, <2>2, <3>2
    <3>3. QED
      BY <3>1, <3>2
  <2>5. QED
    <3> HIDE DEF f, rest
    <3> QED BY <1>1, <2>1, <2>3, <2>4 DEF SupportersIn
<1>7. ASSUME NEW k \in S, NEW j \in S, f[k] = f[j] PROVE k = j
  <2>1. k \in 1..total - 1 /\ j \in 1..total - 1
    BY <1>5
  <2>2. k # total /\ j # total
    <3> HIDE DEF total
    <3> QED BY <1>1, <2>1
  <2>3. QED
    BY <1>7, <2>2
<1>8. f \in Injection(S, T)
  <2>1. f \in [S -> T]
    <3> HIDE DEF T
    <3> QED BY <1>6
  <2>2. QED
    <3> HIDE DEF S, T, f
    <3> QED BY <1>7, <2>1 DEF Injection, IsInjective
<1>9. f \in Surjection(S, T)
  <2>1. ASSUME NEW t \in T PROVE \E k \in S : f[k] = t
    <3> DEFINE k == IF t = total THEN d ELSE t
    <3>1. t \in 1..total /\ t # d /\ states[t].lastReportRefSlot = slot
          /\ states[t].lastReportVariantIndex = i
      <4> HIDE DEF total
      <4> QED BY <1>1 DEF SupportersIn
    <3>2. k \in 1..total - 1
      <4> HIDE DEF total
      <4> QED BY <1>1, <3>1
    <3>3. rest[k] = states[t]
      <4>1. rest[k] = IF k = d THEN states[total] ELSE states[k]
        <5> HIDE DEF rest, total, k
        <5> QED BY <1>2, <3>2
      <4>2. QED
        <5> HIDE DEF rest, total
        <5> QED BY <3>1, <4>1
    <3>4. k \in S
      <4> HIDE DEF rest, total, k
      <4> QED BY <1>3, <3>1, <3>2, <3>3 DEF SupportersIn
    <3>5. f[k] = t
      <4>1. f[k] = IF k = d THEN total ELSE k
        BY <3>4
      <4>2. QED
        <5> HIDE DEF f, total
        <5> QED BY <3>1, <4>1
    <3>6. QED
      BY <3>4, <3>5
  <2>2. f \in [S -> T]
    BY <1>8 DEF Injection
  <2>3. QED
    <3> HIDE DEF S, T, f
    <3> QED BY <2>1, <2>2 DEF Surjection
<1>10. IsFiniteSet(S) /\ Cardinality(S) = Cardinality(T)
  <2> HIDE DEF S, T, f
  <2> QED BY <1>4, <1>8, <1>9, FS_Injection
<1>11. QED
  BY <1>10, FS_CardinalityType

(***************************************************************************)
(* Removing a member keeps the others counted, also when his own report is *)
(* withdrawn; that withdrawal does not underflow.                          *)
(***************************************************************************)
LEMMA RemovedIsNoSupporter ==
  ASSUME NEW states \in Seq(MemberState), NEW slot, NEW i, NEW d \in 1..Len(states)
  PROVE  LET before == Cardinality(SupportersIn(states, slot, i))
             after == Cardinality(SupportersIn(SwapAndPop(states, d), slot, i))
         IN  /\ before \in Nat /\ after \in Nat /\ after <= before
             /\ states[d].lastReportRefSlot = slot /\ states[d].lastReportVariantIndex = i
                  => after <= before - 1
<1> DEFINE S == SupportersIn(states, slot, i)
<1>1. IsFiniteSet(S) /\ Cardinality(S) \in Nat
  BY SupportersAreMembers
<1>2. Cardinality(S \ {d}) = IF d \in S THEN Cardinality(S) - 1 ELSE Cardinality(S)
  <2> HIDE DEF S
  <2> QED BY <1>1, FS_RemoveElement
<1>3. states[d].lastReportRefSlot = slot /\ states[d].lastReportVariantIndex = i => d \in S
  BY LenProperties DEF SupportersIn
<1>4. /\ Cardinality(SupportersIn(SwapAndPop(states, d), slot, i)) \in Nat
      /\ Cardinality(SupportersIn(SwapAndPop(states, d), slot, i)) = Cardinality(S \ {d})
  BY RemoveLosesSupporter
<1>5. QED
  <2> DEFINE before == Cardinality(S)
             after == Cardinality(SupportersIn(SwapAndPop(states, d), slot, i))
  <2>1. /\ before \in Nat /\ after \in Nat
        /\ after = IF d \in S THEN before - 1 ELSE before
    BY <1>1, <1>2, <1>4
  <2>2. after <= before /\ (d \in S => after <= before - 1)
    <3> HIDE DEF before, after, S
    <3> QED BY <2>1
  <2>3. QED
    BY <1>3, <2>1, <2>2

LEMMA SwapAndPopIsOldMember ==
  ASSUME NEW states \in Seq(MemberState), NEW d \in 1..Len(states),
         NEW k \in DOMAIN SwapAndPop(states, d)
  PROVE  \E j \in DOMAIN states : SwapAndPop(states, d)[k] = states[j]
<1> DEFINE rest == SwapAndPop(states, d)
           total == Len(states)
<1>1. total \in Nat /\ total \in 1..total /\ DOMAIN states = 1..total
  BY LenProperties
<1>2. /\ rest \in Seq(MemberState)
      /\ Len(rest) = total - 1
      /\ \A j \in 1..total - 1 : rest[j] = IF j = d THEN states[total] ELSE states[j]
  BY SwapAndPopElements
<1>3. k \in 1..total - 1 /\ k \in 1..total
  <2>1. k \in 1..Len(rest)
    BY <1>2, LenProperties
  <2> HIDE DEF rest, total
  <2>2. QED
    BY <1>1, <1>2, <2>1
<1>4. QED
  <2> HIDE DEF rest, total
  <2> QED BY <1>1, <1>2, <1>3 DEF rest

LEMMA RemoveKeepsCounted ==
  ASSUME NEW states \in Seq(MemberState), NEW variants \in Seq(ReportVariant), NEW reported,
         NEW slot, Counted(states, variants, reported, slot), NEW d \in 1..Len(states)
  PROVE  Counted(SwapAndPop(states, d), variants, reported, slot)
<1> DEFINE rest == SwapAndPop(states, d)
<1>1. SUFFICES ASSUME NEW k \in DOMAIN rest, rest[k].lastReportRefSlot = slot
               PROVE  LET i == rest[k].lastReportVariantIndex
                      IN  /\ reported = slot
                          /\ i \in DOMAIN variants
                          /\ variants[i].support >= Cardinality(SupportersIn(rest, slot, i))
  BY DEF Counted
<1> DEFINE i == rest[k].lastReportVariantIndex
           before == Cardinality(SupportersIn(states, slot, i))
           after == Cardinality(SupportersIn(rest, slot, i))
<1>2. PICK j \in DOMAIN states : rest[k] = states[j]
  BY SwapAndPopIsOldMember
<1>3. reported = slot /\ i \in DOMAIN variants /\ variants[i].support >= before
  BY <1>1, <1>2 DEF Counted
<1>4. before \in Nat /\ after \in Nat /\ after <= before
  BY RemovedIsNoSupporter
<1>5. variants[i].support \in Nat
  <2>1. variants[i] \in ReportVariant
    BY <1>3, ElementOfSeq, LenProperties
  <2>2. QED
    BY <2>1 DEF ReportVariant
<1>6. variants[i].support >= after
  <2> HIDE DEF i, before, after
  <2> QED BY <1>3, <1>4, <1>5
<1>7. QED
  BY <1>3, <1>6

LEMMA WithdrawnVariants ==
  ASSUME NEW variants \in Seq(ReportVariant), NEW p \in DOMAIN variants, variants[p].support > 0
  PROVE  /\ Withdrawn(variants, p) \in Seq(ReportVariant)
         /\ Len(Withdrawn(variants, p)) = Len(variants)
         /\ DOMAIN Withdrawn(variants, p) = DOMAIN variants
         /\ Withdrawn(variants, p)[p].hash = variants[p].hash
         /\ Withdrawn(variants, p)[p].support = variants[p].support - 1
         /\ \A i \in DOMAIN variants \ {p} : Withdrawn(variants, p)[i] = variants[i]
<1> DEFINE less == [variants[p] EXCEPT !.support = @ - 1]
<1>1. variants[p] \in ReportVariant /\ p \in 1..Len(variants)
  BY ElementOfSeq, LenProperties
<1>2. /\ less \in ReportVariant
      /\ less.hash = variants[p].hash
      /\ less.support = variants[p].support - 1
  BY <1>1 DEF ReportVariant
<1>3. Withdrawn(variants, p) = [variants EXCEPT ![p] = less]
  BY DEF Withdrawn
<1>4. /\ [variants EXCEPT ![p] = less] \in Seq(ReportVariant)
      /\ Len([variants EXCEPT ![p] = less]) = Len(variants)
      /\ \A j \in 1..Len(variants) :
           [variants EXCEPT ![p] = less][j] = IF j = p THEN less ELSE variants[j]
  <2> HIDE DEF less
  <2> QED BY <1>1, <1>2, ExceptSeq
<1>5. DOMAIN variants = 1..Len(variants) /\ DOMAIN Withdrawn(variants, p) = 1..Len(variants)
  <2> HIDE DEF less
  <2> QED BY <1>3, <1>4, LenProperties
<1>6. QED
  <2> HIDE DEF less
  <2> QED BY <1>1, <1>2, <1>3, <1>4, <1>5

LEMMA WithdrawKeepsCounted ==
  ASSUME NEW states \in Seq(MemberState), NEW variants \in Seq(ReportVariant), NEW reported,
         NEW slot, Counted(states, variants, reported, slot), NEW d \in 1..Len(states),
         states[d].lastReportRefSlot = slot
  PROVE  LET p == states[d].lastReportVariantIndex
         IN  /\ p \in DOMAIN variants
             /\ variants[p].support > 0
             /\ Counted(SwapAndPop(states, d), Withdrawn(variants, p), reported, slot)
<1> DEFINE rest == SwapAndPop(states, d)
           p == states[d].lastReportVariantIndex
           After(i) == Cardinality(SupportersIn(rest, slot, i))
           left == Withdrawn(variants, p)
<1>1. /\ p \in DOMAIN variants
      /\ variants[p].support >= Cardinality(SupportersIn(states, slot, p))
  BY LenProperties DEF Counted
<1>2. variants[p].support \in Nat
  <2>1. variants[p] \in ReportVariant
    BY <1>1, ElementOfSeq, LenProperties
  <2>2. QED
    BY <2>1 DEF ReportVariant
<1>3. variants[p].support > 0 /\ variants[p].support - 1 >= After(p)
  <2> DEFINE before == Cardinality(SupportersIn(states, slot, p))
  <2>1. before \in Nat /\ After(p) \in Nat /\ After(p) <= before - 1
    BY RemovedIsNoSupporter
  <2> HIDE DEF before, After, p
  <2>2. QED
    BY <1>1, <1>2, <2>1 DEF before
<1>4. /\ DOMAIN left = DOMAIN variants
      /\ left[p].support = variants[p].support - 1
      /\ \A i \in DOMAIN variants \ {p} : left[i] = variants[i]
  BY <1>1, <1>3, WithdrawnVariants
<1>5. Counted(rest, variants, reported, slot)
  BY RemoveKeepsCounted
<1>6. Counted(rest, left, reported, slot)
  <2>1. SUFFICES ASSUME NEW k \in DOMAIN rest, rest[k].lastReportRefSlot = slot
                 PROVE  LET i == rest[k].lastReportVariantIndex
                        IN  reported = slot /\ i \in DOMAIN left /\ left[i].support >= After(i)
    BY DEF Counted
  <2> DEFINE i == rest[k].lastReportVariantIndex
  <2>2. reported = slot /\ i \in DOMAIN variants /\ variants[i].support >= After(i)
    BY <1>5, <2>1 DEF Counted
  <2>3. CASE i = p
    BY <1>3, <1>4, <2>2, <2>3
  <2>4. CASE i # p
    <3> HIDE DEF left, After, i, p
    <3> QED BY <1>4, <2>2, <2>4 DEF i
  <2>5. QED
    BY <2>3, <2>4
<1>7. QED
  BY <1>1, <1>3, <1>6

------------------------------------------------------------------------------

(***************************************************************************)
(* Steps of the clock and of the frame configuration: the committee and    *)
(* the oracles stay, and the reference slot does not go back.              *)
(***************************************************************************)
committeeVars == <<oracle, memberVars, reportingState, quorum, reportVariants, reportProcessor>>

MovedOn ==
  FrameStarted => FrameStarted' /\ CurrentFrame.refSlot <= CurrentFrame'.refSlot

LEMMA MovedOnKeepsPast ==
  ASSUME HCInv, TypeOK', Time', UNCHANGED committeeVars, MovedOn
  PROVE  HCInv'
<1> DEFINE slot == CurrentFrame.refSlot
           newSlot == CurrentFrame'.refSlot
<1>1. /\ FrameStarted => slot \in Int
      /\ FrameStarted' => newSlot \in Int
  <2>1. FrameStarted => slot \in Int
    BY CurrentFrameFacts DEF HCInv, TypeOK, BaseOracleTypeOK, Time
  <2>2. (FrameStarted => slot \in Int)'
    BY CurrentFrameFacts, PTL DEF HCInv, TypeOK, BaseOracleTypeOK, Time
  <2>3. QED
    BY <2>1, <2>2
<1>2. ASSUME NEW s \in Nat, OfThePast(s)
      PROVE  FrameStarted' /\ s <= newSlot /\ FrameStarted /\ (s = newSlot => s = slot)
  BY <1>1, <1>2 DEF OfThePast, MovedOn
<1>3. ReportNotBehindProcessing'
  BY DEF HCInv, committeeVars, ReportNotBehindProcessing
<1>4. OraclesAreOfThePast'
  <2>1. ASSUME NEW o \in Oracles
        PROVE  \/ oracle[o].report.refSlot = oracle[o].lastProcessingRefSlot
               \/ FrameStarted' /\ oracle[o].report.refSlot <= newSlot
    <3>1. oracle[o].report.refSlot \in Nat
      BY DEF HCInv, TypeOK, BaseOracleTypeOK, OracleStorage, ConsensusReport
    <3>2. QED
      BY <1>2, <3>1, Zenon DEF HCInv, OraclesAreOfThePast
  <2>2. oracle' = oracle
    BY DEF committeeVars
  <2>3. QED
    BY <2>1, <2>2 DEF OraclesAreOfThePast, OfThePast
<1>5. ConsensusIsOfThePast'
  <2> DEFINE consensusSlot == reportingState.lastConsensusRefSlot
  <2>1. reportingState' = reportingState /\ reportVariants' = reportVariants
    BY DEF committeeVars
  <2>2. consensusSlot \in Nat
    BY DEF HCInv, TypeOK, ReportingState
  <2>3. CASE consensusSlot = 0
    BY <2>1, <2>3 DEF ConsensusIsOfThePast
  <2>4. CASE consensusSlot # 0
    <3>1. /\ OfThePast(consensusSlot)
          /\ consensusSlot = slot =>
               /\ reportingState.lastReportRefSlot = slot
               /\ reportingState.lastConsensusVariantIndex \in DOMAIN reportVariants
      BY <2>4 DEF HCInv, ConsensusIsOfThePast
    <3>2. FrameStarted' /\ consensusSlot <= newSlot /\ (consensusSlot = newSlot => consensusSlot = slot)
      BY <1>2, <2>2, <3>1, Zenon
    <3>3. QED
      BY <2>1, <3>1, <3>2 DEF ConsensusIsOfThePast, OfThePast
  <2>5. QED
    BY <2>3, <2>4
<1>6. MembersConsistent'
  BY DEF HCInv, committeeVars, memberVars, MembersConsistent, IsMember
<1>7. memberStates' = memberStates
  BY DEF committeeVars, memberVars
<1>8. ASSUME NEW k \in DOMAIN memberStates
      PROVE  /\ memberStates[k].lastReportRefSlot \in Nat
             /\ \/ memberStates[k].lastReportRefSlot = 0
                \/ OfThePast(memberStates[k].lastReportRefSlot)
  <2>1. memberStates[k] \in MemberState
    BY ElementOfSeq, LenProperties DEF HCInv, TypeOK
  <2>2. QED
    BY <2>1 DEF MemberState, HCInv, MembersAreOfThePast
<1>9. MembersAreOfThePast'
  <2>1. \A k \in DOMAIN memberStates : \/ memberStates[k].lastReportRefSlot = 0
                                       \/ FrameStarted' /\ memberStates[k].lastReportRefSlot <= newSlot
    BY <1>2, <1>8, Zenon
  <2>2. QED
    BY <1>7, <2>1 DEF MembersAreOfThePast, OfThePast
<1>10. SupportNeverUnderflows'
  <2>1. SUFFICES ASSUME FrameStarted', NEW k \in DOMAIN memberStates,
                        memberStates[k].lastReportRefSlot = newSlot, newSlot > 0
                 PROVE  LET i == memberStates[k].lastReportVariantIndex
                        IN  /\ reportingState.lastReportRefSlot = newSlot
                            /\ i \in DOMAIN reportVariants
                            /\ reportVariants[i].support >= Cardinality(Supporters(newSlot, i))
    BY <1>7 DEF SupportNeverUnderflows, Supporters, committeeVars
  <2>2. memberStates[k].lastReportRefSlot = slot /\ FrameStarted /\ slot = newSlot
    BY <1>2, <1>8, <2>1
  <2>3. QED
    BY <2>1, <2>2 DEF HCInv, SupportNeverUnderflows
<1>11. QED
  BY <1>3, <1>4, <1>5, <1>6, <1>9, <1>10 DEF HCInv

LEMMA FrameConfigStep ==
  ASSUME HCInv, frameConfig' \in FrameConfig, now' = now,
         frameConfig'.fastLaneLengthSlots <= frameConfig'.epochsPerFrame * SLOTS_PER_EPOCH,
         UNCHANGED committeeVars, MovedOn
  PROVE  HCInv'
<1>1. TypeOK'
  BY DEF HCInv, TypeOK, BaseOracleTypeOK, committeeVars, memberVars
<1>2. Time'
  BY DEF HCInv, Time
<1>3. QED
  BY <1>1, <1>2, MovedOnKeepsPast

LEMMA AdvanceClockStep ==
  ASSUME HCInv, AdvanceClock
  PROVE  HCInv' /\ MovedOn /\ UNCHANGED committeeVars
<1>1. now' \in Nat /\ now <= now' /\ now \in Nat /\ frameConfig \in FrameConfig /\ GENESIS_TIME <= now
  BY ChainConfigAssumption DEF HCInv, TypeOK, BaseOracleTypeOK, AdvanceClock, Time
<1>2. TypeOK'
  BY <1>1 DEF HCInv, TypeOK, BaseOracleTypeOK, AdvanceClock, hcVars, memberVars
<1>3. Time'
  <2>1. PICK slot \in Nat : now = GENESIS_TIME + slot * SECONDS_PER_SLOT
    BY DEF HCInv, Time, ComputeTimestampAtSlot
  <2>2. slot * SECONDS_PER_SLOT \in Nat
        /\ (slot + 1) * SECONDS_PER_SLOT = slot * SECONDS_PER_SLOT + SECONDS_PER_SLOT
    BY <2>1, ChainConfigAssumption
  <2>3. now' = GENESIS_TIME + (slot + 1) * SECONDS_PER_SLOT /\ slot + 1 \in Nat
    BY <2>1, <2>2, ChainConfigAssumption DEF AdvanceClock
  <2>4. GENESIS_TIME <= now'
    BY <1>1, ChainConfigAssumption
  <2>5. QED
    BY <2>3, <2>4 DEF Time, ComputeTimestampAtSlot
<1>4. MovedOn
  <2>1. frameConfig' = frameConfig
    BY DEF AdvanceClock, hcVars
  <2>2. SUFFICES ASSUME InitialEpochArrived(now, frameConfig)
                 PROVE  /\ InitialEpochArrived(now', frameConfig)
                        /\ FrameAtTimestamp(now, frameConfig).refSlot
                             <= FrameAtTimestamp(now', frameConfig).refSlot
    BY <2>1 DEF MovedOn, FrameStarted, CurrentFrame
  <2>3. QED
    BY <1>1, <2>2, FrameStartGrows, RefSlotGrows
<1>5. UNCHANGED committeeVars
  BY DEF AdvanceClock, hcVars, committeeVars
<1>6. HCInv'
  BY <1>2, <1>3, <1>4, <1>5, MovedOnKeepsPast
<1>7. QED
  BY <1>4, <1>5, <1>6

LEMMA UpdateInitialEpochStep ==
  ASSUME HCInv, NEW e \in InitialEpochs, UpdateInitialEpoch(e)
  PROVE  HCInv'
<1>1. e \in Nat /\ frameConfig \in FrameConfig
  BY HashConsensusAssumption DEF HCInv, TypeOK
<1>2. frameConfig' = [frameConfig EXCEPT !.initialEpoch = e]
  BY DEF UpdateInitialEpoch
<1>3. /\ frameConfig' \in FrameConfig
      /\ frameConfig'.fastLaneLengthSlots = frameConfig.fastLaneLengthSlots
      /\ frameConfig'.epochsPerFrame = frameConfig.epochsPerFrame
  BY <1>1, <1>2 DEF FrameConfig
<1>4. frameConfig'.fastLaneLengthSlots <= frameConfig'.epochsPerFrame * SLOTS_PER_EPOCH
  BY <1>3 DEF HCInv, TypeOK
<1>5. QED
  BY <1>3, <1>4, FrameConfigStep DEF UpdateInitialEpoch, MovedOn, committeeVars

(***************************************************************************)
(* setFrameConfig keeps the reference slot, or moves it on by a new frame. *)
(***************************************************************************)
LEMMA SetFrameConfigFacts ==
  ASSUME HCInv, NEW n \in EpochsPerFrame, NEW l \in FastLaneLengths, SetFrameConfig(n, l)
  PROVE  LET old == CurrentFrame.refSlot
             new == FrameAtTimestamp(now, frameConfig').refSlot
         IN  /\ frameConfig' \in FrameConfig
             /\ InitialEpochArrived(now, frameConfig')
             /\ new = old \/ new >= old + frameConfig'.epochsPerFrame * SLOTS_PER_EPOCH
<1>1. /\ n \in Nat \ {0} /\ l \in Nat /\ now \in Nat /\ GENESIS_TIME <= now
      /\ frameConfig \in FrameConfig /\ InitialEpochArrived(now, frameConfig)
  BY HashConsensusAssumption
  DEF HCInv, TypeOK, BaseOracleTypeOK, Time, SetFrameConfig, FrameStarted
<1>2. /\ ComputeFrameStartEpoch(now, frameConfig) \in Nat
      /\ frameConfig' = [initialEpoch        |-> ComputeFrameStartEpoch(now, frameConfig),
                         epochsPerFrame      |-> n,
                         fastLaneLengthSlots |-> l]
  BY <1>1, FrameHasEpoch DEF SetFrameConfig
<1>3. /\ frameConfig' \in FrameConfig
      /\ frameConfig'.initialEpoch = ComputeFrameStartEpoch(now, frameConfig)
  BY <1>1, <1>2 DEF FrameConfig
<1>4. QED
  BY <1>1, <1>3, NewFrameSize DEF CurrentFrame

LEMMA SetFrameConfigStep ==
  ASSUME HCInv, NEW n \in EpochsPerFrame, NEW l \in FastLaneLengths, SetFrameConfig(n, l)
  PROVE  HCInv' /\ MovedOn /\ UNCHANGED committeeVars
<1> DEFINE old == CurrentFrame.refSlot
           new == FrameAtTimestamp(now, frameConfig').refSlot
           moved == frameConfig'.epochsPerFrame * SLOTS_PER_EPOCH
<1>1. /\ frameConfig' \in FrameConfig
      /\ InitialEpochArrived(now, frameConfig')
      /\ new = old \/ new >= old + moved
  BY SetFrameConfigFacts
<1>2. now' = now /\ UNCHANGED committeeVars
  BY DEF SetFrameConfig, committeeVars, memberVars
<1>3. frameConfig'.fastLaneLengthSlots <= frameConfig'.epochsPerFrame * SLOTS_PER_EPOCH
  BY DEF SetFrameConfig
<1>4. MovedOn
  <2>1. CurrentFrame'.refSlot = new /\ FrameStarted'
    BY <1>1, <1>2 DEF CurrentFrame, FrameStarted
  <2>2. old \in Int /\ moved \in Nat
    <3>1. frameConfig'.epochsPerFrame \in Nat
      BY <1>1 DEF FrameConfig
    <3>2. moved \in Nat
      BY <3>1, ChainConfigAssumption
    <3>3. QED
      BY <3>2, CurrentFrameFacts DEF HCInv, TypeOK, BaseOracleTypeOK, Time, SetFrameConfig
  <2>3. old <= new
    <3> HIDE DEF old, new, moved
    <3>1. CASE new = old
      BY <2>2, <3>1
    <3>2. CASE new >= old + moved
      <4>1. new \in Int
        BY <1>1, RefSlotGrows DEF HCInv, TypeOK, BaseOracleTypeOK, Time, new
      <4>2. QED
        BY <2>2, <3>2, <4>1
    <3>3. QED
      BY <1>1, <3>1, <3>2
  <2>4. QED
    BY <2>1, <2>3 DEF MovedOn
<1>5. HCInv'
  BY <1>1, <1>2, <1>3, <1>4, FrameConfigStep
<1>6. QED
  BY <1>2, <1>4, <1>5

LEMMA SetFastLaneStep ==
  ASSUME HCInv, NEW l \in FastLaneLengths, SetFastLaneLengthSlots(l)
  PROVE  /\ HCInv' /\ MovedOn /\ UNCHANGED committeeVars
         /\ FrameAtTimestamp(now, frameConfig').refSlot = CurrentFrame.refSlot
<1>1. l \in Nat /\ frameConfig \in FrameConfig
  BY HashConsensusAssumption DEF HCInv, TypeOK
<1>2. frameConfig' = [frameConfig EXCEPT !.fastLaneLengthSlots = l]
  BY DEF SetFastLaneLengthSlots
<1>3. /\ frameConfig' \in FrameConfig
      /\ frameConfig'.fastLaneLengthSlots = l
      /\ frameConfig'.epochsPerFrame = frameConfig.epochsPerFrame
      /\ frameConfig'.initialEpoch = frameConfig.initialEpoch
  BY <1>1, <1>2 DEF FrameConfig
<1>4. now' = now /\ UNCHANGED committeeVars
  BY DEF SetFastLaneLengthSlots, committeeVars, memberVars
<1>5. /\ InitialEpochArrived(now, frameConfig') = InitialEpochArrived(now, frameConfig)
      /\ ComputeFrameStartEpoch(now, frameConfig') = ComputeFrameStartEpoch(now, frameConfig)
  BY <1>3 DEF InitialEpochArrived, ComputeFrameStartEpoch, ComputeFrameIndex,
              ComputeStartEpochOfFrameWithIndex
<1>6. FrameAtTimestamp(now, frameConfig').refSlot = CurrentFrame.refSlot
  BY <1>5, RefSlotOfFrame, Zenon DEF CurrentFrame
<1>7. MovedOn
  <2>1. FrameStarted => CurrentFrame.refSlot \in Int
    BY CurrentFrameFacts DEF HCInv, TypeOK, BaseOracleTypeOK, Time
  <2>2. FrameStarted' = FrameStarted /\ CurrentFrame'.refSlot = CurrentFrame.refSlot
    BY <1>4, <1>5, <1>6 DEF FrameStarted, CurrentFrame
  <2>3. QED
    BY <2>1, <2>2 DEF MovedOn
<1>8. frameConfig'.fastLaneLengthSlots <= frameConfig'.epochsPerFrame * SLOTS_PER_EPOCH
  BY <1>3 DEF SetFastLaneLengthSlots
<1>9. HCInv'
  BY <1>3, <1>4, <1>7, <1>8, FrameConfigStep
<1>10. QED
  BY <1>4, <1>6, <1>7, <1>9

------------------------------------------------------------------------------

(***************************************************************************)
(* Steps that leave the committee, its frame and its reports alone.        *)
(***************************************************************************)
LEMMA OraclesOnlyStep ==
  ASSUME HCInv, OraclesInv', reportProcessor' \in Oracles,
         UNCHANGED <<now, frameConfig, memberVars, reportingState, quorum, reportVariants>>
  PROVE  HCInv'
<1>1. UNCHANGED <<FrameStarted, CurrentFrame>>
  BY DEF FrameStarted, CurrentFrame
<1>2. TypeOK'
  BY DEF HCInv, TypeOK, OraclesInv, IInv, memberVars
<1>3. Time'
  BY DEF HCInv, Time
<1>4. ReportNotBehindProcessing' /\ OraclesAreOfThePast'
  BY DEF OraclesInv, IInv
<1>5. ConsensusIsOfThePast'
  BY <1>1 DEF HCInv, ConsensusIsOfThePast, OfThePast
<1>6. MembersConsistent'
  BY DEF HCInv, memberVars, MembersConsistent, IsMember
<1>7. MembersAreOfThePast'
  BY <1>1 DEF HCInv, memberVars, MembersAreOfThePast, OfThePast
<1>8. SupportNeverUnderflows'
  BY <1>1 DEF HCInv, memberVars, SupportNeverUnderflows, Supporters
<1>9. QED
  BY <1>2, <1>3, <1>4, <1>5, <1>6, <1>7, <1>8 DEF HCInv

LEMMA HCInvFacts ==
  ASSUME HCInv
  PROVE  TypeOK /\ Time /\ OraclesInv
BY DEF HCInv, TypeOK, OraclesInv, IInv

LEMMA ProcessReportStep ==
  ASSUME HCInv, NEW o \in Oracles, ProcessReport(o)
  PROVE  HCInv'
<1>1. PICK data : SubmitReportData(o, data) /\ UNCHANGED hcVars
  BY DEF ProcessReport
<1>2. UNCHANGED <<now, hcVars>>
  BY <1>1 DEF SubmitReportData
<1>3. IInv'
  BY <1>1, SubmitReportDataKeepsIInv, HCInvFacts DEF OraclesInv
<1>4. OraclesAreOfThePast'
  <2>1. oracle \in [Oracles -> OracleStorage] /\ UNCHANGED <<FrameStarted, CurrentFrame>>
    BY <1>2 DEF HCInv, TypeOK, BaseOracleTypeOK, FrameStarted, CurrentFrame, hcVars
  <2>2. \A p \in Oracles :
          \/ oracle'[p] = oracle[p]
          \/ /\ oracle'[p].report.refSlot = oracle[p].report.refSlot
             /\ oracle'[p].lastProcessingRefSlot = oracle[p].report.refSlot
    BY <1>1, <2>1 DEF SubmitReportData, StartProcessing, OracleStorage
  <2>3. QED
    BY <2>1, <2>2 DEF HCInv, OraclesAreOfThePast, OfThePast
<1>5. QED
  <2>1. reportProcessor' \in Oracles
    BY <1>2 DEF hcVars, HCInv, TypeOK
  <2>2. QED
    BY <1>2, <1>3, <1>4, <2>1, OraclesOnlyStep DEF OraclesInv, hcVars

LEMMA ManageOracleStep ==
  ASSUME HCInv, NEW o \in Oracles, ManageOracle(o)
  PROVE  HCInv'
<1>1. UNCHANGED <<now, hcVars>>
  BY DEF ManageOracle, SetConsensusVersion, SetConsensusContract
<1>2. \/ \E v \in ConsensusVersions : oracle' = [oracle EXCEPT ![o].consensusVersion = v]
      \/ \E c \in ConsensusContracts : oracle' = [oracle EXCEPT ![o].consensusContract = c]
  BY HashConsensusAssumption DEF ManageOracle, SetConsensusVersion, SetConsensusContract
<1>3. oracle \in [Oracles -> OracleStorage]
  BY DEF HCInv, TypeOK, BaseOracleTypeOK
<1>4. /\ oracle' \in [Oracles -> OracleStorage]
      /\ \A p \in Oracles : /\ oracle'[p].report = oracle[p].report
                            /\ oracle'[p].lastProcessingRefSlot = oracle[p].lastProcessingRefSlot
  BY <1>2, <1>3 DEF OracleStorage
<1>5. IInv'
  BY <1>1, <1>4 DEF HCInv, TypeOK, IInv, BaseOracleTypeOK, ReportNotBehindProcessing
<1>6. OraclesAreOfThePast'
  <2>1. UNCHANGED <<FrameStarted, CurrentFrame>>
    BY <1>1 DEF FrameStarted, CurrentFrame, hcVars
  <2>2. QED
    BY <1>4, <2>1 DEF HCInv, OraclesAreOfThePast, OfThePast
<1>7. QED
  <2>1. reportProcessor' \in Oracles
    BY <1>1 DEF hcVars, HCInv, TypeOK
  <2>2. QED
    BY <1>1, <1>5, <1>6, <2>1, OraclesOnlyStep DEF OraclesInv, hcVars

(***************************************************************************)
(* A consensus that is handed over to a new processor is on a variant.     *)
(***************************************************************************)
LEMMA SetReportProcessorStep ==
  ASSUME HCInv, NEW o \in Oracles, SetReportProcessor(o)
  PROVE  HCInv'
<1> DEFINE slot == CurrentFrame.refSlot
           index == reportingState.lastConsensusVariantIndex
<1>1. /\ FrameStarted /\ reportProcessor' = o
      /\ UNCHANGED <<now, frameConfig, memberVars, reportingState, quorum, reportVariants>>
  BY DEF SetReportProcessor
<1>2. CASE UNCHANGED oracle
  BY <1>1, <1>2, HCInvFacts, UnchangedKeepsOracles, OraclesOnlyStep
<1>3. CASE /\ LastProcessingRefSlot < slot
           /\ reportingState.lastConsensusRefSlot = slot
           /\ SubmitReportForProcessing(o, CurrentFrame, reportVariants[index].hash)
  <2>1. slot # 0
    <3>1. LastProcessingRefSlot \in Nat
      BY DEF LastProcessingRefSlot, HCInv, TypeOK, BaseOracleTypeOK, OracleStorage
    <3>2. QED
      BY <1>3, <3>1
  <2>2. index \in DOMAIN reportVariants
    BY <1>3, <2>1 DEF HCInv, ConsensusIsOfThePast
  <2>3. reportVariants[index].hash \in ReportHash
    <3>1. reportVariants[index] \in ReportVariant
      BY <2>2, ElementOfSeq, LenProperties DEF HCInv, TypeOK
    <3>2. QED
      BY <3>1 DEF ReportVariant
  <2>4. OraclesInv'
    <3> HIDE DEF index, slot
    <3> QED BY <1>1, <1>3, <2>3, HCInvFacts, SubmitKeepsOracles
  <2>5. QED
    BY <1>1, <2>4, OraclesOnlyStep
<1>4. QED
  BY <1>2, <1>3 DEF SetReportProcessor

------------------------------------------------------------------------------

(***************************************************************************)
(* What the checks of the consensus leave, whatever started them.          *)
(***************************************************************************)
LEMMA SettledKeepsPast ==
  ASSUME HCInv, FrameStarted, UNCHANGED <<now, frameConfig>>,
         NEW rs \in ReportingState,
         rs.lastConsensusRefSlot = reportingState.lastConsensusRefSlot,
         rs.lastConsensusVariantIndex = reportingState.lastConsensusVariantIndex,
         reportingState.lastReportRefSlot = CurrentFrame.refSlot =>
           /\ rs.lastReportRefSlot = CurrentFrame.refSlot
           /\ DOMAIN reportVariants \subseteq DOMAIN reportVariants',
         Settled(rs)
  PROVE  ConsensusIsOfThePast'
<1>1. /\ UNCHANGED <<FrameStarted, CurrentFrame>>
      /\ CurrentFrame.refSlot \in Int
  BY CurrentFrameFacts DEF FrameStarted, CurrentFrame, HCInv, TypeOK, BaseOracleTypeOK, Time
<1>2. CASE reportingState'.lastConsensusRefSlot = 0
  BY <1>2 DEF ConsensusIsOfThePast
<1>3. CASE reportingState' = rs
  BY <1>1, <1>3 DEF HCInv, ConsensusIsOfThePast, OfThePast
<1>4. CASE /\ reportingState'.lastConsensusRefSlot = CurrentFrame.refSlot
           /\ rs.lastReportRefSlot = CurrentFrame.refSlot
           /\ reportingState'.lastConsensusVariantIndex \in DOMAIN reportVariants'
  BY <1>1, <1>4 DEF Settled, ConsensusIsOfThePast, OfThePast
<1>5. QED
  BY <1>2, <1>3, <1>4 DEF Settled

LEMMA SetQuorumKeepsPast ==
  ASSUME HCInv, UNCHANGED <<now, frameConfig, reportProcessor>>,
         reportVariants' \in Seq(ReportVariant), DOMAIN reportVariants' = DOMAIN reportVariants,
         NEW q \in Nat, NEW total, SetQuorumAndCheckConsensus(q, total)
  PROVE  /\ OraclesInv'
         /\ ConsensusIsOfThePast'
         /\ reportingState' \in ReportingState
         /\ reportingState'.lastReportRefSlot = reportingState.lastReportRefSlot
         /\ quorum' \in Nat
<1>1. quorum' = q
  BY DEF SetQuorumAndCheckConsensus
<1>2. reportingState \in ReportingState
  BY DEF HCInv, TypeOK
<1>3. CASE FrameStarted
  <2>1. CheckConsensus(q)
    BY <1>3 DEF SetQuorumAndCheckConsensus
  <2>2. OraclesInv' /\ Settled(reportingState)
    BY <1>3, <2>1, HCInvFacts, CheckKeepsOracles
  <2>3. ConsensusIsOfThePast'
    BY <1>2, <1>3, <2>2, SettledKeepsPast
  <2>4. QED
    BY <1>1, <2>2, <2>3 DEF Settled
<1>4. CASE ~FrameStarted
  <2>1. UNCHANGED <<reportingState, oracle>>
    BY <1>4 DEF SetQuorumAndCheckConsensus
  <2>2. OraclesInv'
    BY <2>1, HCInvFacts, UnchangedKeepsOracles
  <2>3. ConsensusIsOfThePast'
    BY <1>4, <2>1 DEF HCInv, ConsensusIsOfThePast, OfThePast
  <2>4. QED
    BY <1>1, <1>2, <2>1, <2>2, <2>3
<1>5. QED
  BY <1>3, <1>4

LEMMA SetQuorumStep ==
  ASSUME HCInv, NEW q \in Nat, SetQuorum(q)
  PROVE  HCInv'
<1>1. UNCHANGED <<now, frameConfig, memberVars, reportVariants, reportProcessor>>
  BY DEF SetQuorum
<1>2. reportVariants \in Seq(ReportVariant) /\ reportProcessor \in Oracles
  BY DEF HCInv, TypeOK
<1>3. /\ OraclesInv' /\ ConsensusIsOfThePast'
      /\ reportingState' \in ReportingState
      /\ reportingState'.lastReportRefSlot = reportingState.lastReportRefSlot
      /\ quorum' \in Nat
  BY <1>1, <1>2, SetQuorumKeepsPast DEF SetQuorum
<1>4. UNCHANGED <<FrameStarted, CurrentFrame>>
  BY <1>1 DEF FrameStarted, CurrentFrame
<1>5. TypeOK'
  BY <1>1, <1>3 DEF HCInv, TypeOK, OraclesInv, IInv, memberVars
<1>6. Time'
  BY <1>1 DEF HCInv, Time
<1>7. MembersConsistent'
  BY <1>1 DEF HCInv, memberVars, MembersConsistent, IsMember
<1>8. MembersAreOfThePast'
  BY <1>1, <1>4 DEF HCInv, memberVars, MembersAreOfThePast, OfThePast
<1>9. SupportNeverUnderflows'
  BY <1>1, <1>3, <1>4 DEF HCInv, memberVars, SupportNeverUnderflows, Supporters
<1>10. QED
  BY <1>3, <1>5, <1>6, <1>7, <1>8, <1>9 DEF HCInv, OraclesInv, IInv

(***************************************************************************)
(* Members come and go.                                                    *)
(***************************************************************************)
LEMMA MembersStep ==
  ASSUME HCInv, UNCHANGED <<now, frameConfig, reportProcessor>>,
         memberStates' \in Seq(MemberState), memberAddresses' \in Seq(Addresses),
         memberIndices1b' \in [Addresses -> Nat], MembersConsistent',
         reportVariants' \in Seq(ReportVariant), DOMAIN reportVariants' = DOMAIN reportVariants,
         NEW q \in Nat, NEW total, SetQuorumAndCheckConsensus(q, total),
         \A k \in DOMAIN memberStates' :
           \/ memberStates'[k].lastReportRefSlot = 0
           \/ \E j \in DOMAIN memberStates : memberStates'[k] = memberStates[j],
         FrameStarted /\ CurrentFrame.refSlot > 0 =>
           Counted(memberStates', reportVariants', reportingState.lastReportRefSlot,
                   CurrentFrame.refSlot)
  PROVE  HCInv'
<1>1. /\ OraclesInv' /\ ConsensusIsOfThePast'
      /\ reportingState' \in ReportingState
      /\ reportingState'.lastReportRefSlot = reportingState.lastReportRefSlot
      /\ quorum' \in Nat
  BY SetQuorumKeepsPast
<1>2. UNCHANGED <<FrameStarted, CurrentFrame>>
  BY DEF FrameStarted, CurrentFrame
<1>3. reportProcessor \in Oracles /\ frameConfig \in FrameConfig
  BY DEF HCInv, TypeOK
<1>4. TypeOK'
  BY <1>1, <1>3 DEF HCInv, TypeOK, OraclesInv, IInv
<1>5. Time'
  BY DEF HCInv, Time
<1>6. MembersAreOfThePast'
  BY <1>2 DEF HCInv, MembersAreOfThePast, OfThePast
<1>7. SupportNeverUnderflows'
  BY <1>1, <1>2, CountedIsSupportPrimed
<1>8. QED
  BY <1>1, <1>4, <1>5, <1>6, <1>7 DEF HCInv, OraclesInv, IInv

LEMMA AddMemberStep ==
  ASSUME HCInv, NEW addr \in Addresses, NEW q \in Nat, AddMember(addr, q)
  PROVE  HCInv'
<1>1. /\ ~IsMember(addr)
      /\ memberStates' = Append(memberStates, NewMember)
      /\ memberAddresses' = Append(memberAddresses, addr)
      /\ memberIndices1b' = [memberIndices1b EXCEPT ![addr] = Len(memberStates) + 1]
      /\ UNCHANGED <<now, frameConfig, reportVariants, reportProcessor>>
      /\ SetQuorumAndCheckConsensus(q, Len(memberStates) + 1)
  BY DEF AddMember, NewMember
<1>2. /\ memberStates' \in Seq(MemberState)
      /\ memberAddresses' \in Seq(Addresses)
      /\ memberIndices1b' \in [Addresses -> Nat]
      /\ MembersConsistent'
  BY <1>1, AddKeepsMembers DEF HCInv, NewMember
<1>3. memberStates \in Seq(MemberState) /\ reportVariants \in Seq(ReportVariant)
  BY DEF HCInv, TypeOK
<1>4. \A k \in DOMAIN memberStates' :
        \/ memberStates'[k].lastReportRefSlot = 0
        \/ \E j \in DOMAIN memberStates : memberStates'[k] = memberStates[j]
  <2> DEFINE total == Len(memberStates)
  <2>1. NewMember \in MemberState /\ NewMember.lastReportRefSlot = 0
        /\ total \in Nat /\ DOMAIN memberStates = 1..total
    BY <1>3, LenProperties DEF NewMember, MemberState
  <2>2. /\ Len(memberStates') = total + 1
        /\ \A k \in 1..total : memberStates'[k] = memberStates[k]
        /\ memberStates'[total + 1] = NewMember
        /\ DOMAIN memberStates' = 1..(total + 1)
    BY <1>1, <1>2, <1>3, <2>1, AppendProperties, LenProperties
  <2> HIDE DEF total
  <2>3. QED
    BY <2>1, <2>2
<1>5. ASSUME FrameStarted, CurrentFrame.refSlot > 0
      PROVE  Counted(memberStates', reportVariants', reportingState.lastReportRefSlot,
                     CurrentFrame.refSlot)
  <2>1. CurrentFrame.refSlot \in Nat \ {0}
    <3>1. CurrentFrame.refSlot \in Int
      BY <1>5, CurrentFrameFacts DEF HCInv, TypeOK, BaseOracleTypeOK, Time
    <3>2. QED
      BY <1>5, <3>1
  <2>2. Counted(memberStates, reportVariants, reportingState.lastReportRefSlot, CurrentFrame.refSlot)
    BY <1>5, CountedIsSupport DEF HCInv
  <2>3. QED
    BY <1>1, <1>3, <2>1, <2>2, AddKeepsCounted
<1>6. QED
  BY <1>1, <1>2, <1>3, <1>4, <1>5, MembersStep

LEMMA RemoveMemberStep ==
  ASSUME HCInv, NEW addr \in Addresses, NEW q \in Nat, RemoveMember(addr, q)
  PROVE  HCInv'
<1> DEFINE d == memberIndices1b[addr]
           state == memberStates[d]
           p == state.lastReportVariantIndex
           slot == CurrentFrame.refSlot
           reported == reportingState.lastReportRefSlot
<1>1. /\ IsMember(addr)
      /\ memberStates' = SwapAndPop(memberStates, d)
      /\ memberAddresses' = SwapAndPop(memberAddresses, d)
      /\ memberIndices1b' = [memberIndices1b EXCEPT ![memberAddresses[Len(memberAddresses)]] = d,
                                                    ![addr] = 0]
      /\ state.lastReportRefSlot > 0 => FrameStarted
      /\ reportVariants' = IF ReportStillCounts(state) THEN Withdrawn(reportVariants, p)
                           ELSE reportVariants
      /\ UNCHANGED <<now, frameConfig, reportProcessor>>
      /\ SetQuorumAndCheckConsensus(q, Len(memberStates) - 1)
  BY DEF RemoveMember
<1>2. /\ memberStates' \in Seq(MemberState)
      /\ memberAddresses' \in Seq(Addresses)
      /\ memberIndices1b' \in [Addresses -> Nat]
      /\ MembersConsistent'
  BY <1>1, RemoveKeepsMembers DEF HCInv
<1>3. /\ memberStates \in Seq(MemberState) /\ reportVariants \in Seq(ReportVariant)
      /\ d \in 1..Len(memberStates)
  BY <1>1, LenProperties DEF HCInv, TypeOK, MembersConsistent, IsMember
<1>4. \A k \in DOMAIN memberStates' :
        \/ memberStates'[k].lastReportRefSlot = 0
        \/ \E j \in DOMAIN memberStates : memberStates'[k] = memberStates[j]
  <2> HIDE DEF d
  <2> QED BY <1>1, <1>3, SwapAndPopIsOldMember
<1>5. FrameStarted /\ slot > 0 => Counted(memberStates, reportVariants, reported, slot)
  BY CountedIsSupport DEF HCInv
<1>6. CASE ReportStillCounts(state)
  <2>1. FrameStarted /\ slot > 0 /\ state.lastReportRefSlot = slot
    BY <1>1, <1>6 DEF ReportStillCounts
  <2>2. Counted(memberStates, reportVariants, reported, slot)
    BY <1>5, <2>1
  <2>3. /\ p \in DOMAIN reportVariants
        /\ reportVariants[p].support > 0
        /\ Counted(SwapAndPop(memberStates, d), Withdrawn(reportVariants, p), reported, slot)
    <3> HIDE DEF d, slot, reported
    <3> QED BY <1>3, <2>1, <2>2, WithdrawKeepsCounted
  <2>4. reportVariants' = Withdrawn(reportVariants, p)
    BY <1>1, <1>6
  <2>5. reportVariants' \in Seq(ReportVariant) /\ DOMAIN reportVariants' = DOMAIN reportVariants
    <3> HIDE DEF p
    <3> QED BY <1>3, <2>3, <2>4, WithdrawnVariants
  <2>6. Counted(memberStates', reportVariants', reported, slot)
    <3> HIDE DEF d, p, slot, reported
    <3> QED BY <1>1, <2>3, <2>4
  <2>7. QED
    BY <1>1, <1>2, <1>4, <2>5, <2>6, MembersStep
<1>7. CASE ~ReportStillCounts(state)
  <2>1. reportVariants' = reportVariants
    BY <1>1, <1>7
  <2>2. FrameStarted /\ slot > 0 => Counted(memberStates', reportVariants', reported, slot)
    <3> HIDE DEF d, slot, reported
    <3> QED BY <1>1, <1>3, <1>5, <2>1, RemoveKeepsCounted
  <2>3. QED
    BY <1>1, <1>2, <1>3, <1>4, <2>1, <2>2, MembersStep
<1>8. QED
  BY <1>6, <1>7

------------------------------------------------------------------------------

(***************************************************************************)
(* The variants without the previous report of member d, and with one more *)
(* supporter of a report.                                                  *)
(***************************************************************************)
WithoutReportOf(variants, states, d, slot) ==
  IF states[d].lastReportRefSlot = slot
  THEN Withdrawn(variants, states[d].lastReportVariantIndex) ELSE variants

Supported(variants, i, report) ==
  IF i <= Len(variants) THEN [variants EXCEPT ![i].support = @ + 1]
                        ELSE Append(variants, [hash |-> report, support |-> 1])

LEMMA VariantIndexFacts ==
  ASSUME NEW variants \in Seq(ReportVariant), NEW report
  PROVE  /\ VariantIndex(variants, report) \in 1..(Len(variants) + 1)
         /\ VariantIndex(variants, report) \in DOMAIN variants =>
              variants[VariantIndex(variants, report)].hash = report
<1> DEFINE same == {i \in DOMAIN variants : variants[i].hash = report}
           first == CHOOSE i \in same : \A j \in same : i <= j
<1>1. Len(variants) \in Nat /\ DOMAIN variants = 1..Len(variants)
  BY LenProperties
<1>2. same \in SUBSET Nat /\ same \subseteq 1..Len(variants)
  BY <1>1
<1>3. same # {} => first \in same
  <2> HIDE DEF same
  <2> QED BY <1>2, LeastElement
<1>4. VariantIndex(variants, report) = IF same = {} THEN Len(variants) + 1 ELSE first
  BY DEF VariantIndex
<1>5. CASE same = {}
  <2>1. VariantIndex(variants, report) \notin DOMAIN variants
    <3> HIDE DEF same
    <3> QED BY <1>1, <1>4, <1>5
  <2>2. QED
    BY <1>1, <1>4, <1>5, <2>1
<1>6. CASE same # {}
  <2>1. VariantIndex(variants, report) \in same
    <3> HIDE DEF same, first
    <3> QED BY <1>3, <1>4, <1>6
  <2>2. QED
    BY <1>1, <2>1
<1>7. QED
  BY <1>5, <1>6

LEMMA SupportIsEnough ==
  ASSUME NEW states \in Seq(MemberState), NEW variants \in Seq(ReportVariant), NEW slot,
         Counted(states, variants, slot, slot), NEW i \in DOMAIN variants
  PROVE  /\ variants[i].support \in Nat
         /\ Cardinality(SupportersIn(states, slot, i)) \in Nat
         /\ variants[i].support >= Cardinality(SupportersIn(states, slot, i))
<1> DEFINE S == SupportersIn(states, slot, i)
<1>1. variants[i] \in ReportVariant
  BY ElementOfSeq, LenProperties
<1>2. variants[i].support \in Nat
  BY <1>1 DEF ReportVariant
<1>3. Cardinality(S) \in Nat
  BY SupportersAreMembers
<1>4. CASE S = {}
  BY <1>2, <1>4, FS_EmptySet
<1>5. CASE S # {}
  <2>1. PICK k \in S : TRUE
    BY <1>5
  <2>2. k \in DOMAIN states /\ states[k].lastReportRefSlot = slot /\ states[k].lastReportVariantIndex = i
    BY <2>1 DEF SupportersIn
  <2>3. QED
    BY <1>2, <1>3, <2>2 DEF Counted
<1>6. QED
  BY <1>2, <1>3, <1>4, <1>5

LEMMA WithoutReportFacts ==
  ASSUME NEW states \in Seq(MemberState), NEW variants \in Seq(ReportVariant), NEW slot,
         Counted(states, variants, slot, slot), NEW d \in 1..Len(states)
  PROVE  LET left == WithoutReportOf(variants, states, d, slot)
         IN  /\ left \in Seq(ReportVariant)
             /\ Len(left) = Len(variants)
             /\ \A i \in DOMAIN variants :
                  /\ left[i].support \in Nat
                  /\ Cardinality(SupportersIn(states, slot, i) \ {d}) \in Nat
                  /\ left[i].support >= Cardinality(SupportersIn(states, slot, i) \ {d})
<1> DEFINE S(i) == SupportersIn(states, slot, i)
           p == states[d].lastReportVariantIndex
           left == WithoutReportOf(variants, states, d, slot)
<1>1. ASSUME NEW i
      PROVE  /\ Cardinality(S(i)) \in Nat
             /\ Cardinality(S(i) \ {d}) = IF d \in S(i) THEN Cardinality(S(i)) - 1 ELSE Cardinality(S(i))
             /\ Cardinality(S(i) \ {d}) \in Nat
  <2>1. IsFiniteSet(S(i)) /\ Cardinality(S(i)) \in Nat
    BY SupportersAreMembers
  <2> HIDE DEF S
  <2>2. QED
    BY <2>1, FS_RemoveElement, FS_CardinalityType
<1>2. \A i : d \in S(i) <=> states[d].lastReportRefSlot = slot /\ p = i
  BY LenProperties DEF SupportersIn
<1>3. \A i \in DOMAIN variants : /\ variants[i].support \in Nat
                                 /\ variants[i].support >= Cardinality(S(i))
  BY SupportIsEnough
<1>4. CASE states[d].lastReportRefSlot # slot
  <2>1. left = variants
    BY <1>4 DEF WithoutReportOf
  <2>2. QED
    <3> HIDE DEF S, left
    <3>1. /\ left \in Seq(ReportVariant) /\ Len(left) = Len(variants)
          /\ \A i \in DOMAIN variants : /\ left[i].support \in Nat
                                        /\ Cardinality(S(i) \ {d}) \in Nat
                                        /\ left[i].support >= Cardinality(S(i) \ {d})
      BY <1>1, <1>2, <1>3, <1>4, <2>1
    <3>2. QED
      BY <3>1 DEF S, left
<1>5. CASE states[d].lastReportRefSlot = slot
  <2>1. left = Withdrawn(variants, p)
    BY <1>5 DEF WithoutReportOf
  <2>2. p \in DOMAIN variants
    BY <1>5, LenProperties DEF Counted
  <2>3. variants[p].support > 0
    <3>1. d \in S(p)
      BY <1>2, <1>5
    <3> HIDE DEF S, p
    <3>2. variants[p].support \in Nat /\ variants[p].support >= Cardinality(S(p))
      BY <1>3, <2>2
    <3>3. Cardinality(S(p)) \in Nat /\ Cardinality(S(p)) - 1 \in Nat
      BY <1>1, <3>1
    <3>4. QED
      BY <3>2, <3>3
  <2>4. /\ left \in Seq(ReportVariant) /\ Len(left) = Len(variants)
        /\ left[p].support = variants[p].support - 1
        /\ \A i \in DOMAIN variants \ {p} : left[i] = variants[i]
    <3> HIDE DEF p, left
    <3> QED BY <2>1, <2>2, <2>3, WithdrawnVariants
  <2>5. ASSUME NEW i \in DOMAIN variants
        PROVE  /\ left[i].support \in Nat
               /\ Cardinality(S(i) \ {d}) \in Nat
               /\ left[i].support >= Cardinality(S(i) \ {d})
    <3> HIDE DEF S, p, left
    <3>1. CASE i = p
      <4>1. Cardinality(S(p) \ {d}) = Cardinality(S(p)) - 1 /\ Cardinality(S(p) \ {d}) \in Nat
            /\ Cardinality(S(p)) \in Nat
        BY <1>1, <1>2, <1>5
      <4>2. variants[p].support \in Nat /\ variants[p].support >= Cardinality(S(p))
        BY <1>3, <2>2
      <4>3. QED
        BY <2>3, <2>4, <3>1, <4>1, <4>2
    <3>2. CASE i # p
      BY <1>1, <1>2, <1>3, <2>4, <3>2
    <3>3. QED
      BY <3>1, <3>2
  <2>6. QED
    BY <2>4, <2>5
<1>6. QED
  BY <1>4, <1>5

LEMMA SupportedFacts ==
  ASSUME NEW left \in Seq(ReportVariant), NEW v \in 1..(Len(left) + 1), NEW report \in ReportHash
  PROVE  /\ Supported(left, v, report) \in Seq(ReportVariant)
         /\ DOMAIN Supported(left, v, report) = 1..Len(left) \union {v}
         /\ Supported(left, v, report)[v].hash = IF v <= Len(left) THEN left[v].hash ELSE report
         /\ Supported(left, v, report)[v].support =
              IF v <= Len(left) THEN left[v].support + 1 ELSE 1
         /\ \A i \in 1..Len(left) : i # v => Supported(left, v, report)[i] = left[i]
<1> DEFINE total == Len(left)
           updated == Supported(left, v, report)
<1>1. total \in Nat
  BY LenProperties
<1>2. CASE v <= total
  <2> DEFINE more == [left[v] EXCEPT !.support = @ + 1]
  <2>1. v \in 1..total /\ left[v] \in ReportVariant
    BY <1>1, <1>2, ElementOfSeq
  <2>2. more \in ReportVariant /\ more.support = left[v].support + 1 /\ more.hash = left[v].hash
    BY <2>1 DEF ReportVariant
  <2>3. updated = [left EXCEPT ![v] = more]
    BY <1>2 DEF Supported
  <2>4. /\ updated \in Seq(ReportVariant)
        /\ Len(updated) = total
        /\ \A j \in 1..total : updated[j] = IF j = v THEN more ELSE left[j]
    <3> HIDE DEF more, updated
    <3> QED BY <2>1, <2>2, <2>3, ExceptSeq
  <2>5. DOMAIN updated = 1..total
    <3> HIDE DEF updated
    <3> QED BY <2>4, LenProperties
  <2>6. QED
    <3> HIDE DEF more, updated
    <3>1. /\ updated[v].support = left[v].support + 1
          /\ updated[v].hash = left[v].hash
          /\ \A i \in 1..total : i # v => updated[i] = left[i]
      BY <2>1, <2>2, <2>4
    <3>2. QED
      BY <1>2, <2>1, <2>4, <2>5, <3>1 DEF updated
<1>3. CASE ~(v <= total)
  <2> DEFINE new == [hash |-> report, support |-> 1]
  <2>1. /\ v = total + 1 /\ new \in ReportVariant
        /\ 1..(total + 1) = 1..total \union {total + 1}
    BY <1>1, <1>3 DEF ReportVariant
  <2>2. updated = Append(left, new)
    BY <1>3 DEF Supported
  <2>3. /\ updated \in Seq(ReportVariant)
        /\ Len(updated) = total + 1
        /\ \A j \in 1..total : updated[j] = left[j]
        /\ updated[total + 1] = new
    <3> HIDE DEF new, updated
    <3> QED BY <2>1, <2>2, AppendProperties
  <2>4. DOMAIN updated = 1..(total + 1)
    <3> HIDE DEF updated
    <3> QED BY <2>3, LenProperties
  <2>5. updated[v].support = 1 /\ updated[v].hash = report
    <3> HIDE DEF updated
    <3> QED BY <2>1, <2>3
  <2>6. QED
    <3> HIDE DEF new, updated
    <3> QED BY <1>1, <1>3, <2>1, <2>3, <2>4, <2>5 DEF updated
<1>4. QED
  BY <1>2, <1>3

(***************************************************************************)
(* A report moves its member from the variant of the previous report to    *)
(* the one of the new report, and so does the support.                     *)
(***************************************************************************)
ReportOf(slot, v) == [lastReportRefSlot |-> slot, lastReportVariantIndex |-> v]

Reported(states, d, slot, v) == [states EXCEPT ![d] = ReportOf(slot, v)]

LEMMA ReportMovesSupporter ==
  ASSUME NEW states \in Seq(MemberState), NEW slot \in Nat, NEW d \in 1..Len(states), NEW v \in Nat
  PROVE  LET reported == Reported(states, d, slot, v)
         IN  /\ reported \in Seq(MemberState)
             /\ Len(reported) = Len(states)
             /\ DOMAIN reported = DOMAIN states
             /\ reported[d] = ReportOf(slot, v)
             /\ \A k \in DOMAIN states \ {d} : reported[k] = states[k]
             /\ \A i : SupportersIn(reported, slot, i) =
                        IF i = v THEN SupportersIn(states, slot, i) \union {d}
                                 ELSE SupportersIn(states, slot, i) \ {d}
<1> DEFINE new == ReportOf(slot, v)
           reported == Reported(states, d, slot, v)
           S(i) == SupportersIn(states, slot, i)
           T(i) == SupportersIn(reported, slot, i)
<1>1. new \in MemberState /\ new.lastReportRefSlot = slot /\ new.lastReportVariantIndex = v
  BY DEF MemberState, ReportOf
<1>2. /\ reported \in Seq(MemberState)
      /\ Len(reported) = Len(states)
      /\ \A k \in 1..Len(states) : reported[k] = IF k = d THEN new ELSE states[k]
  <2> HIDE DEF new
  <2> QED BY <1>1, ExceptSeq DEF Reported, new
<1>3. DOMAIN states = 1..Len(states) /\ DOMAIN reported = 1..Len(states)
  <2> HIDE DEF reported
  <2> QED BY <1>2, LenProperties
<1>4. \A i : T(i) = IF i = v THEN S(i) \union {d} ELSE S(i) \ {d}
  <2> HIDE DEF reported, new
  <2> QED BY <1>1, <1>2, <1>3 DEF SupportersIn
<1>5. reported[d] = new /\ \A k \in DOMAIN states \ {d} : reported[k] = states[k]
  <2> HIDE DEF reported, new
  <2> QED BY <1>2, <1>3
<1>6. QED
  BY <1>2, <1>3, <1>4, <1>5

LEMMA ReportKeepsCounted ==
  ASSUME NEW states \in Seq(MemberState), NEW variants \in Seq(ReportVariant), NEW slot \in Nat,
         Counted(states, variants, slot, slot), NEW d \in 1..Len(states),
         NEW v \in 1..(Len(variants) + 1), NEW report \in ReportHash
  PROVE  LET updated == Supported(WithoutReportOf(variants, states, d, slot), v, report)
             reported == Reported(states, d, slot, v)
         IN  /\ updated \in Seq(ReportVariant)
             /\ DOMAIN variants \subseteq DOMAIN updated
             /\ v \in DOMAIN updated
             /\ reported \in Seq(MemberState)
             /\ Len(reported) = Len(states)
             /\ DOMAIN reported = DOMAIN states
             /\ reported[d].lastReportRefSlot = slot
             /\ \A k \in DOMAIN states \ {d} : reported[k] = states[k]
             /\ Counted(reported, updated, slot, slot)
<1> DEFINE left == WithoutReportOf(variants, states, d, slot)
           updated == Supported(left, v, report)
           new == ReportOf(slot, v)
           reported == Reported(states, d, slot, v)
           S(i) == SupportersIn(states, slot, i)
           T(i) == SupportersIn(reported, slot, i)
           total == Len(variants)
<1>1. /\ left \in Seq(ReportVariant)
      /\ Len(left) = total
      /\ \A i \in DOMAIN variants : /\ left[i].support \in Nat
                                    /\ Cardinality(S(i) \ {d}) \in Nat
                                    /\ left[i].support >= Cardinality(S(i) \ {d})
  BY WithoutReportFacts
<1>2. total \in Nat /\ DOMAIN variants = 1..total
  BY LenProperties
<1>3. /\ updated \in Seq(ReportVariant)
      /\ 1..total \subseteq DOMAIN updated
      /\ v \in DOMAIN updated
      /\ updated[v].support = IF v <= total THEN left[v].support + 1 ELSE 1
      /\ \A i \in 1..total : i # v => updated[i] = left[i]
  <2> HIDE DEF left
  <2>1. v \in 1..(Len(left) + 1)
    BY <1>1
  <2>2. /\ Supported(left, v, report) \in Seq(ReportVariant)
        /\ DOMAIN Supported(left, v, report) = 1..Len(left) \union {v}
        /\ Supported(left, v, report)[v].support =
             IF v <= Len(left) THEN left[v].support + 1 ELSE 1
        /\ \A i \in 1..Len(left) : i # v => Supported(left, v, report)[i] = left[i]
    BY <1>1, <2>1, SupportedFacts, ZenonT(30)
  <2>3. Len(left) = total
    BY <1>1
  <2>4. QED
    <3> HIDE DEF total
    <3> QED BY <2>2, <2>3
<1>4. /\ reported \in Seq(MemberState)
      /\ Len(reported) = Len(states)
      /\ DOMAIN reported = DOMAIN states
      /\ reported[d] = new
      /\ \A k \in DOMAIN states \ {d} : reported[k] = states[k]
      /\ \A i : T(i) = IF i = v THEN S(i) \union {d} ELSE S(i) \ {d}
  <2>1. v \in Nat
    BY <1>2
  <2>2. QED
    BY <2>1, ReportMovesSupporter
<1>5. \A i : IsFiniteSet(S(i))
  BY SupportersAreMembers
<1>6. \A k \in DOMAIN states : states[k].lastReportRefSlot = slot =>
        states[k].lastReportVariantIndex \in 1..total
  BY <1>2 DEF Counted
<1>7. ASSUME NEW i \in 1..total, i # v
      PROVE  updated[i].support >= Cardinality(T(i))
  <2> HIDE DEF S, T, left, updated
  <2> QED BY <1>1, <1>2, <1>3, <1>4, <1>7
<1>8. updated[v].support >= Cardinality(T(v))
  <2>1. T(v) = (S(v) \ {d}) \union {d}
    <3> HIDE DEF S, T
    <3> QED BY <1>4
  <2>2. IsFiniteSet(S(v) \ {d})
    <3> HIDE DEF S
    <3> QED BY <1>5, FS_RemoveElement
  <2>3. Cardinality(T(v)) = Cardinality(S(v) \ {d}) + 1
    <3> HIDE DEF S, T
    <3> QED BY <2>1, <2>2, FS_AddElement
  <2>4. CASE v <= total
    <3>1. v \in DOMAIN variants
      BY <1>2, <2>4
    <3>2. /\ left[v].support \in Nat
          /\ Cardinality(S(v) \ {d}) \in Nat
          /\ left[v].support >= Cardinality(S(v) \ {d})
      <4> HIDE DEF S, left
      <4> QED BY <1>1, <3>1
    <3>3. updated[v].support = left[v].support + 1
      BY <1>3, <2>4
    <3> HIDE DEF S, T, left, updated
    <3>4. QED
      BY <2>3, <3>2, <3>3
  <2>5. CASE ~(v <= total)
    <3>1. S(v) = {}
      <4>1. v \notin 1..total
        <5> HIDE DEF total
        <5> QED BY <1>2, <2>5
      <4>2. QED
        BY <1>6, <4>1 DEF SupportersIn
    <3>2. Cardinality(S(v) \ {d}) = 0
      <4> HIDE DEF S
      <4>1. S(v) \ {d} = {}
        BY <3>1
      <4>2. QED
        BY <4>1, FS_EmptySet
    <3> HIDE DEF S, T, left, updated, total
    <3>3. QED
      BY <1>3, <2>3, <2>5, <3>2
  <2>6. QED
    BY <2>4, <2>5
<1>9. Counted(reported, updated, slot, slot)
  <2>1. SUFFICES ASSUME NEW k \in DOMAIN reported, reported[k].lastReportRefSlot = slot
                 PROVE  /\ reported[k].lastReportVariantIndex \in DOMAIN updated
                        /\ updated[reported[k].lastReportVariantIndex].support
                             >= Cardinality(T(reported[k].lastReportVariantIndex))
    BY DEF Counted
  <2>2. CASE k = d
    <3> HIDE DEF T, updated, reported
    <3> QED BY <1>3, <1>4, <1>8, <2>2 DEF ReportOf
  <2>3. CASE k # d
    <3> DEFINE i == reported[k].lastReportVariantIndex
    <3>1. i \in 1..total
      <4> HIDE DEF reported, total
      <4> QED BY <1>4, <1>6, <2>1, <2>3 DEF reported
    <3>2. updated[i].support >= Cardinality(T(i))
      <4> HIDE DEF T, updated, reported, total
      <4> QED BY <1>7, <1>8, <3>1
    <3>3. QED
      <4> HIDE DEF T, updated, reported, total
      <4> QED BY <1>3, <3>1, <3>2
  <2>4. QED
    BY <2>2, <2>3
<1>10. new.lastReportRefSlot = slot
  BY DEF ReportOf
<1>11. QED
  BY <1>2, <1>3, <1>4, <1>9, <1>10

LEMMA RecordReportStep ==
  ASSUME HCInv, FrameStarted, CurrentFrame.refSlot > 0, NEW addr \in Addresses, IsMember(addr),
         NEW report \in ReportHash, RecordReport(addr, report)
  PROVE  HCInv'
<1> DEFINE slot == CurrentFrame.refSlot
           d == memberIndices1b[addr]
           reported == reportingState.lastReportRefSlot
           variants == IF reported = slot THEN reportVariants ELSE <<>>
           v == VariantIndex(variants, report)
           left == WithoutReportOf(variants, memberStates, d, slot)
           states == Reported(memberStates, d, slot, v)
           rs == [reportingState EXCEPT !.lastReportRefSlot = slot]
<1>1. /\ memberStates \in Seq(MemberState) /\ reportVariants \in Seq(ReportVariant)
      /\ d \in 1..Len(memberStates) /\ slot \in Nat /\ reportingState \in ReportingState
  <2>1. slot \in Int
    BY CurrentFrameFacts DEF HCInv, TypeOK, BaseOracleTypeOK, Time
  <2>2. slot \in Nat
    BY <2>1
  <2>3. QED
    BY <2>2, LenProperties DEF HCInv, TypeOK, MembersConsistent, IsMember
<1>2. variants \in Seq(ReportVariant) /\ Counted(memberStates, variants, slot, slot)
  <2>1. Counted(memberStates, reportVariants, reported, slot)
    BY CountedIsSupport DEF HCInv
  <2>2. CASE reported = slot
    BY <1>1, <2>1, <2>2
  <2>3. CASE reported # slot
    <3>1. variants = <<>>
      BY <2>3
    <3>2. \A k \in DOMAIN memberStates : memberStates[k].lastReportRefSlot # slot
      BY <2>1, <2>3 DEF Counted
    <3>3. QED
      BY <3>1, <3>2, EmptySeq DEF Counted
  <2>4. QED
    BY <2>2, <2>3
<1>3. v \in 1..(Len(variants) + 1) /\ Len(left) = Len(variants)
  <2> HIDE DEF variants, d, slot
  <2> QED BY <1>1, <1>2, VariantIndexFacts, WithoutReportFacts
<1>4. reportVariants' = Supported(left, v, report) /\ memberStates' = states
  BY <1>3 DEF RecordReport, Supported, WithoutReportOf, Reported, ReportOf
<1>5. UNCHANGED <<now, frameConfig, memberAddresses, memberIndices1b, quorum, reportProcessor>>
  BY DEF RecordReport
<1>6. /\ reportVariants' \in Seq(ReportVariant)
      /\ DOMAIN variants \subseteq DOMAIN reportVariants'
      /\ v \in DOMAIN reportVariants'
      /\ memberStates' \in Seq(MemberState)
      /\ Len(memberStates') = Len(memberStates)
      /\ DOMAIN memberStates' = DOMAIN memberStates
      /\ memberStates'[d].lastReportRefSlot = slot
      /\ \A k \in DOMAIN memberStates \ {d} : memberStates'[k] = memberStates[k]
      /\ Counted(memberStates', reportVariants', slot, slot)
  <2> DEFINE updated == Supported(left, v, report)
  <2>1. /\ updated \in Seq(ReportVariant)
        /\ DOMAIN variants \subseteq DOMAIN updated
        /\ v \in DOMAIN updated
        /\ states \in Seq(MemberState)
        /\ Len(states) = Len(memberStates)
        /\ DOMAIN states = DOMAIN memberStates
        /\ states[d].lastReportRefSlot = slot
        /\ \A k \in DOMAIN memberStates \ {d} : states[k] = memberStates[k]
        /\ Counted(states, updated, slot, slot)
    <3> HIDE DEF variants, d, slot, v
    <3> QED BY <1>1, <1>2, <1>3, ReportKeepsCounted
  <2>2. reportVariants' = updated /\ memberStates' = states
    BY <1>4
  <2>3. QED
    <3> HIDE DEF updated, states, variants, d, slot, v
    <3> QED BY <2>1, <2>2
<1>7. /\ rs \in ReportingState
      /\ rs.lastReportRefSlot = slot
      /\ rs.lastConsensusRefSlot = reportingState.lastConsensusRefSlot
      /\ rs.lastConsensusVariantIndex = reportingState.lastConsensusVariantIndex
  BY <1>1 DEF ReportingState
<1>8. OraclesInv' /\ Settled(rs)
  <2>1. CASE ConsensusReached(rs, CurrentFrame, report, v)
    <3>1. v \in Nat
      <4> HIDE DEF variants, v
      <4>1. Len(variants) \in Nat
        BY <1>2, LenProperties
      <4>2. QED
        BY <1>3, <4>1
    <3>2. QED
      <4> HIDE DEF v, rs, slot
      <4> QED BY <1>5, <1>6, <1>7, <2>1, <3>1, HCInvFacts, ReachedKeepsOracles DEF slot
  <2>2. CASE ConsensusNotReached(rs, CurrentFrame)
    <3> HIDE DEF rs
    <3> QED BY <1>5, <1>7, <2>2, HCInvFacts, NotReachedKeepsOracles
  <2>3. CASE reportingState' = rs /\ UNCHANGED oracle
    BY <1>5, <1>7, <2>3, HCInvFacts, UnchangedKeepsOracles DEF Settled
  <2>4. QED
    BY <2>1, <2>2, <2>3 DEF RecordReport
<1>9. reportingState' \in ReportingState /\ reportingState'.lastReportRefSlot = slot
  BY <1>7, <1>8 DEF Settled
<1>10. ConsensusIsOfThePast'
  <2>1. reported = slot => DOMAIN reportVariants \subseteq DOMAIN reportVariants'
    BY <1>6
  <2> HIDE DEF rs
  <2>2. QED
    BY <1>5, <1>7, <1>8, <2>1, SettledKeepsPast
<1>11. UNCHANGED <<FrameStarted, CurrentFrame>>
  BY <1>5 DEF FrameStarted, CurrentFrame
<1>12. TypeOK'
  BY <1>5, <1>6, <1>8, <1>9 DEF HCInv, TypeOK, OraclesInv, IInv
<1>13. Time'
  BY <1>5 DEF HCInv, Time
<1>14. MembersConsistent'
  BY <1>5, <1>6 DEF HCInv, MembersConsistent, IsMember
<1>15. MembersAreOfThePast'
  <2>1. ASSUME NEW k \in DOMAIN memberStates
        PROVE  \/ memberStates'[k].lastReportRefSlot = 0
               \/ memberStates'[k].lastReportRefSlot <= slot
    <3>1. CASE k = d
      BY <1>1, <1>6, <3>1
    <3>2. CASE k # d
      <4> HIDE DEF d
      <4> QED BY <1>6, <3>2 DEF HCInv, MembersAreOfThePast, OfThePast
    <3>3. QED
      BY <3>1, <3>2
  <2>2. QED
    BY <1>6, <1>11, <2>1 DEF MembersAreOfThePast, OfThePast
<1>16. SupportNeverUnderflows'
  BY <1>6, <1>9, <1>11, CountedIsSupportPrimed
<1>17. QED
  BY <1>8, <1>10, <1>12, <1>13, <1>14, <1>15, <1>16 DEF HCInv, OraclesInv, IInv

LEMMA SubmitReportStep ==
  ASSUME HCInv, NEW a \in Addresses, NEW p \in Payloads,
         LET version == oracle[reportProcessor].consensusVersion
             slot    == CurrentFrame.refSlot
         IN  SubmitReport(a, slot, [consensusVersion |-> version, refSlot |-> slot, payload |-> p],
                          version)
  PROVE  HCInv' \/ UNCHANGED vars
<1> DEFINE version == oracle[reportProcessor].consensusVersion
           slot == CurrentFrame.refSlot
           report == [consensusVersion |-> version, refSlot |-> slot, payload |-> p]
<1>1. /\ slot > 0 /\ IsMember(a) /\ FrameStarted
      /\ RecordReport(a, report) \/ UNCHANGED vars
  BY DEF SubmitReport
<1>2. report \in ReportHash
  <2>1. slot \in Nat
    <3>1. slot \in Int
      BY <1>1, CurrentFrameFacts DEF HCInv, TypeOK, BaseOracleTypeOK, Time
    <3>2. QED
      BY <1>1, <3>1
  <2>2. version \in ConsensusVersions
    BY DEF HCInv, TypeOK, BaseOracleTypeOK, OracleStorage
  <2>3. QED
    BY <2>1, <2>2, BaseOracleAssumption DEF ReportHash
<1>3. QED
  <2> HIDE DEF report
  <2> QED BY <1>1, <1>2, RecordReportStep

------------------------------------------------------------------------------

LEMMA InitHCInv == Init => HCInv
<1> SUFFICES ASSUME Init PROVE HCInv
  OBVIOUS
<1>1. ASSUME NEW o \in Oracles
      PROVE  /\ oracle[o] \in OracleStorage
             /\ oracle[o].lastProcessingRefSlot = oracle[o].report.refSlot
  <2>1. PICK v \in ConsensusVersions, r \in RefSlots : oracle[o] = Initialized(HC, v, r)
    BY DEF Init
  <2>2. r \in Nat
    BY BaseOracleAssumption
  <2>3. QED
    BY <2>1, <2>2, HashConsensusAssumption DEF Initialized, OracleStorage, ConsensusReport
<1>2. BaseOracleTypeOK
  <2>1. oracle \in [Oracles -> OracleStorage]
    BY <1>1 DEF Init
  <2>2. QED
    BY <2>1, ChainConfigAssumption DEF Init, BaseOracleTypeOK
<1>3. ReportNotBehindProcessing /\ OraclesAreOfThePast
  BY <1>1 DEF ReportNotBehindProcessing, OraclesAreOfThePast, OracleStorage
<1>4. Time
  <2>1. now = GENESIS_TIME + 0 * SECONDS_PER_SLOT /\ 0 \in Nat /\ GENESIS_TIME <= now
    BY ChainConfigAssumption DEF Init
  <2>2. QED
    BY <2>1 DEF Time, ComputeTimestampAtSlot
<1>5. /\ memberStates = <<>> /\ memberAddresses = <<>> /\ reportVariants = <<>>
      /\ memberIndices1b = [a \in Addresses |-> 0] /\ quorum = 0 /\ reportProcessor \in Oracles
      /\ reportingState = [lastReportRefSlot |-> 0, lastConsensusRefSlot |-> 0,
                           lastConsensusVariantIndex |-> 0]
  BY DEF Init
<1>6. /\ frameConfig \in FrameConfig
      /\ frameConfig.fastLaneLengthSlots <= frameConfig.epochsPerFrame * SLOTS_PER_EPOCH
  BY HashConsensusAssumption DEF Init, FrameConfig
<1>7. TypeOK
  BY <1>2, <1>5, <1>6, EmptySeq DEF TypeOK, ReportingState
<1>8. DOMAIN memberStates = {} /\ DOMAIN memberAddresses = {}
  BY <1>5
<1>9. MembersConsistent /\ MembersAreOfThePast /\ SupportNeverUnderflows
  BY <1>5, <1>8 DEF MembersConsistent, IsMember, MembersAreOfThePast, SupportNeverUnderflows
<1>10. ConsensusIsOfThePast
  BY <1>5 DEF ConsensusIsOfThePast
<1>11. QED
  BY <1>3, <1>4, <1>7, <1>9, <1>10 DEF HCInv

LEMMA NextHCInv == HCInv /\ [Next]_vars => HCInv'
<1> SUFFICES ASSUME HCInv, [Next]_vars PROVE HCInv'
  OBVIOUS
<1>1. CASE UNCHANGED vars
  <2>1. reportProcessor' \in Oracles
    BY <1>1 DEF vars, hcVars, HCInv, TypeOK
  <2>2. OraclesInv'
    BY <1>1, HCInvFacts, UnchangedKeepsOracles DEF vars, hcVars
  <2>3. QED
    BY <1>1, <2>1, <2>2, OraclesOnlyStep DEF vars, hcVars
<1>2. CASE AdvanceClock
  BY <1>2, AdvanceClockStep
<1>3. ASSUME NEW e \in InitialEpochs, UpdateInitialEpoch(e) PROVE HCInv'
  BY <1>3, UpdateInitialEpochStep
<1>4. ASSUME NEW n \in EpochsPerFrame, NEW l \in FastLaneLengths, SetFrameConfig(n, l) PROVE HCInv'
  BY <1>4, SetFrameConfigStep
<1>5. ASSUME NEW l \in FastLaneLengths, SetFastLaneLengthSlots(l) PROVE HCInv'
  BY <1>5, SetFastLaneStep
<1>6. ASSUME NEW a \in Addresses, NEW q \in Quorums, AddMember(a, q) PROVE HCInv'
  BY <1>6, AddMemberStep, HashConsensusAssumption
<1>7. ASSUME NEW a \in Addresses, NEW q \in Quorums, RemoveMember(a, q) PROVE HCInv'
  BY <1>7, RemoveMemberStep, HashConsensusAssumption
<1>8. ASSUME NEW q \in Quorums \union {UNREACHABLE_QUORUM}, SetQuorum(q) PROVE HCInv'
  BY <1>8, SetQuorumStep, HashConsensusAssumption
<1>9. ASSUME NEW o \in Oracles, SetReportProcessor(o) PROVE HCInv'
  BY <1>9, SetReportProcessorStep
<1>10. ASSUME NEW a \in Addresses, NEW p \in Payloads,
              LET version == oracle[reportProcessor].consensusVersion
                  slot    == CurrentFrame.refSlot
              IN  SubmitReport(a, slot,
                    [consensusVersion |-> version, refSlot |-> slot, payload |-> p], version)
       PROVE  HCInv'
  BY <1>1, <1>10, SubmitReportStep
<1>11. ASSUME NEW o \in Oracles, ProcessReport(o) \/ ManageOracle(o) PROVE HCInv'
  BY <1>11, ProcessReportStep, ManageOracleStep
<1>12. QED
  BY <1>1, <1>2, <1>3, <1>4, <1>5, <1>6, <1>7, <1>8, <1>9, <1>10, <1>11 DEF Next

LEMMA Invariance == Spec => []HCInv
BY InitHCInv, NextHCInv, PTL DEF Spec

(***************************************************************************)
(* The storage of the contract is always well formed; in particular no     *)
(* support is decremented below zero.                                      *)
(***************************************************************************)
THEOREM HashConsensusTypes == Spec => []TypeOK
<1>1. HCInv => TypeOK
  BY DEF HCInv
<1>2. QED
  BY <1>1, Invariance, PTL

(***************************************************************************)
(* The address list, the state list and the index map describe the same    *)
(* committee, however many members are added, moved and removed.           *)
(***************************************************************************)
THEOREM MembersStayConsistent == Spec => []MembersConsistent
<1>1. HCInv => MembersConsistent
  BY DEF HCInv
<1>2. QED
  BY <1>1, Invariance, PTL

(***************************************************************************)
(* The support of a variant covers the members whose last report it is,    *)
(* so the decrements of removals and of changed reports never underflow.   *)
(***************************************************************************)
THEOREM SupportCoversReporters == Spec => []SupportNeverUnderflows
<1>1. HCInv => SupportNeverUnderflows
  BY DEF HCInv
<1>2. QED
  BY <1>1, Invariance, PTL

(***************************************************************************)
(* The processor never refuses the report of the current frame, so the     *)
(* vote that completes a quorum does not revert: it holds no report of a   *)
(* later slot, and the deadline it is given is not over.                   *)
(***************************************************************************)
THEOREM ConsensusIsNeverRefused == Spec => []ConsensusNeverRefused
<1>1. ASSUME HCInv PROVE ConsensusNeverRefused
  <2> DEFINE o == oracle[reportProcessor]
             frame == CurrentFrame
  <2>1. SUFFICES ASSUME FrameStarted, o.lastProcessingRefSlot < frame.refSlot
                 PROVE  /\ o.report.refSlot <= frame.refSlot
                        /\ now <= ComputeTimestampAtSlot(frame.reportProcessingDeadlineSlot)
    BY DEF ConsensusNeverRefused
  <2>2. /\ o.report.refSlot \in Nat /\ o.lastProcessingRefSlot \in Nat
        /\ frame.refSlot \in Int
    BY <1>1, <2>1, CurrentFrameFacts
    DEF HCInv, TypeOK, BaseOracleTypeOK, OracleStorage, ConsensusReport, Time
  <2>3. o.report.refSlot = o.lastProcessingRefSlot \/ o.report.refSlot <= frame.refSlot
    BY <1>1 DEF HCInv, TypeOK, OraclesAreOfThePast, OfThePast
  <2>4. now <= ComputeTimestampAtSlot(frame.reportProcessingDeadlineSlot)
    BY <1>1, <2>1, DeadlineIsAhead DEF HCInv, TypeOK, BaseOracleTypeOK
  <2>5. QED
    BY <2>1, <2>2, <2>3, <2>4
<1>2. QED
  BY <1>1, Invariance, PTL

(***************************************************************************)
(* setFrameConfig keeps the reference slot or moves it on by at least the  *)
(* smaller of the two frame sizes, whatever the sizes and the time.        *)
(***************************************************************************)
RefSlotKept ==
  LET old  == CurrentFrame.refSlot
      new  == FrameAtTimestamp(now, frameConfig').refSlot
      step == {n * SLOTS_PER_EPOCH : n \in {frameConfig.epochsPerFrame, frameConfig'.epochsPerFrame}}
  IN  FrameStarted => new = old \/ \E n \in step : new >= old + n

THEOREM FrameConfigNeverTakesTheSlotBack == Spec => FrameConfigKeepsTheRefSlot
<1>1. ASSUME HCInv, [Next]_vars PROVE RefSlotKept
  <2> DEFINE old == CurrentFrame.refSlot
             new == FrameAtTimestamp(now, frameConfig').refSlot
  <2>1. CASE frameConfig' = frameConfig
    BY <2>1 DEF RefSlotKept, CurrentFrame
  <2>2. ASSUME NEW e \in InitialEpochs, UpdateInitialEpoch(e) PROVE RefSlotKept
    BY <2>2 DEF UpdateInitialEpoch, RefSlotKept
  <2>3. ASSUME NEW n \in EpochsPerFrame, NEW l \in FastLaneLengths, SetFrameConfig(n, l)
        PROVE  RefSlotKept
    <3>1. new = old \/ new >= old + frameConfig'.epochsPerFrame * SLOTS_PER_EPOCH
      BY <1>1, <2>3, SetFrameConfigFacts
    <3> HIDE DEF old, new
    <3>2. QED
      BY <3>1 DEF RefSlotKept, old, new
  <2>4. ASSUME NEW l \in FastLaneLengths, SetFastLaneLengthSlots(l) PROVE RefSlotKept
    BY <1>1, <2>4, SetFastLaneStep DEF RefSlotKept
  <2>5. ASSUME NEW a \in Addresses, NEW q, AddMember(a, q) \/ RemoveMember(a, q)
        PROVE  frameConfig' = frameConfig
    BY <2>5 DEF AddMember, RemoveMember
  <2>6. ASSUME NEW q, SetQuorum(q) PROVE frameConfig' = frameConfig
    BY <2>6 DEF SetQuorum
  <2>7. ASSUME NEW o, SetReportProcessor(o) \/ ProcessReport(o) \/ ManageOracle(o)
        PROVE  frameConfig' = frameConfig
    BY <2>7 DEF SetReportProcessor, ProcessReport, ManageOracle, hcVars
  <2>8. ASSUME NEW a, NEW slot, NEW report, NEW version, SubmitReport(a, slot, report, version)
        PROVE  frameConfig' = frameConfig
    BY <2>8 DEF SubmitReport, RecordReport, vars, hcVars
  <2>9. AdvanceClock \/ UNCHANGED vars => frameConfig' = frameConfig
    BY DEF AdvanceClock, vars, hcVars
  <2>10. QED
    BY <1>1, <2>1, <2>2, <2>3, <2>4, <2>5, <2>6, <2>7, <2>8, <2>9 DEF Next
<1>2. HCInv /\ [Next]_vars => [RefSlotKept]_vars
  BY <1>1
<1>3. QED
  BY <1>2, Invariance, PTL DEF Spec, FrameConfigKeepsTheRefSlot, RefSlotKept

------------------------------------------------------------------------------

(***************************************************************************)
(* Majorities: the votes are counted exactly, and the report processor     *)
(* holds what a majority agreed on.                                        *)
(*                                                                         *)
(* The invariant VotesInv says what the bookkeeping of the contract is     *)
(* worth as long as no processor is past the current slot: the support of  *)
(* a variant is the number of members behind it, and the last consensus    *)
(* the contract remembers is the one a quorum stands behind and the one    *)
(* the processor was sent.  As a quorum is a majority, two variants are    *)
(* never agreed on at a time, which is what makes the incremental check of *)
(* _submitReport as good as a full one.                                    *)
(***************************************************************************)
Exact(states, variants, slot) ==
  \A i \in DOMAIN variants : variants[i].support = Cardinality(SupportersIn(states, slot, i))

(***************************************************************************)
(* Every reference slot that was processed is before the current one.      *)
(***************************************************************************)
AllBefore ==
  FrameStarted /\ \A o \in Oracles : oracle[o].lastProcessingRefSlot < CurrentFrame.refSlot

ReportsAreOfThePast ==
  reportingState.lastReportRefSlot = 0 \/ OfThePast(reportingState.lastReportRefSlot)

QuorumIsMajority ==
  \/ memberStates = <<>> /\ reportVariants = <<>>
  \/ 2 * quorum > Len(memberStates)

ReportsAreCounted ==
  reportingState.lastReportRefSlot = CurrentFrame.refSlot =>
    Exact(memberStates, reportVariants, CurrentFrame.refSlot)

Submitted(i) ==
  /\ reportingState.lastReportRefSlot = CurrentFrame.refSlot
  /\ i \in Agreed
  /\ oracle[reportProcessor].report.refSlot = CurrentFrame.refSlot
  /\ oracle[reportProcessor].report.hash = reportVariants[i].hash

NothingPending ==
  \/ oracle[reportProcessor].report.hash = ZeroHash
  \/ oracle[reportProcessor].report.refSlot # CurrentFrame.refSlot

OneProcessor == \A o, p \in Oracles : o = p

(***************************************************************************)
(* A processor that was replaced while it held a report may still hold it  *)
(* when it is put in charge again, hence the condition of NothingPending.  *)
(***************************************************************************)
NothingAgreed ==
  /\ reportingState.lastReportRefSlot = CurrentFrame.refSlot => Agreed = {}
  /\ OneProcessor => NothingPending

ConsensusIsSubmitted ==
  IF reportingState.lastConsensusRefSlot = CurrentFrame.refSlot
  THEN Submitted(reportingState.lastConsensusVariantIndex)
  ELSE NothingAgreed

VotesInv ==
  /\ ReportsAreOfThePast
  /\ QuorumIsMajority
  /\ AllBefore => ReportsAreCounted /\ ConsensusIsSubmitted

------------------------------------------------------------------------------

(***************************************************************************)
(* If votes are counted exactly and a quorum is a majority, two variants   *)
(* with a quorum have a member in common, who has one last report.         *)
(***************************************************************************)
LEMMA OneMajority ==
  ASSUME NEW states \in Seq(MemberState), NEW variants, NEW slot, Exact(states, variants, slot),
         NEW q \in Nat, 2 * q > Len(states),
         NEW i \in DOMAIN variants, NEW j \in DOMAIN variants,
         variants[i].support >= q, variants[j].support >= q
  PROVE  i = j
<1> DEFINE S == SupportersIn(states, slot, i)
           T == SupportersIn(states, slot, j)
           U == 1..Len(states)
<1>1. /\ S \subseteq U /\ T \subseteq U
      /\ Cardinality(S) \in Nat /\ Cardinality(T) \in Nat
  BY SupportersAreMembers
<1>2. Len(states) \in Nat
  BY LenProperties
<1>3. IsFiniteSet(U) /\ Cardinality(U) = Len(states)
  <2> DEFINE n == Len(states)
  <2>1. 1 \in Int /\ n \in Int /\ n >= 0
    BY <1>2
  <2>2. IsFiniteSet(1..n) /\ Cardinality(1..n) = IF 1 > n THEN 0 ELSE n - 1 + 1
    <3> HIDE DEF n
    <3> QED BY <2>1, FS_Interval, Zenon
  <2>3. (IF 1 > n THEN 0 ELSE n - 1 + 1) = n
    <3> HIDE DEF n
    <3> QED BY <2>1
  <2>4. QED
    BY <2>2, <2>3
<1>4. Cardinality(S) >= q /\ Cardinality(T) >= q
  BY DEF Exact
<1>5. Cardinality(S) + Cardinality(T) > Cardinality(U)
  <2> HIDE DEF S, T, U
  <2> QED BY <1>1, <1>2, <1>3, <1>4
<1>6. S \cap T # {}
  <2> HIDE DEF S, T, U
  <2> QED BY <1>1, <1>3, <1>5, FS_MajoritiesIntersect
<1>7. QED
  BY <1>6 DEF SupportersIn

(***************************************************************************)
(* Members that come and go.                                               *)
(***************************************************************************)
LEMMA AddKeepsExact ==
  ASSUME NEW states \in Seq(MemberState), NEW variants, NEW slot \in Nat \ {0},
         Exact(states, variants, slot)
  PROVE  Exact(Append(states, NewMember), variants, slot)
<1>1. \A i : SupportersIn(Append(states, NewMember), slot, i) = SupportersIn(states, slot, i)
  BY NewMemberSupportsNothing
<1>2. QED
  BY <1>1 DEF Exact

LEMMA RemoveKeepsExact ==
  ASSUME NEW states \in Seq(MemberState), NEW variants, NEW slot, Exact(states, variants, slot),
         NEW d \in 1..Len(states), states[d].lastReportRefSlot # slot
  PROVE  Exact(SwapAndPop(states, d), variants, slot)
<1>1. \A i : SupportersIn(states, slot, i) \ {d} = SupportersIn(states, slot, i)
  BY DEF SupportersIn
<1>2. \A i : Cardinality(SupportersIn(SwapAndPop(states, d), slot, i))
              = Cardinality(SupportersIn(states, slot, i) \ {d})
  BY RemoveLosesSupporter
<1>3. QED
  BY <1>1, <1>2 DEF Exact

LEMMA WithdrawKeepsExact ==
  ASSUME NEW states \in Seq(MemberState), NEW variants \in Seq(ReportVariant), NEW slot,
         Exact(states, variants, slot), Counted(states, variants, slot, slot),
         NEW d \in 1..Len(states), states[d].lastReportRefSlot = slot
  PROVE  LET p == states[d].lastReportVariantIndex
         IN  Exact(SwapAndPop(states, d), Withdrawn(variants, p), slot)
<1> DEFINE p == states[d].lastReportVariantIndex
           left == Withdrawn(variants, p)
           S(i) == SupportersIn(states, slot, i)
           After(i) == Cardinality(SupportersIn(SwapAndPop(states, d), slot, i))
<1>1. /\ p \in DOMAIN variants
      /\ variants[p].support > 0
      /\ Counted(SwapAndPop(states, d), Withdrawn(variants, p), slot, slot)
  BY WithdrawKeepsCounted
<1>2. /\ DOMAIN left = DOMAIN variants
      /\ left[p].support = variants[p].support - 1
      /\ \A i \in DOMAIN variants \ {p} : left[i] = variants[i]
  <2> HIDE DEF p
  <2> QED BY <1>1, WithdrawnVariants
<1>3. \A i : After(i) = Cardinality(S(i) \ {d})
  BY RemoveLosesSupporter
<1>4. \A i : IsFiniteSet(S(i))
  BY SupportersAreMembers
<1>5. \A i : d \in S(i) <=> i = p
  BY LenProperties DEF SupportersIn
<1>6. \A i : Cardinality(S(i) \ {d}) = IF i = p THEN Cardinality(S(i)) - 1 ELSE Cardinality(S(i))
  <2> HIDE DEF S, p
  <2> QED BY <1>4, <1>5, FS_RemoveElement
<1>7. \A i \in DOMAIN variants : variants[i].support = Cardinality(S(i))
  BY DEF Exact
<1>8. \A i \in DOMAIN left : left[i].support = After(i)
  <2> HIDE DEF S, p, left, After
  <2> QED BY <1>1, <1>2, <1>3, <1>6, <1>7
<1>9. QED
  BY <1>8 DEF Exact

(***************************************************************************)
(* A vote: what it takes from the variant of the member's previous report  *)
(* and adds to the variant of the new one.                                 *)
(***************************************************************************)
LEMMA WithdrawnFrom ==
  ASSUME NEW states \in Seq(MemberState), NEW variants \in Seq(ReportVariant), NEW slot,
         Counted(states, variants, slot, slot), NEW d \in 1..Len(states), NEW i \in DOMAIN variants
  PROVE  LET left == WithoutReportOf(variants, states, d, slot)
         IN  /\ left[i].hash = variants[i].hash
             /\ left[i].support = IF d \in SupportersIn(states, slot, i)
                                  THEN variants[i].support - 1 ELSE variants[i].support
<1> DEFINE p == states[d].lastReportVariantIndex
           left == WithoutReportOf(variants, states, d, slot)
<1>1. d \in SupportersIn(states, slot, i) <=> states[d].lastReportRefSlot = slot /\ p = i
  BY LenProperties DEF SupportersIn
<1>2. CASE states[d].lastReportRefSlot # slot
  BY <1>1, <1>2 DEF WithoutReportOf
<1>3. CASE states[d].lastReportRefSlot = slot
  <2>1. left = Withdrawn(variants, p)
    BY <1>3 DEF WithoutReportOf
  <2>2. /\ p \in DOMAIN variants
        /\ variants[p].support > 0
        /\ Counted(SwapAndPop(states, d), Withdrawn(variants, p), slot, slot)
    BY <1>3, WithdrawKeepsCounted
  <2>3. /\ left[p].hash = variants[p].hash
        /\ left[p].support = variants[p].support - 1
        /\ \A j \in DOMAIN variants \ {p} : left[j] = variants[j]
    <3> HIDE DEF p, left
    <3> QED BY <2>1, <2>2, WithdrawnVariants
  <2>4. QED
    <3> HIDE DEF p, left
    <3>1. CASE i = p
      BY <1>1, <1>3, <2>3, <3>1 DEF left
    <3>2. CASE i # p
      BY <1>1, <2>3, <3>2 DEF left
    <3>3. QED
      BY <3>1, <3>2
<1>4. QED
  BY <1>2, <1>3

OneMoreFor(updated, v, report, left, variants) ==
  /\ DOMAIN updated = DOMAIN variants \union {v}
  /\ v \in DOMAIN variants =>
       /\ updated[v].hash = variants[v].hash
       /\ updated[v].support = left[v].support + 1
  /\ v \notin DOMAIN variants => updated[v].hash = report /\ updated[v].support = 1
  /\ \A i \in DOMAIN variants \ {v} : /\ updated[i].hash = variants[i].hash
                                      /\ updated[i].support = left[i].support

LEMMA ReportedVariants ==
  ASSUME NEW states \in Seq(MemberState), NEW variants \in Seq(ReportVariant), NEW slot \in Nat,
         Counted(states, variants, slot, slot), NEW d \in 1..Len(states),
         NEW v \in 1..(Len(variants) + 1), NEW report \in ReportHash
  PROVE  LET left == WithoutReportOf(variants, states, d, slot)
         IN  OneMoreFor(Supported(left, v, report), v, report, left, variants)
<1> DEFINE left == WithoutReportOf(variants, states, d, slot)
           updated == Supported(left, v, report)
           total == Len(variants)
<1>1. /\ left \in Seq(ReportVariant)
      /\ Len(left) = total
  BY WithoutReportFacts
<1>2. total \in Nat /\ DOMAIN variants = 1..total
  BY LenProperties
<1>3. \A i \in DOMAIN variants : left[i].hash = variants[i].hash
  BY WithdrawnFrom
<1>4. /\ DOMAIN updated = 1..Len(left) \union {v}
      /\ updated[v].hash = IF v <= Len(left) THEN left[v].hash ELSE report
      /\ updated[v].support = IF v <= Len(left) THEN left[v].support + 1 ELSE 1
      /\ \A i \in 1..Len(left) : i # v => updated[i] = left[i]
  <2> HIDE DEF left
  <2>1. v \in 1..(Len(left) + 1)
    BY <1>1
  <2>2. QED
    BY <1>1, <2>1, SupportedFacts, ZenonT(30)
<1>5. v \in DOMAIN variants <=> v <= Len(left)
  <2> HIDE DEF left, total
  <2> QED BY <1>1, <1>2 DEF total
<1>6. OneMoreFor(updated, v, report, left, variants)
  <2> HIDE DEF left, updated, total
  <2> QED BY <1>1, <1>2, <1>3, <1>4, <1>5 DEF OneMoreFor
<1>7. QED
  BY <1>6

LEMMA ReportKeepsExact ==
  ASSUME NEW states \in Seq(MemberState), NEW variants \in Seq(ReportVariant), NEW slot \in Nat,
         Counted(states, variants, slot, slot), Exact(states, variants, slot),
         NEW d \in 1..Len(states), NEW v \in 1..(Len(variants) + 1), NEW report \in ReportHash
  PROVE  Exact(Reported(states, d, slot, v),
               Supported(WithoutReportOf(variants, states, d, slot), v, report), slot)
<1> DEFINE left == WithoutReportOf(variants, states, d, slot)
           updated == Supported(left, v, report)
           S(i) == SupportersIn(states, slot, i)
           T(i) == SupportersIn(Reported(states, d, slot, v), slot, i)
<1>1. OneMoreFor(updated, v, report, left, variants)
  BY ReportedVariants
<1>2. v \in Nat /\ DOMAIN variants = 1..Len(variants)
  BY LenProperties
<1>3. \A i : T(i) = IF i = v THEN S(i) \union {d} ELSE S(i) \ {d}
  BY <1>2, ReportMovesSupporter
<1>4. \A i : IsFiniteSet(S(i)) /\ Cardinality(S(i)) \in Nat
  BY SupportersAreMembers
<1>5. \A i : IsFiniteSet(S(i) \ {d}) /\
             Cardinality(S(i) \ {d}) = IF d \in S(i) THEN Cardinality(S(i)) - 1 ELSE Cardinality(S(i))
  <2> HIDE DEF S
  <2> QED BY <1>4, FS_RemoveElement
<1>6. \A i \in DOMAIN variants : left[i].support = Cardinality(S(i) \ {d})
  <2>1. ASSUME NEW i \in DOMAIN variants PROVE left[i].support = Cardinality(S(i) \ {d})
    <3>1. left[i].support = IF d \in S(i) THEN variants[i].support - 1 ELSE variants[i].support
      BY WithdrawnFrom
    <3>2. variants[i].support = Cardinality(S(i))
      BY DEF Exact
    <3>3. QED
      <4> HIDE DEF left, S
      <4> QED BY <1>5, <3>1, <3>2
  <2>2. QED
    BY <2>1
<1>7. Cardinality(T(v)) = Cardinality(S(v) \ {d}) + 1
  <2>1. T(v) = (S(v) \ {d}) \union {d}
    <3> HIDE DEF S, T
    <3> QED BY <1>3
  <2>2. QED
    <3> HIDE DEF S, T
    <3> QED BY <1>5, <2>1, FS_AddElement, ZenonT(30)
<1>8. v \notin DOMAIN variants => Cardinality(S(v) \ {d}) = 0
  <2>1. SUFFICES ASSUME v \notin DOMAIN variants PROVE S(v) \ {d} = {}
    BY FS_EmptySet
  <2>2. ASSUME NEW k \in S(v) PROVE FALSE
    <3>1. /\ k \in DOMAIN states /\ states[k].lastReportRefSlot = slot
          /\ states[k].lastReportVariantIndex = v
      BY DEF SupportersIn
    <3>2. states[k].lastReportVariantIndex \in DOMAIN variants
      BY <3>1 DEF Counted
    <3>3. QED
      BY <2>1, <3>1, <3>2
  <2>3. QED
    BY <2>2
<1>9. ASSUME NEW i \in DOMAIN updated PROVE updated[i].support = Cardinality(T(i))
  <2> HIDE DEF S, T, left, updated
  <2>1. CASE i = v
    <3>1. CASE v \in DOMAIN variants
      BY <1>1, <1>6, <1>7, <2>1, <3>1 DEF OneMoreFor
    <3>2. CASE v \notin DOMAIN variants
      BY <1>1, <1>7, <1>8, <2>1, <3>2 DEF OneMoreFor
    <3>3. QED
      BY <3>1, <3>2
  <2>2. CASE i # v
    BY <1>1, <1>3, <1>6, <1>9, <2>2 DEF OneMoreFor
  <2>3. QED
    BY <2>1, <2>2
<1>10. QED
  BY <1>9 DEF Exact

------------------------------------------------------------------------------

(***************************************************************************)
(* What the contract sends to its processor.                               *)
(***************************************************************************)
ProcessedKept ==
  \A o \in Oracles : oracle'[o].lastProcessingRefSlot = oracle[o].lastProcessingRefSlot

LEMMA SubmitOutcome ==
  ASSUME oracle \in [Oracles -> OracleStorage], NEW o \in Oracles, NEW report,
         SubmitReportForProcessing(o, CurrentFrame, report)
  PROVE  /\ oracle'[o].report.refSlot = CurrentFrame.refSlot
         /\ oracle'[o].report.hash = report
         /\ ProcessedKept
<1> DEFINE slot == CurrentFrame.refSlot
           deadline == ComputeTimestampAtSlot(CurrentFrame.reportProcessingDeadlineSlot)
<1>1. oracle' = [oracle EXCEPT ![o].report =
                   [hash |-> report, refSlot |-> slot, processingDeadlineTime |-> deadline]]
  BY DEF SubmitReportForProcessing, SubmitConsensusReport
<1> HIDE DEF slot, deadline
<1>2. /\ oracle'[o].report.refSlot = slot
      /\ oracle'[o].report.hash = report
      /\ ProcessedKept
  BY <1>1 DEF OracleStorage, ProcessedKept
<1>3. QED
  BY <1>2 DEF slot

LEMMA DiscardOutcome ==
  ASSUME oracle \in [Oracles -> OracleStorage], NEW o \in Oracles,
         oracle[o].report.refSlot = CurrentFrame.refSlot,
         DiscardConsensusReport(o, HC, CurrentFrame.refSlot)
  PROVE  /\ oracle'[o].report.hash = ZeroHash
         /\ ProcessedKept
<1>1. oracle[o].report.refSlot \in Nat
  BY DEF OracleStorage, ConsensusReport
<1>2. oracle' = [oracle EXCEPT ![o].report.hash = ZeroHash]
  BY <1>1 DEF DiscardConsensusReport
<1>3. QED
  BY <1>2 DEF OracleStorage, ConsensusReport, ProcessedKept

(***************************************************************************)
(* _consensusReached and _consensusNotReached, called with a reporting     *)
(* state rs that remembers the consensus of the state.                     *)
(***************************************************************************)
Remembers(rs) ==
  /\ rs \in ReportingState
  /\ rs.lastConsensusRefSlot = reportingState.lastConsensusRefSlot
  /\ rs.lastConsensusVariantIndex = reportingState.lastConsensusVariantIndex

SameFrame == UNCHANGED <<now, frameConfig, reportProcessor>>

LEMMA SameFrameKeeps ==
  ASSUME SameFrame
  PROVE  UNCHANGED <<FrameStarted, CurrentFrame, CurrentSlot, reportProcessor>>
BY DEF SameFrame, FrameStarted, CurrentFrame, CurrentSlot

LEMMA ReachedIsSubmitted ==
  ASSUME TypeOK, SameFrame, NEW rs, Remembers(rs), rs.lastReportRefSlot = CurrentFrame.refSlot,
         NEW report, NEW i \in DOMAIN reportVariants',
         reportVariants'[i].hash = report, reportVariants'[i].support >= quorum',
         ConsensusReached(rs, CurrentFrame, report, i),
         /\ reportingState.lastConsensusRefSlot = CurrentFrame.refSlot
         /\ reportingState.lastConsensusVariantIndex = i
         => /\ oracle[reportProcessor].report.refSlot = CurrentFrame.refSlot
            /\ oracle[reportProcessor].report.hash = report
  PROVE  ConsensusIsSubmitted' /\ ProcessedKept
<1> DEFINE slot == CurrentFrame.refSlot
<1>1. CurrentFrame' = CurrentFrame /\ reportProcessor' = reportProcessor
  BY SameFrameKeeps
<1>2. oracle \in [Oracles -> OracleStorage] /\ reportProcessor \in Oracles
  BY DEF TypeOK, BaseOracleTypeOK
<1>3. i \in Agreed'
  BY DEF Agreed
<1>4. CASE /\ reportingState' = [rs EXCEPT !.lastConsensusRefSlot = slot,
                                           !.lastConsensusVariantIndex = i]
           /\ SubmitReportForProcessing(reportProcessor, CurrentFrame, report)
  <2>1. /\ oracle'[reportProcessor].report.refSlot = slot
        /\ oracle'[reportProcessor].report.hash = report
        /\ ProcessedKept
    BY <1>2, <1>4, SubmitOutcome
  <2>2. /\ reportingState'.lastConsensusRefSlot = slot
        /\ reportingState'.lastConsensusVariantIndex = i
        /\ reportingState'.lastReportRefSlot = slot
    BY <1>4 DEF Remembers, ReportingState
  <2>3. QED
    BY <1>1, <1>3, <2>1, <2>2 DEF ConsensusIsSubmitted, Submitted
<1>5. CASE /\ rs.lastConsensusRefSlot = slot /\ rs.lastConsensusVariantIndex = i
           /\ reportingState' = rs /\ UNCHANGED oracle
  <2>1. ProcessedKept
    BY <1>5 DEF ProcessedKept
  <2>2. /\ oracle'[reportProcessor].report.refSlot = slot
        /\ oracle'[reportProcessor].report.hash = report
    BY <1>5 DEF Remembers
  <2>3. QED
    BY <1>1, <1>3, <1>5, <2>1, <2>2 DEF ConsensusIsSubmitted, Submitted
<1>6. QED
  BY <1>4, <1>5 DEF ConsensusReached

LEMMA NotReachedIsDiscarded ==
  ASSUME TypeOK, SameFrame, CurrentFrame.refSlot # 0, NEW rs, Remembers(rs),
         ConsensusIsSubmitted, ConsensusNotReached(rs, CurrentFrame),
         rs.lastReportRefSlot = CurrentFrame.refSlot => Agreed' = {}
  PROVE  ConsensusIsSubmitted' /\ ProcessedKept
<1> DEFINE slot == CurrentFrame.refSlot
<1>1. CurrentFrame' = CurrentFrame /\ reportProcessor' = reportProcessor
  BY SameFrameKeeps
<1>2. oracle \in [Oracles -> OracleStorage] /\ reportProcessor \in Oracles
  BY DEF TypeOK, BaseOracleTypeOK
<1>3. CASE rs.lastConsensusRefSlot = slot
  <2>1. /\ reportingState' = [rs EXCEPT !.lastConsensusRefSlot = 0]
        /\ DiscardConsensusReport(reportProcessor, HC, slot)
    BY <1>3 DEF ConsensusNotReached
  <2>2. oracle[reportProcessor].report.refSlot = slot
    BY <1>3 DEF Remembers, ConsensusIsSubmitted, Submitted
  <2>3. oracle'[reportProcessor].report.hash = ZeroHash /\ ProcessedKept
    BY <1>2, <2>1, <2>2, DiscardOutcome
  <2>4. /\ reportingState'.lastConsensusRefSlot # slot
        /\ reportingState'.lastReportRefSlot = rs.lastReportRefSlot
    BY <2>1 DEF Remembers, ReportingState
  <2>5. QED
    BY <1>1, <2>3, <2>4 DEF ConsensusIsSubmitted, NothingAgreed, NothingPending
<1>4. CASE rs.lastConsensusRefSlot # slot
  <2>1. reportingState' = rs /\ UNCHANGED oracle
    BY <1>4 DEF ConsensusNotReached
  <2>2. OneProcessor => NothingPending
    BY <1>4 DEF Remembers, ConsensusIsSubmitted, NothingAgreed
  <2>3. ProcessedKept
    BY <2>1 DEF ProcessedKept
  <2>4. QED
    BY <1>1, <1>4, <2>1, <2>2, <2>3 DEF ConsensusIsSubmitted, NothingAgreed, NothingPending
<1>5. QED
  BY <1>3, <1>4

LEMMA ReachedKeepsProcessed ==
  ASSUME TypeOK, NEW rs, NEW report, NEW i,
         ConsensusReached(rs, CurrentFrame, report, i) \/ ConsensusNotReached(rs, CurrentFrame)
  PROVE  ProcessedKept
<1>1. oracle \in [Oracles -> OracleStorage] /\ reportProcessor \in Oracles
  BY DEF TypeOK, BaseOracleTypeOK
<1>2. SubmitReportForProcessing(reportProcessor, CurrentFrame, report) => ProcessedKept
  BY <1>1, SubmitOutcome
<1>3. DiscardConsensusReport(reportProcessor, HC, CurrentFrame.refSlot) => ProcessedKept
  BY <1>1 DEF DiscardConsensusReport, OracleStorage, ConsensusReport, ProcessedKept
<1>4. UNCHANGED oracle => ProcessedKept
  BY DEF ProcessedKept
<1>5. QED
  BY <1>2, <1>3, <1>4 DEF ConsensusReached, ConsensusNotReached

LEMMA SlotIsPositive ==
  ASSUME HCInv, AllBefore
  PROVE  /\ CurrentFrame.refSlot \in Nat \ {0}
         /\ CurrentSlot <= CurrentFrame.reportProcessingDeadlineSlot
         /\ ~ (LastProcessingRefSlot >= CurrentFrame.refSlot)
<1>1. /\ CurrentFrame.refSlot \in Int
      /\ CurrentSlot <= CurrentFrame.reportProcessingDeadlineSlot
  BY CurrentFrameFacts DEF HCInv, TypeOK, BaseOracleTypeOK, Time, AllBefore
<1>2. LastProcessingRefSlot \in Nat /\ LastProcessingRefSlot < CurrentFrame.refSlot
  BY DEF LastProcessingRefSlot, HCInv, TypeOK, BaseOracleTypeOK, OracleStorage, AllBefore
<1>3. QED
  BY <1>1, <1>2

(***************************************************************************)
(* The full check of _checkConsensus, over variants whose hashes stay.     *)
(***************************************************************************)
LEMMA CheckIsSubmitted ==
  ASSUME HCInv, SameFrame, AllBefore, ConsensusIsSubmitted,
         reportVariants' \in Seq(ReportVariant), DOMAIN reportVariants' = DOMAIN reportVariants,
         \A i \in DOMAIN reportVariants : reportVariants'[i].hash = reportVariants[i].hash,
         CheckConsensus(quorum')
  PROVE  ConsensusIsSubmitted'
<1> DEFINE slot == CurrentFrame.refSlot
           agreed == {i \in DOMAIN reportVariants' :
                        /\ reportingState.lastReportRefSlot = CurrentFrame.refSlot
                        /\ reportVariants'[i].support >= quorum'}
           first == CHOOSE i \in agreed : \A j \in agreed : i <= j
<1>1. /\ slot # 0
      /\ ~ (CurrentSlot > CurrentFrame.reportProcessingDeadlineSlot)
      /\ ~ (LastProcessingRefSlot >= CurrentFrame.refSlot)
  <2>1. CurrentSlot \in Nat /\ CurrentFrame.reportProcessingDeadlineSlot \in Int
    BY CurrentFrameFacts DEF HCInv, TypeOK, BaseOracleTypeOK, Time, AllBefore
  <2>2. QED
    BY <2>1, SlotIsPositive
<1>2. TypeOK /\ Remembers(reportingState)
  BY DEF HCInv, TypeOK, Remembers
<1>3. IF agreed # {}
      THEN ConsensusReached(reportingState, CurrentFrame, reportVariants'[first].hash, first)
      ELSE ConsensusNotReached(reportingState, CurrentFrame)
  BY <1>1 DEF CheckConsensus
<1>4. CASE agreed # {}
  <2>1. agreed \subseteq Nat
    OBVIOUS
  <2>2. first \in agreed
    <3> HIDE DEF agreed
    <3> QED BY <1>4, <2>1, LeastElement
  <2>3. /\ reportingState.lastReportRefSlot = slot
        /\ first \in DOMAIN reportVariants'
        /\ reportVariants'[first].support >= quorum'
    <3> HIDE DEF first
    <3> QED BY <2>2
  <2>4. /\ reportingState.lastConsensusRefSlot = slot
        /\ reportingState.lastConsensusVariantIndex = first
        => /\ oracle[reportProcessor].report.refSlot = slot
           /\ oracle[reportProcessor].report.hash = reportVariants'[first].hash
    <3> HIDE DEF first
    <3> QED BY <2>3 DEF ConsensusIsSubmitted, Submitted
  <2>5. QED
    <3> HIDE DEF first, agreed
    <3> QED BY <1>2, <1>3, <1>4, <2>3, <2>4, ReachedIsSubmitted
<1>5. CASE agreed = {}
  <2>1. reportingState.lastReportRefSlot = slot => Agreed' = {}
    BY <1>5 DEF Agreed
  <2>2. QED
    BY <1>1, <1>2, <1>3, <1>5, <2>1, NotReachedIsDiscarded
<1>6. QED
  BY <1>4, <1>5

LEMMA SetQuorumKeepsConsensus ==
  ASSUME HCInv, VotesInv, SameFrame,
         reportVariants' \in Seq(ReportVariant), DOMAIN reportVariants' = DOMAIN reportVariants,
         \A i \in DOMAIN reportVariants : reportVariants'[i].hash = reportVariants[i].hash,
         memberStates' \in Seq(MemberState), NEW q \in Nat,
         SetQuorumAndCheckConsensus(q, Len(memberStates'))
  PROVE  /\ ReportsAreOfThePast' /\ QuorumIsMajority'
         /\ AllBefore' => AllBefore /\ ConsensusIsSubmitted'
         /\ reportingState'.lastReportRefSlot = reportingState.lastReportRefSlot
<1>1. quorum' = q /\ q > Len(memberStates') \div 2 /\ Len(memberStates') \in Nat
  BY LenProperties DEF SetQuorumAndCheckConsensus
<1>2. reportingState'.lastReportRefSlot = reportingState.lastReportRefSlot
  BY SetQuorumKeepsPast DEF SameFrame
<1>3. UNCHANGED <<FrameStarted, CurrentFrame>>
  BY SameFrameKeeps
<1>4. ReportsAreOfThePast'
  BY <1>2, <1>3 DEF VotesInv, ReportsAreOfThePast, OfThePast
<1>5. QuorumIsMajority'
  <2> DEFINE total == Len(memberStates')
  <2>1. 2 * q > total
    <3> HIDE DEF total
    <3> QED BY <1>1 DEF total
  <2>2. QED
    BY <1>1, <2>1 DEF QuorumIsMajority
<1>6. ProcessedKept
  <2>1. UNCHANGED oracle => ProcessedKept
    BY DEF ProcessedKept
  <2>2. QED
    BY <2>1, ReachedKeepsProcessed DEF HCInv, SetQuorumAndCheckConsensus, CheckConsensus
<1>7. AllBefore' => AllBefore
  BY <1>3, <1>6 DEF AllBefore, ProcessedKept
<1>8. ASSUME AllBefore PROVE ConsensusIsSubmitted'
  <2>1. CheckConsensus(quorum')
    BY <1>1, <1>8 DEF SetQuorumAndCheckConsensus, AllBefore
  <2>2. QED
    BY <1>8, <2>1, CheckIsSubmitted DEF VotesInv
<1>9. QED
  BY <1>2, <1>4, <1>5, <1>7, <1>8

------------------------------------------------------------------------------

(***************************************************************************)
(* Every step keeps the invariant.                                         *)
(***************************************************************************)
LEMMA CountedNow ==
  ASSUME HCInv, AllBefore
  PROVE  Counted(memberStates, reportVariants, reportingState.lastReportRefSlot, CurrentFrame.refSlot)
<1>1. FrameStarted /\ CurrentFrame.refSlot > 0
  BY SlotIsPositive DEF AllBefore
<1>2. QED
  BY <1>1, CountedIsSupport DEF HCInv

LEMMA SetQuorumVotes ==
  ASSUME HCInv, VotesInv, NEW q \in Nat, SetQuorum(q)
  PROVE  VotesInv'
<1>1. /\ UNCHANGED <<now, frameConfig, memberVars, reportVariants, reportProcessor>>
      /\ SetQuorumAndCheckConsensus(q, Len(memberStates'))
  BY DEF SetQuorum, memberVars
<1>2. reportVariants' \in Seq(ReportVariant) /\ memberStates' \in Seq(MemberState)
  BY <1>1 DEF HCInv, TypeOK, memberVars
<1>3. SameFrame
  BY <1>1 DEF SameFrame
<1>4. /\ ReportsAreOfThePast' /\ QuorumIsMajority'
      /\ AllBefore' => AllBefore /\ ConsensusIsSubmitted'
      /\ reportingState'.lastReportRefSlot = reportingState.lastReportRefSlot
  BY <1>1, <1>2, <1>3, SetQuorumKeepsConsensus
<1>5. AllBefore => ReportsAreCounted'
  BY <1>1, <1>3, <1>4, SameFrameKeeps DEF VotesInv, ReportsAreCounted, memberVars
<1>6. QED
  BY <1>4, <1>5 DEF VotesInv

LEMMA AddMemberVotes ==
  ASSUME HCInv, HCInv', VotesInv, NEW addr \in Addresses, NEW q \in Nat, AddMember(addr, q)
  PROVE  VotesInv'
<1>1. /\ memberStates' = Append(memberStates, NewMember)
      /\ UNCHANGED <<now, frameConfig, reportVariants, reportProcessor>>
      /\ SetQuorumAndCheckConsensus(q, Len(memberStates) + 1)
  BY DEF AddMember, NewMember
<1>2. memberStates \in Seq(MemberState) /\ NewMember \in MemberState
  BY DEF HCInv, TypeOK, NewMember, MemberState
<1>3. Len(memberStates') = Len(memberStates) + 1
  BY <1>1, <1>2, AppendProperties
<1>4. reportVariants' \in Seq(ReportVariant) /\ memberStates' \in Seq(MemberState)
  BY DEF HCInv, TypeOK
<1>5. SameFrame
  BY <1>1 DEF SameFrame
<1>6. /\ ReportsAreOfThePast' /\ QuorumIsMajority'
      /\ AllBefore' => AllBefore /\ ConsensusIsSubmitted'
      /\ reportingState'.lastReportRefSlot = reportingState.lastReportRefSlot
  BY <1>1, <1>3, <1>4, <1>5, SetQuorumKeepsConsensus
<1>7. ASSUME AllBefore PROVE ReportsAreCounted'
  <2> DEFINE slot == CurrentFrame.refSlot
  <2>1. slot \in Nat \ {0} /\ CurrentFrame' = CurrentFrame
    BY <1>5, <1>7, SlotIsPositive, SameFrameKeeps
  <2>2. SUFFICES ASSUME reportingState.lastReportRefSlot = slot
                 PROVE  Exact(memberStates', reportVariants', slot)
    BY <1>6, <2>1 DEF ReportsAreCounted
  <2>3. Exact(memberStates, reportVariants, slot)
    BY <1>7, <2>2 DEF VotesInv, ReportsAreCounted
  <2>4. QED
    <3> HIDE DEF slot
    <3> QED BY <1>1, <1>2, <2>1, <2>3, AddKeepsExact
<1>8. QED
  BY <1>6, <1>7 DEF VotesInv

LEMMA RemoveMemberVotes ==
  ASSUME HCInv, HCInv', VotesInv, NEW addr \in Addresses, NEW q \in Nat, RemoveMember(addr, q)
  PROVE  VotesInv'
<1> DEFINE d == memberIndices1b[addr]
           state == memberStates[d]
           p == state.lastReportVariantIndex
           slot == CurrentFrame.refSlot
<1>1. /\ IsMember(addr)
      /\ memberStates' = SwapAndPop(memberStates, d)
      /\ state.lastReportRefSlot > 0 => FrameStarted
      /\ reportVariants' = IF ReportStillCounts(state) THEN Withdrawn(reportVariants, p)
                           ELSE reportVariants
      /\ UNCHANGED <<now, frameConfig, reportProcessor>>
      /\ SetQuorumAndCheckConsensus(q, Len(memberStates) - 1)
  BY DEF RemoveMember
<1>2. /\ memberStates \in Seq(MemberState) /\ reportVariants \in Seq(ReportVariant)
      /\ d \in 1..Len(memberStates)
  BY <1>1, LenProperties DEF HCInv, TypeOK, MembersConsistent, IsMember
<1>3. Len(memberStates') = Len(memberStates) - 1
  <2> HIDE DEF d
  <2> QED BY <1>1, <1>2, SwapAndPopElements
<1>4. reportVariants' \in Seq(ReportVariant) /\ memberStates' \in Seq(MemberState)
  BY DEF HCInv, TypeOK
<1>5. SameFrame /\ CurrentFrame' = CurrentFrame
  BY <1>1, SameFrameKeeps DEF SameFrame
<1>6. ReportStillCounts(state) =>
        /\ p \in DOMAIN reportVariants /\ reportVariants[p].support > 0
        /\ FrameStarted /\ slot > 0 /\ state.lastReportRefSlot = slot
  <2>1. SUFFICES ASSUME ReportStillCounts(state)
                 PROVE  /\ p \in DOMAIN reportVariants /\ reportVariants[p].support > 0
                        /\ FrameStarted /\ slot > 0 /\ state.lastReportRefSlot = slot
    OBVIOUS
  <2>2. FrameStarted /\ slot > 0 /\ state.lastReportRefSlot = slot
    BY <1>1, <2>1 DEF ReportStillCounts
  <2>3. Counted(memberStates, reportVariants, reportingState.lastReportRefSlot, slot)
    BY <2>2, CountedIsSupport DEF HCInv
  <2>4. /\ p \in DOMAIN reportVariants
        /\ reportVariants[p].support > 0
        /\ Counted(SwapAndPop(memberStates, d), Withdrawn(reportVariants, p),
                   reportingState.lastReportRefSlot, slot)
    <3> HIDE DEF d, slot
    <3> QED BY <1>2, <2>2, <2>3, WithdrawKeepsCounted
  <2>5. QED
    BY <2>2, <2>4
<1>7. /\ DOMAIN reportVariants' = DOMAIN reportVariants
      /\ \A i \in DOMAIN reportVariants : reportVariants'[i].hash = reportVariants[i].hash
  <2>1. CASE ReportStillCounts(state)
    <3>1. /\ DOMAIN Withdrawn(reportVariants, p) = DOMAIN reportVariants
          /\ Withdrawn(reportVariants, p)[p].hash = reportVariants[p].hash
          /\ \A i \in DOMAIN reportVariants \ {p} :
               Withdrawn(reportVariants, p)[i] = reportVariants[i]
      <4> HIDE DEF p
      <4> QED BY <1>2, <1>6, <2>1, WithdrawnVariants
    <3>2. QED
      <4> HIDE DEF p
      <4> QED BY <1>1, <2>1, <3>1
  <2>2. CASE ~ReportStillCounts(state)
    BY <1>1, <2>2
  <2>3. QED
    BY <2>1, <2>2
<1>8. /\ ReportsAreOfThePast' /\ QuorumIsMajority'
      /\ AllBefore' => AllBefore /\ ConsensusIsSubmitted'
      /\ reportingState'.lastReportRefSlot = reportingState.lastReportRefSlot
  BY <1>1, <1>3, <1>4, <1>5, <1>7, SetQuorumKeepsConsensus
<1>9. ASSUME AllBefore PROVE ReportsAreCounted'
  <2>1. SUFFICES ASSUME reportingState.lastReportRefSlot = slot
                 PROVE  Exact(memberStates', reportVariants', slot)
    BY <1>5, <1>8 DEF ReportsAreCounted
  <2>2. Exact(memberStates, reportVariants, slot) /\ Counted(memberStates, reportVariants, slot, slot)
    BY <1>9, <2>1, CountedNow DEF VotesInv, ReportsAreCounted
  <2>3. slot > 0 /\ LastProcessingRefSlot < slot
    <3>1. reportProcessor \in Oracles
      BY DEF HCInv, TypeOK
    <3>2. QED
      BY <1>9, <3>1, SlotIsPositive DEF AllBefore, LastProcessingRefSlot
  <2>4. CASE state.lastReportRefSlot = slot
    <3>1. ReportStillCounts(state)
      BY <2>3, <2>4 DEF ReportStillCounts
    <3>2. Exact(SwapAndPop(memberStates, d), Withdrawn(reportVariants, p), slot)
      <4> HIDE DEF d, slot
      <4> QED BY <1>2, <2>2, <2>4, WithdrawKeepsExact
    <3>3. QED
      BY <1>1, <3>1, <3>2
  <2>5. CASE state.lastReportRefSlot # slot
    <3>1. ~ReportStillCounts(state)
      BY <2>5 DEF ReportStillCounts
    <3>2. Exact(SwapAndPop(memberStates, d), reportVariants, slot)
      <4> HIDE DEF d, slot
      <4> QED BY <1>2, <2>2, <2>5, RemoveKeepsExact
    <3>3. QED
      BY <1>1, <3>1, <3>2
  <2>6. QED
    BY <2>4, <2>5
<1>10. QED
  BY <1>8, <1>9 DEF VotesInv

(***************************************************************************)
(* A vote.  The lost quorum of the previous variant, if it had one, was    *)
(* the only one.                                                           *)
(***************************************************************************)
LEMMA RecordReportVotes ==
  ASSUME HCInv, HCInv', VotesInv, FrameStarted, CurrentFrame.refSlot > 0,
         NEW addr \in Addresses, IsMember(addr), NEW report \in ReportHash,
         RecordReport(addr, report)
  PROVE  VotesInv'
<1> DEFINE slot == CurrentFrame.refSlot
           d == memberIndices1b[addr]
           p == memberStates[d].lastReportVariantIndex
           again == memberStates[d].lastReportRefSlot = slot
           reported == reportingState.lastReportRefSlot
           variants == IF reported = slot THEN reportVariants ELSE <<>>
           v == VariantIndex(variants, report)
           left == WithoutReportOf(variants, memberStates, d, slot)
           updated == Supported(left, v, report)
           rs == [reportingState EXCEPT !.lastReportRefSlot = slot]
<1>1. /\ memberStates \in Seq(MemberState) /\ reportVariants \in Seq(ReportVariant)
      /\ d \in 1..Len(memberStates) /\ slot \in Nat /\ reportingState \in ReportingState
  <2>1. slot \in Int
    BY CurrentFrameFacts DEF HCInv, TypeOK, BaseOracleTypeOK, Time
  <2>2. slot \in Nat
    BY <2>1
  <2>3. QED
    BY <2>2, LenProperties DEF HCInv, TypeOK, MembersConsistent, IsMember
<1>2. variants \in Seq(ReportVariant) /\ Counted(memberStates, variants, slot, slot)
  <2>1. Counted(memberStates, reportVariants, reported, slot)
    BY CountedIsSupport DEF HCInv
  <2>2. CASE reported = slot
    BY <1>1, <2>1, <2>2
  <2>3. CASE reported # slot
    <3>1. variants = <<>>
      BY <2>3
    <3>2. \A k \in DOMAIN memberStates : memberStates[k].lastReportRefSlot # slot
      BY <2>1, <2>3 DEF Counted
    <3>3. QED
      BY <3>1, <3>2, EmptySeq DEF Counted
  <2>4. QED
    BY <2>2, <2>3
<1>3. /\ v \in 1..(Len(variants) + 1) /\ Len(left) = Len(variants)
      /\ v \in DOMAIN variants => variants[v].hash = report
  <2> HIDE DEF variants, d, slot
  <2> QED BY <1>1, <1>2, VariantIndexFacts, WithoutReportFacts
<1>4. reportVariants' = updated /\ memberStates' = Reported(memberStates, d, slot, v)
  BY <1>3 DEF RecordReport, Supported, WithoutReportOf, Reported, ReportOf
<1>5. /\ UNCHANGED <<now, frameConfig, memberAddresses, memberIndices1b, quorum, reportProcessor>>
      /\ again => p \in DOMAIN variants /\ p # v
      /\ IF updated[v].support >= quorum
         THEN ConsensusReached(rs, CurrentFrame, report, v)
         ELSE IF again /\ left[p].support = quorum - 1
              THEN ConsensusNotReached(rs, CurrentFrame)
              ELSE reportingState' = rs /\ UNCHANGED oracle
  BY <1>3 DEF RecordReport, Supported, WithoutReportOf
<1>6. OneMoreFor(updated, v, report, left, variants)
  <2> HIDE DEF variants, d, slot, v
  <2> QED BY <1>1, <1>2, <1>3, ReportedVariants
<1>7. ASSUME NEW i \in DOMAIN variants
      PROVE  /\ variants[i].support \in Nat
             /\ left[i].support = IF again /\ i = p THEN variants[i].support - 1
                                                    ELSE variants[i].support
  <2>1. variants[i] \in ReportVariant
    <3> HIDE DEF variants
    <3> QED BY <1>2, <1>7, ElementOfSeq, LenProperties
  <2>2. left[i].support = IF d \in SupportersIn(memberStates, slot, i)
                          THEN variants[i].support - 1 ELSE variants[i].support
    <3> HIDE DEF variants, d, slot
    <3> QED BY <1>1, <1>2, <1>7, WithdrawnFrom
  <2>3. d \in SupportersIn(memberStates, slot, i) <=> again /\ i = p
    BY <1>1, LenProperties DEF SupportersIn
  <2>4. QED
    BY <2>1, <2>2, <2>3 DEF ReportVariant
<1>8. SameFrame /\ UNCHANGED <<FrameStarted, CurrentFrame, reportProcessor>>
  BY <1>5, SameFrameKeeps DEF SameFrame
<1>9. /\ Remembers(rs) /\ rs.lastReportRefSlot = slot
      /\ rs \in ReportingState
  BY <1>1 DEF Remembers, ReportingState
<1>10. ProcessedKept
  <2>1. UNCHANGED oracle => ProcessedKept
    BY DEF ProcessedKept
  <2> HIDE DEF rs, v, updated, left, p, again
  <2>2. QED
    BY <1>5, <2>1, ReachedKeepsProcessed DEF HCInv
<1>11. AllBefore' => AllBefore
  BY <1>8, <1>10 DEF AllBefore, ProcessedKept
<1>12. reportingState'.lastReportRefSlot = slot
  <2> HIDE DEF rs, v, updated, left, p, again
  <2> QED BY <1>5, <1>9 DEF ConsensusReached, ConsensusNotReached, ReportingState
<1>13. ReportsAreOfThePast'
  BY <1>1, <1>8, <1>12 DEF ReportsAreOfThePast, OfThePast
<1>14. Len(memberStates') = Len(memberStates) /\ 2 * quorum > Len(memberStates)
  <2>1. Len(memberStates') = Len(memberStates)
    <3> HIDE DEF variants, d, slot, v
    <3>1. v \in Nat
      BY <1>2, <1>3, LenProperties
    <3>2. QED
      BY <1>1, <1>4, <3>1, ReportMovesSupporter
  <2>2. memberStates # <<>>
    <3> HIDE DEF d
    <3> QED BY <1>1
  <2>3. QED
    BY <2>1, <2>2 DEF VotesInv, QuorumIsMajority
<1>15. QuorumIsMajority'
  BY <1>5, <1>14 DEF QuorumIsMajority
<1>16. ASSUME AllBefore PROVE ReportsAreCounted' /\ Exact(memberStates, variants, slot)
  <2>1. Exact(memberStates, variants, slot)
    BY <1>16 DEF VotesInv, ReportsAreCounted, Exact
  <2>2. Exact(Reported(memberStates, d, slot, v), updated, slot)
    <3> HIDE DEF variants, d, slot, v
    <3> QED BY <1>1, <1>2, <1>3, <2>1, ReportKeepsExact
  <2>3. QED
    BY <1>4, <1>8, <2>1, <2>2 DEF ReportsAreCounted
<1>17. ASSUME AllBefore PROVE ConsensusIsSubmitted'
  <2> DEFINE last == reportingState.lastConsensusVariantIndex
             report0 == oracle[reportProcessor].report
  <2>1. /\ ConsensusIsSubmitted /\ TypeOK /\ slot # 0
        /\ Exact(memberStates, variants, slot) /\ quorum \in Nat /\ quorum' = quorum
    BY <1>5, <1>16, <1>17 DEF VotesInv, HCInv, TypeOK
  <2>2. reportingState.lastConsensusRefSlot = slot =>
          /\ last \in DOMAIN variants /\ variants[last].support >= quorum
          /\ report0.refSlot = slot /\ report0.hash = variants[last].hash
    BY <2>1 DEF ConsensusIsSubmitted, Submitted, Agreed
  <2>3. reportingState.lastConsensusRefSlot # slot =>
          /\ \A i \in DOMAIN variants : ~ (variants[i].support >= quorum)
          /\ OneProcessor => NothingPending
    BY <2>1 DEF ConsensusIsSubmitted, NothingAgreed, Agreed
  <2>4. /\ DOMAIN updated = DOMAIN variants \union {v}
        /\ updated[v].hash = report
        /\ v \in DOMAIN variants => updated[v].support = variants[v].support + 1
        /\ \A i \in DOMAIN variants \ {v} :
             /\ updated[i].hash = variants[i].hash
             /\ updated[i].support = IF again /\ i = p THEN variants[i].support - 1
                                                      ELSE variants[i].support
    <3> HIDE DEF variants, v, left, updated, d, slot, p, again
    <3> QED BY <1>3, <1>5, <1>6, <1>7 DEF OneMoreFor
  <2>5. CASE updated[v].support >= quorum
    <3>1. ConsensusReached(rs, CurrentFrame, report, v)
      BY <1>5, <2>5
    <3>2. /\ reportingState.lastConsensusRefSlot = slot
          /\ reportingState.lastConsensusVariantIndex = v
          => report0.refSlot = slot /\ report0.hash = report
      <4> HIDE DEF variants, v
      <4> QED BY <1>3, <2>2
    <3>3. v \in DOMAIN reportVariants' /\ reportVariants'[v].hash = report
          /\ reportVariants'[v].support >= quorum'
      <4> HIDE DEF variants, v, updated
      <4> QED BY <1>4, <2>1, <2>4, <2>5
    <3>4. QED
      <4> HIDE DEF variants, v, updated, rs
      <4> QED BY <1>8, <1>9, <2>1, <3>1, <3>2, <3>3, ReachedIsSubmitted
  <2>6. CASE ~ (updated[v].support >= quorum) /\ again /\ left[p].support = quorum - 1
    <3>1. ConsensusNotReached(rs, CurrentFrame)
      BY <1>5, <2>6
    <3>2. p \in DOMAIN variants /\ variants[p].support = quorum /\ p # v
      <4> HIDE DEF variants, v, updated, left, p, again
      <4> QED BY <1>5, <1>7, <2>1, <2>6
    <3>3. ASSUME NEW i \in DOMAIN updated, updated[i].support >= quorum PROVE FALSE
      <4> HIDE DEF variants, v, updated, left, p, again, d, slot
      <4>1. i \in DOMAIN variants \ {v}
        BY <2>4, <2>6, <3>3
      <4>2. i # p
        BY <1>7, <2>1, <2>4, <2>6, <3>2, <3>3, <4>1
      <4>3. variants[i].support >= quorum /\ variants[p].support >= quorum
        BY <2>1, <2>4, <3>2, <3>3, <4>1, <4>2
      <4>4. i = p
        BY <1>1, <1>14, <2>1, <3>2, <4>1, <4>3, OneMajority
      <4>5. QED
        BY <4>2, <4>4
    <3>4. Agreed' = {}
      <4> HIDE DEF updated
      <4> QED BY <1>4, <2>1, <3>3 DEF Agreed
    <3>5. QED
      <4> HIDE DEF rs
      <4> QED BY <1>8, <1>9, <2>1, <3>1, <3>4, NotReachedIsDiscarded
  <2>7. CASE ~ (updated[v].support >= quorum) /\ ~ (again /\ left[p].support = quorum - 1)
    <3>1. reportingState' = rs /\ oracle' = oracle
      BY <1>5, <2>7
    <3>2. CASE reportingState.lastConsensusRefSlot = slot
      <4>1. last \in DOMAIN updated /\ updated[last].support >= quorum
            /\ updated[last].hash = variants[last].hash
        <5> HIDE DEF variants, v, updated, left, p, again, d, slot, last
        <5>1. last # v
          BY <1>7, <2>1, <2>2, <2>4, <2>7, <3>2
        <5>2. last = p /\ again => variants[last].support - 1 >= quorum
          BY <1>7, <2>1, <2>2, <2>7, <3>2
        <5>3. QED
          BY <2>2, <2>4, <3>2, <5>1, <5>2
      <4>2. last \in Agreed' /\ report0.hash = reportVariants'[last].hash
        <5> HIDE DEF variants, updated, last
        <5> QED BY <1>4, <2>1, <2>2, <3>2, <4>1 DEF Agreed
      <4>3. /\ reportingState'.lastConsensusVariantIndex = last
            /\ reportingState'.lastConsensusRefSlot = slot
        <5> HIDE DEF rs
        <5> QED BY <1>9, <3>1, <3>2 DEF Remembers
      <4>4. QED
        <5> HIDE DEF variants, updated, last, rs, v
        <5> QED BY <1>8, <1>12, <2>2, <3>1, <3>2, <4>2, <4>3 DEF ConsensusIsSubmitted, Submitted
    <3>3. CASE reportingState.lastConsensusRefSlot # slot
      <4>1. ASSUME NEW i \in DOMAIN updated, updated[i].support >= quorum PROVE FALSE
        <5> HIDE DEF variants, v, updated, left, p, again, d, slot
        <5> QED BY <1>7, <2>1, <2>3, <2>4, <2>7, <3>3, <4>1
      <4>2. Agreed' = {}
        <5> HIDE DEF updated
        <5> QED BY <1>4, <2>1, <4>1 DEF Agreed
      <4>3. reportingState'.lastConsensusRefSlot # slot
        <5> HIDE DEF rs
        <5> QED BY <1>9, <3>1, <3>3 DEF Remembers
      <4>4. (OneProcessor => NothingPending)'
        BY <1>8, <2>3, <3>1, <3>3 DEF NothingPending
      <4>5. QED
        BY <1>8, <4>2, <4>3, <4>4 DEF ConsensusIsSubmitted, NothingAgreed
    <3>4. QED
      BY <3>2, <3>3
  <2>8. QED
    BY <2>5, <2>6, <2>7
<1>18. QED
  BY <1>11, <1>13, <1>15, <1>16, <1>17 DEF VotesInv

(***************************************************************************)
(* When the slot moves on nothing of the new slot has been gathered.       *)
(***************************************************************************)
LEMMA MovedOnVotes ==
  ASSUME HCInv, HCInv', VotesInv, UNCHANGED committeeVars, MovedOn
  PROVE  VotesInv'
<1> DEFINE slot == CurrentFrame.refSlot
           newSlot == CurrentFrame'.refSlot
<1>1. /\ FrameStarted => slot \in Int
      /\ FrameStarted' => newSlot \in Int
  <2>1. FrameStarted => slot \in Int
    BY CurrentFrameFacts DEF HCInv, TypeOK, BaseOracleTypeOK, Time
  <2>2. (FrameStarted => slot \in Int)'
    BY CurrentFrameFacts, PTL DEF HCInv, TypeOK, BaseOracleTypeOK, Time
  <2>3. QED
    BY <2>1, <2>2
<1>2. FrameStarted => FrameStarted' /\ slot <= newSlot
  BY DEF MovedOn
<1>3. UNCHANGED <<oracle, memberStates, reportingState, quorum, reportVariants, reportProcessor>>
  BY DEF committeeVars, memberVars
<1>4. reportingState \in ReportingState /\ oracle \in [Oracles -> OracleStorage]
      /\ reportProcessor \in Oracles
  BY DEF HCInv, TypeOK, BaseOracleTypeOK
<1>5. /\ reportingState.lastReportRefSlot \in Nat
      /\ reportingState.lastConsensusRefSlot \in Nat
      /\ oracle[reportProcessor].report.refSlot \in Nat
      /\ oracle[reportProcessor].lastProcessingRefSlot \in Nat
  BY <1>4 DEF ReportingState, OracleStorage, ConsensusReport
<1>6. ReportsAreOfThePast'
  BY <1>1, <1>2, <1>3, <1>5 DEF VotesInv, ReportsAreOfThePast, OfThePast
<1>7. QuorumIsMajority'
  BY <1>3 DEF VotesInv, QuorumIsMajority
<1>8. ASSUME AllBefore' PROVE ReportsAreCounted' /\ ConsensusIsSubmitted'
  <2>1. /\ FrameStarted'
        /\ \A o \in Oracles : oracle[o].lastProcessingRefSlot < newSlot
    BY <1>3, <1>8 DEF AllBefore
  <2>2. CASE FrameStarted /\ slot = newSlot
    <3>1. AllBefore
      BY <2>1, <2>2 DEF AllBefore
    <3>2. ReportsAreCounted /\ ConsensusIsSubmitted
      BY <3>1 DEF VotesInv
    <3>3. ReportsAreCounted'
      BY <1>3, <2>2, <3>2 DEF ReportsAreCounted
    <3>4. ConsensusIsSubmitted'
      BY <1>3, <2>2, <3>2
      DEF ConsensusIsSubmitted, Submitted, NothingAgreed, NothingPending, Agreed
    <3>5. QED
      BY <3>3, <3>4
  <2>3. CASE ~FrameStarted \/ slot # newSlot
    <3>1. newSlot \in Int /\ newSlot > 0
          /\ oracle[reportProcessor].lastProcessingRefSlot < newSlot
      BY <1>1, <1>4, <1>5, <2>1
    <3>2. FrameStarted => slot \in Int /\ slot < newSlot
      BY <1>1, <1>2, <2>1, <2>3
    <3>3. /\ reportingState.lastReportRefSlot = 0
             \/ (FrameStarted /\ reportingState.lastReportRefSlot <= slot)
          /\ reportingState.lastConsensusRefSlot = 0
             \/ (FrameStarted /\ reportingState.lastConsensusRefSlot <= slot)
          /\ oracle[reportProcessor].report.refSlot = oracle[reportProcessor].lastProcessingRefSlot
             \/ (FrameStarted /\ oracle[reportProcessor].report.refSlot <= slot)
      <4>1. ReportsAreOfThePast /\ ConsensusIsOfThePast /\ OraclesAreOfThePast
        BY DEF VotesInv, HCInv
      <4>2. reportingState.lastReportRefSlot = 0 \/ OfThePast(reportingState.lastReportRefSlot)
        BY <4>1 DEF ReportsAreOfThePast
      <4>3. reportingState.lastConsensusRefSlot = 0
            \/ OfThePast(reportingState.lastConsensusRefSlot)
        BY <4>1 DEF ConsensusIsOfThePast
      <4>4. oracle[reportProcessor].report.refSlot = oracle[reportProcessor].lastProcessingRefSlot
            \/ OfThePast(oracle[reportProcessor].report.refSlot)
        BY <1>4, <4>1 DEF OraclesAreOfThePast
      <4>5. QED
        BY <4>2, <4>3, <4>4 DEF OfThePast
    <3>4. /\ reportingState.lastReportRefSlot # newSlot
          /\ reportingState.lastConsensusRefSlot # newSlot
          /\ oracle[reportProcessor].report.refSlot # newSlot
      <4> HIDE DEF slot, newSlot
      <4> QED BY <1>5, <3>1, <3>2, <3>3
    <3>5. ReportsAreCounted'
      BY <1>3, <3>4 DEF ReportsAreCounted
    <3>6. ConsensusIsSubmitted'
      BY <1>3, <3>4 DEF ConsensusIsSubmitted, NothingAgreed, NothingPending
    <3>7. QED
      BY <3>5, <3>6
  <2>4. QED
    BY <2>2, <2>3
<1>9. QED
  BY <1>6, <1>7, <1>8 DEF VotesInv

(***************************************************************************)
(* The steps that move the clock or change the frames.                     *)
(***************************************************************************)
FrameMoves ==
  \/ AdvanceClock
  \/ \E e \in InitialEpochs : UpdateInitialEpoch(e)
  \/ \E n \in EpochsPerFrame, l \in FastLaneLengths : SetFrameConfig(n, l)
  \/ \E l \in FastLaneLengths : SetFastLaneLengthSlots(l)

LEMMA FrameMovesOn ==
  ASSUME HCInv, FrameMoves
  PROVE  MovedOn /\ UNCHANGED committeeVars
<1>1. CASE AdvanceClock
  BY <1>1, AdvanceClockStep
<1>2. ASSUME NEW e \in InitialEpochs, UpdateInitialEpoch(e)
      PROVE  MovedOn /\ UNCHANGED committeeVars
  BY <1>2 DEF UpdateInitialEpoch, MovedOn, committeeVars
<1>3. ASSUME NEW n \in EpochsPerFrame, NEW l \in FastLaneLengths, SetFrameConfig(n, l)
      PROVE  MovedOn /\ UNCHANGED committeeVars
  BY <1>3, SetFrameConfigStep
<1>4. ASSUME NEW l \in FastLaneLengths, SetFastLaneLengthSlots(l)
      PROVE  MovedOn /\ UNCHANGED committeeVars
  BY <1>4, SetFastLaneStep
<1>5. QED
  BY <1>1, <1>2, <1>3, <1>4 DEF FrameMoves

(***************************************************************************)
(* The oracles process reports, or are managed.                            *)
(***************************************************************************)
LEMMA OraclesMoveVotes ==
  ASSUME HCInv, VotesInv, UNCHANGED <<now, hcVars>>, oracle' \in [Oracles -> OracleStorage],
         \A p \in Oracles :
           /\ oracle'[p].report = oracle[p].report
           /\ oracle[p].lastProcessingRefSlot <= oracle'[p].lastProcessingRefSlot
  PROVE  VotesInv'
<1>1. UNCHANGED <<FrameStarted, CurrentFrame, memberStates, reportingState, quorum, reportVariants,
                  reportProcessor>>
  BY DEF hcVars, memberVars, FrameStarted, CurrentFrame
<1>2. oracle \in [Oracles -> OracleStorage] /\ reportProcessor \in Oracles
  BY DEF HCInv, TypeOK, BaseOracleTypeOK
<1>3. FrameStarted => CurrentFrame.refSlot \in Int
  BY CurrentFrameFacts DEF HCInv, TypeOK, BaseOracleTypeOK, Time
<1>4. ReportsAreOfThePast' /\ QuorumIsMajority'
  BY <1>1 DEF VotesInv, ReportsAreOfThePast, OfThePast, QuorumIsMajority
<1>5. AllBefore' => AllBefore
  <2> SUFFICES ASSUME AllBefore', NEW p \in Oracles
               PROVE  oracle[p].lastProcessingRefSlot < CurrentFrame.refSlot
    BY <1>1 DEF AllBefore
  <2>1. oracle[p].lastProcessingRefSlot \in Nat /\ oracle'[p].lastProcessingRefSlot \in Nat
    BY <1>2 DEF OracleStorage
  <2>2. /\ oracle[p].lastProcessingRefSlot <= oracle'[p].lastProcessingRefSlot
        /\ oracle'[p].lastProcessingRefSlot < CurrentFrame.refSlot
        /\ CurrentFrame.refSlot \in Int
    BY <1>1, <1>3 DEF AllBefore
  <2>3. QED
    BY <2>1, <2>2
<1>6. ASSUME AllBefore PROVE ReportsAreCounted' /\ ConsensusIsSubmitted'
  <2>1. ReportsAreCounted /\ ConsensusIsSubmitted
    BY <1>6 DEF VotesInv
  <2>2. ReportsAreCounted'
    BY <1>1, <2>1 DEF ReportsAreCounted
  <2>3. oracle'[reportProcessor].report = oracle[reportProcessor].report
    BY <1>2
  <2>4. ConsensusIsSubmitted'
    BY <1>1, <2>1, <2>3
    DEF ConsensusIsSubmitted, Submitted, NothingAgreed, NothingPending, Agreed
  <2>5. QED
    BY <2>2, <2>4
<1>7. QED
  BY <1>4, <1>5, <1>6 DEF VotesInv

LEMMA ProcessReportVotes ==
  ASSUME HCInv, VotesInv, NEW o \in Oracles, ProcessReport(o)
  PROVE  VotesInv'
<1>1. PICK data : SubmitReportData(o, data) /\ UNCHANGED hcVars
  BY DEF ProcessReport
<1>2. oracle \in [Oracles -> OracleStorage]
  BY DEF HCInv, TypeOK, BaseOracleTypeOK
<1>3. oracle' = [oracle EXCEPT ![o].lastProcessingRefSlot = oracle[o].report.refSlot]
  BY <1>1 DEF SubmitReportData, StartProcessing
<1>4. oracle' \in [Oracles -> OracleStorage]
  BY <1>2, <1>3 DEF OracleStorage, ConsensusReport
<1>5. ASSUME NEW p \in Oracles
      PROVE  /\ oracle'[p].report = oracle[p].report
             /\ oracle[p].lastProcessingRefSlot <= oracle'[p].lastProcessingRefSlot
  <2>1. /\ oracle'[p].report = oracle[p].report
        /\ \/ oracle'[p].lastProcessingRefSlot = oracle[p].lastProcessingRefSlot
           \/ oracle'[p].lastProcessingRefSlot = oracle[p].report.refSlot
    BY <1>2, <1>3 DEF OracleStorage
  <2>2. /\ oracle[p].lastProcessingRefSlot <= oracle[p].report.refSlot
        /\ oracle[p].lastProcessingRefSlot \in Nat
    BY <1>2 DEF HCInv, ReportNotBehindProcessing, OracleStorage
  <2>3. QED
    BY <2>1, <2>2
<1>6. UNCHANGED <<now, hcVars>>
  BY <1>1 DEF SubmitReportData
<1>7. QED
  BY <1>4, <1>5, <1>6, OraclesMoveVotes

LEMMA ManageOracleVotes ==
  ASSUME HCInv, VotesInv, NEW o \in Oracles, ManageOracle(o)
  PROVE  VotesInv'
<1>1. UNCHANGED <<now, hcVars>>
  BY DEF ManageOracle, SetConsensusVersion, SetConsensusContract
<1>2. \/ \E v \in ConsensusVersions : oracle' = [oracle EXCEPT ![o].consensusVersion = v]
      \/ \E c \in ConsensusContracts : oracle' = [oracle EXCEPT ![o].consensusContract = c]
  BY HashConsensusAssumption DEF ManageOracle, SetConsensusVersion, SetConsensusContract
<1>3. oracle \in [Oracles -> OracleStorage]
  BY DEF HCInv, TypeOK, BaseOracleTypeOK
<1>4. /\ oracle' \in [Oracles -> OracleStorage]
      /\ \A p \in Oracles : /\ oracle'[p].report = oracle[p].report
                            /\ oracle'[p].lastProcessingRefSlot = oracle[p].lastProcessingRefSlot
                            /\ oracle[p].lastProcessingRefSlot \in Nat
  BY <1>2, <1>3 DEF OracleStorage
<1>5. QED
  BY <1>1, <1>4, OraclesMoveVotes

(***************************************************************************)
(* A new processor is sent the consensus of the frame, if there is one.    *)
(***************************************************************************)
LEMMA SetReportProcessorVotes ==
  ASSUME HCInv, VotesInv, NEW o \in Oracles, SetReportProcessor(o)
  PROVE  VotesInv'
<1> DEFINE slot == CurrentFrame.refSlot
           index == reportingState.lastConsensusVariantIndex
<1>1. /\ o # reportProcessor /\ reportProcessor' = o
      /\ UNCHANGED <<now, frameConfig, memberStates, reportingState, quorum, reportVariants>>
      /\ IF /\ LastProcessingRefSlot < slot
            /\ oracle[o].lastProcessingRefSlot < slot
            /\ reportingState.lastConsensusRefSlot = slot
         THEN SubmitReportForProcessing(o, CurrentFrame, reportVariants[index].hash)
         ELSE UNCHANGED oracle
  BY DEF SetReportProcessor, memberVars
<1>2. UNCHANGED <<FrameStarted, CurrentFrame>>
  BY <1>1 DEF FrameStarted, CurrentFrame
<1>3. oracle \in [Oracles -> OracleStorage] /\ reportProcessor \in Oracles
  BY DEF HCInv, TypeOK, BaseOracleTypeOK
<1>4. ReportsAreOfThePast' /\ QuorumIsMajority'
  BY <1>1, <1>2 DEF VotesInv, ReportsAreOfThePast, OfThePast, QuorumIsMajority
<1>5. ProcessedKept
  <2>1. UNCHANGED oracle => ProcessedKept
    BY DEF ProcessedKept
  <2> HIDE DEF index
  <2>2. QED
    BY <1>1, <1>3, <2>1, SubmitOutcome
<1>6. AllBefore' => AllBefore
  BY <1>2, <1>5 DEF AllBefore, ProcessedKept
<1>7. ASSUME AllBefore PROVE ReportsAreCounted' /\ ConsensusIsSubmitted'
  <2>1. ReportsAreCounted /\ ConsensusIsSubmitted
    BY <1>7 DEF VotesInv
  <2>2. ReportsAreCounted'
    BY <1>1, <1>2, <2>1 DEF ReportsAreCounted
  <2>3. LastProcessingRefSlot < slot /\ oracle[o].lastProcessingRefSlot < slot
    BY <1>3, <1>7 DEF AllBefore, LastProcessingRefSlot
  <2>4. CASE reportingState.lastConsensusRefSlot = slot
    <3>1. Submitted(index)
      BY <2>1, <2>4 DEF ConsensusIsSubmitted
    <3>2. /\ oracle'[o].report.refSlot = slot
          /\ oracle'[o].report.hash = reportVariants[index].hash
      <4> HIDE DEF index
      <4> QED BY <1>1, <1>3, <2>3, <2>4, SubmitOutcome
    <3>3. QED
      BY <1>1, <1>2, <2>2, <2>4, <3>1, <3>2 DEF ConsensusIsSubmitted, Submitted, Agreed
  <2>5. CASE reportingState.lastConsensusRefSlot # slot
    <3>1. NothingAgreed
      BY <2>1, <2>5 DEF ConsensusIsSubmitted
    <3>2. ~ OneProcessor
      BY <1>1, <1>3 DEF OneProcessor
    <3>3. QED
      BY <1>1, <1>2, <2>2, <2>5, <3>1, <3>2 DEF ConsensusIsSubmitted, NothingAgreed, Agreed
  <2>6. QED
    BY <2>4, <2>5
<1>8. QED
  BY <1>4, <1>6, <1>7 DEF VotesInv

LEMMA SubmitReportVotes ==
  ASSUME HCInv, HCInv', VotesInv, NEW a \in Addresses, NEW p \in Payloads,
         LET version == oracle[reportProcessor].consensusVersion
             slot    == CurrentFrame.refSlot
         IN  SubmitReport(a, slot, [consensusVersion |-> version, refSlot |-> slot, payload |-> p],
                          version)
  PROVE  VotesInv' \/ UNCHANGED vars
<1> DEFINE version == oracle[reportProcessor].consensusVersion
           slot == CurrentFrame.refSlot
           report == [consensusVersion |-> version, refSlot |-> slot, payload |-> p]
<1>1. /\ slot > 0 /\ IsMember(a) /\ FrameStarted
      /\ RecordReport(a, report) \/ UNCHANGED vars
  BY DEF SubmitReport
<1>2. report \in ReportHash
  <2>1. slot \in Nat
    <3>1. slot \in Int
      BY <1>1, CurrentFrameFacts DEF HCInv, TypeOK, BaseOracleTypeOK, Time
    <3>2. QED
      BY <1>1, <3>1
  <2>2. version \in ConsensusVersions
    BY DEF HCInv, TypeOK, BaseOracleTypeOK, OracleStorage
  <2>3. QED
    BY <2>1, <2>2, BaseOracleAssumption DEF ReportHash
<1>3. QED
  <2> HIDE DEF report
  <2> QED BY <1>1, <1>2, RecordReportVotes

------------------------------------------------------------------------------

LEMMA InitVotes == Init => VotesInv
<1> SUFFICES ASSUME Init PROVE VotesInv
  OBVIOUS
<1>1. /\ memberStates = <<>> /\ reportVariants = <<>>
      /\ reportingState.lastReportRefSlot = 0 /\ reportingState.lastConsensusRefSlot = 0
  BY DEF Init
<1>2. ReportsAreOfThePast /\ QuorumIsMajority
  BY <1>1 DEF ReportsAreOfThePast, QuorumIsMajority
<1>3. ASSUME AllBefore PROVE ReportsAreCounted /\ ConsensusIsSubmitted
  <2>1. HCInv
    BY InitHCInv
  <2>2. CurrentFrame.refSlot # 0
    BY <1>3, <2>1, SlotIsPositive
  <2>3. oracle[reportProcessor].report.hash = ZeroHash
    <3>1. PICK v \in ConsensusVersions, r \in RefSlots :
            oracle[reportProcessor] = Initialized(HC, v, r)
      BY DEF Init
    <3>2. QED
      BY <3>1 DEF Initialized
  <2>4. QED
    BY <1>1, <2>2, <2>3
    DEF ReportsAreCounted, ConsensusIsSubmitted, NothingAgreed, NothingPending
<1>4. QED
  BY <1>2, <1>3 DEF VotesInv

LEMMA NextVotes == HCInv /\ HCInv' /\ VotesInv /\ [Next]_vars => VotesInv'
<1> SUFFICES ASSUME HCInv, HCInv', VotesInv, [Next]_vars PROVE VotesInv'
  OBVIOUS
<1>1. CASE UNCHANGED vars
  <2>1. oracle' = oracle /\ UNCHANGED <<now, hcVars>>
    BY <1>1 DEF vars
  <2>2. /\ oracle' \in [Oracles -> OracleStorage]
        /\ \A p \in Oracles : oracle[p].lastProcessingRefSlot \in Nat
    BY <2>1 DEF HCInv, TypeOK, BaseOracleTypeOK, OracleStorage
  <2>3. QED
    BY <2>1, <2>2, OraclesMoveVotes
<1>2. CASE FrameMoves
  BY <1>2, FrameMovesOn, MovedOnVotes
<1>3. ASSUME NEW a \in Addresses, NEW q \in Quorums, AddMember(a, q) PROVE VotesInv'
  BY <1>3, AddMemberVotes, HashConsensusAssumption
<1>4. ASSUME NEW a \in Addresses, NEW q \in Quorums, RemoveMember(a, q) PROVE VotesInv'
  BY <1>4, RemoveMemberVotes, HashConsensusAssumption
<1>5. ASSUME NEW q \in Quorums \union {UNREACHABLE_QUORUM}, SetQuorum(q) PROVE VotesInv'
  BY <1>5, SetQuorumVotes, HashConsensusAssumption
<1>6. ASSUME NEW o \in Oracles, SetReportProcessor(o) PROVE VotesInv'
  BY <1>6, SetReportProcessorVotes
<1>7. ASSUME NEW a \in Addresses, NEW p \in Payloads,
             LET version == oracle[reportProcessor].consensusVersion
                 slot    == CurrentFrame.refSlot
             IN  SubmitReport(a, slot,
                   [consensusVersion |-> version, refSlot |-> slot, payload |-> p], version)
      PROVE  VotesInv'
  BY <1>1, <1>7, SubmitReportVotes
<1>8. ASSUME NEW o \in Oracles, ProcessReport(o) \/ ManageOracle(o) PROVE VotesInv'
  BY <1>8, ProcessReportVotes, ManageOracleVotes
<1>9. QED
  BY <1>1, <1>2, <1>3, <1>4, <1>5, <1>6, <1>7, <1>8 DEF Next, FrameMoves

LEMMA VotesInvariance == Spec => [](HCInv /\ VotesInv)
BY Invariance, InitVotes, NextVotes, PTL DEF Spec

------------------------------------------------------------------------------

(***************************************************************************)
(* Only submitReportData moves the slot that a processor is past.          *)
(***************************************************************************)
LEMMA OnlyReportsAreProcessed ==
  ASSUME HCInv, Next
  PROVE  ProcessedKept \/ \E o \in Oracles : ProcessReport(o)
<1>1. oracle \in [Oracles -> OracleStorage] /\ TypeOK
  BY DEF HCInv, TypeOK, BaseOracleTypeOK
<1>2. UNCHANGED oracle => ProcessedKept
  BY DEF ProcessedKept
<1>3. CASE FrameMoves
  BY <1>2, <1>3, FrameMovesOn DEF committeeVars
<1>4. ASSUME NEW q, NEW n, SetQuorumAndCheckConsensus(q, n) PROVE ProcessedKept
  BY <1>1, <1>2, <1>4, ReachedKeepsProcessed DEF SetQuorumAndCheckConsensus, CheckConsensus
<1>5. /\ \A a \in Addresses, q \in Quorums : AddMember(a, q) \/ RemoveMember(a, q) => ProcessedKept
      /\ \A q \in Quorums \union {UNREACHABLE_QUORUM} : SetQuorum(q) => ProcessedKept
  BY <1>4 DEF AddMember, RemoveMember, SetQuorum
<1>6. ASSUME NEW o \in Oracles, SetReportProcessor(o) PROVE ProcessedKept
  <2>1. ASSUME NEW report, SubmitReportForProcessing(o, CurrentFrame, report) PROVE ProcessedKept
    BY <1>1, <2>1, SubmitOutcome
  <2>2. QED
    BY <1>2, <1>6, <2>1 DEF SetReportProcessor
<1>7. ASSUME NEW a \in Addresses, NEW p \in Payloads,
             LET version == oracle[reportProcessor].consensusVersion
                 slot    == CurrentFrame.refSlot
             IN  SubmitReport(a, slot,
                   [consensusVersion |-> version, refSlot |-> slot, payload |-> p], version)
      PROVE  ProcessedKept
  <2>1. CASE UNCHANGED vars
    BY <1>2, <2>1 DEF vars
  <2>2. ASSUME NEW report, RecordReport(a, report) PROVE ProcessedKept
    BY <1>1, <1>2, <2>2, ReachedKeepsProcessed DEF RecordReport
  <2>3. QED
    BY <1>7, <2>1, <2>2 DEF SubmitReport
<1>8. ASSUME NEW o \in Oracles, ManageOracle(o) PROVE ProcessedKept
  <2>1. \/ \E v : oracle' = [oracle EXCEPT ![o].consensusVersion = v]
        \/ \E c : oracle' = [oracle EXCEPT ![o].consensusContract = c]
    BY <1>8 DEF ManageOracle, SetConsensusVersion, SetConsensusContract
  <2>2. QED
    BY <1>1, <2>1 DEF OracleStorage, ProcessedKept
<1>9. QED
  BY <1>3, <1>5, <1>6, <1>7, <1>8 DEF Next, FrameMoves

(***************************************************************************)
(* While the current slot is not processed, the only processor there is    *)
(* holds what was agreed on.                                               *)
(***************************************************************************)
LEMMA BeforeOnlyProcessor ==
  ASSUME HCInv, VotesInv, OneProcessor, FrameStarted, LastProcessingRefSlot < CurrentFrame.refSlot
  PROVE  AllBefore /\ ReportsAreCounted /\ ConsensusIsSubmitted
<1>1. reportProcessor \in Oracles
  BY DEF HCInv, TypeOK
<1>2. AllBefore
  BY <1>1 DEF AllBefore, OneProcessor, LastProcessingRefSlot
<1>3. QED
  BY <1>2 DEF VotesInv

(***************************************************************************)
(* The doc of struct ReportVariant: the support of a variant is the number *)
(* of members of the current set whose last report of the frame it is,     *)
(* with one report processor (OneProcessor), through every re-report,      *)
(* removal, change of the quorum and of the frames.                        *)
(***************************************************************************)
THEOREM SupportIsExact ==
  ASSUME OneProcessor
  PROVE  Spec => []SupportIsNumberOfReporters
<1>1. HCInv /\ VotesInv => SupportIsNumberOfReporters
  <2> SUFFICES ASSUME HCInv, VotesInv, GatheringReports, NEW i \in DOMAIN reportVariants
               PROVE  reportVariants[i].support = Cardinality(Supporters(CurrentFrame.refSlot, i))
    BY DEF SupportIsNumberOfReporters
  <2>1. ReportsAreCounted
    BY BeforeOnlyProcessor DEF GatheringReports
  <2>2. QED
    BY <2>1 DEF GatheringReports, ReportsAreCounted, Exact, SupportersIn, Supporters
<1>2. QED
  BY <1>1, VotesInvariance, PTL

(***************************************************************************)
(* The incremental bookkeeping of _submitReport and the full check of      *)
(* _checkConsensus agree, and the one processor holds a report of the      *)
(* current slot exactly when a quorum is behind it.                        *)
(***************************************************************************)
THEOREM ProcessorFollowsTheConsensus ==
  ASSUME OneProcessor
  PROVE  Spec => []ProcessorHoldsTheConsensus
<1>1. HCInv /\ VotesInv => ProcessorHoldsTheConsensus
  <2> DEFINE slot == CurrentFrame.refSlot
             report == oracle[reportProcessor].report
  <2> SUFFICES ASSUME HCInv, VotesInv, FrameStarted, LastProcessingRefSlot < slot
               PROVE  /\ GatheringReports /\ Agreed # {} => HoldsTheConsensus(reportProcessor)
                      /\ report.hash # ZeroHash /\ report.refSlot = slot =>
                           GatheringReports /\ HoldsTheConsensus(reportProcessor)
    BY DEF ProcessorHoldsTheConsensus
  <2>1. ConsensusIsSubmitted
    BY BeforeOnlyProcessor
  <2>2. CASE reportingState.lastConsensusRefSlot = slot
    <3>1. Submitted(reportingState.lastConsensusVariantIndex)
      BY <2>1, <2>2 DEF ConsensusIsSubmitted
    <3>2. QED
      BY <3>1 DEF Submitted, GatheringReports, HoldsTheConsensus
  <2>3. CASE reportingState.lastConsensusRefSlot # slot
    <3>1. NothingAgreed
      BY <2>1, <2>3 DEF ConsensusIsSubmitted
    <3>2. QED
      BY <3>1 DEF NothingAgreed, NothingPending, GatheringReports
  <2>4. QED
    BY <2>2, <2>3
<1>2. QED
  BY <1>1, VotesInvariance, PTL

(***************************************************************************)
(* Whatever processors there are and however often they are switched: as   *)
(* long as none is past the current slot, the one in charge holds the      *)
(* report that a quorum is behind.                                         *)
(***************************************************************************)
THEOREM SwitchLosesNoConsensus == Spec => []SwitchKeepsTheConsensus
<1>1. HCInv /\ VotesInv => SwitchKeepsTheConsensus
  <2> SUFFICES ASSUME VotesInv, GatheringReports, Agreed # {},
                      \A o \in Oracles : oracle[o].lastProcessingRefSlot < CurrentFrame.refSlot
               PROVE  HoldsTheConsensus(reportProcessor)
    BY DEF SwitchKeepsTheConsensus
  <2>1. ConsensusIsSubmitted
    BY DEF VotesInv, AllBefore, GatheringReports
  <2>2. Submitted(reportingState.lastConsensusVariantIndex)
    BY <2>1 DEF ConsensusIsSubmitted, NothingAgreed, GatheringReports
  <2>3. QED
    BY <2>2 DEF Submitted, HoldsTheConsensus
<1>2. QED
  BY <1>1, VotesInvariance, PTL

(***************************************************************************)
(* The one processor starts to process a report of the current slot only   *)
(* while at least a quorum, hence more than half of the members, has it as *)
(* its last report.                                                        *)
(***************************************************************************)
ProcessedHasMajority ==
  LET slot == oracle'[reportProcessor].lastProcessingRefSlot
      hash == oracle[reportProcessor].report.hash
  IN  slot # LastProcessingRefSlot /\ slot = CurrentFrame.refSlot =>
        \E i \in DOMAIN reportVariants :
          /\ reportVariants[i].hash = hash
          /\ Cardinality(Supporters(slot, i)) >= quorum
          /\ 2 * Cardinality(Supporters(slot, i)) > Len(memberStates)

THEOREM ProcessingNeedsAMajority ==
  ASSUME OneProcessor
  PROVE  Spec => ProcessedReportHasMajority
<1>1. HCInv /\ VotesInv /\ [Next]_vars => [ProcessedHasMajority]_vars
  <2> DEFINE slot == CurrentFrame.refSlot
             report == oracle[reportProcessor].report
             last == reportingState.lastConsensusVariantIndex
  <2> SUFFICES ASSUME HCInv, VotesInv, Next,
                      oracle'[reportProcessor].lastProcessingRefSlot # LastProcessingRefSlot,
                      oracle'[reportProcessor].lastProcessingRefSlot = slot
               PROVE  \E i \in DOMAIN reportVariants :
                        /\ reportVariants[i].hash = report.hash
                        /\ Cardinality(Supporters(slot, i)) >= quorum
                        /\ 2 * Cardinality(Supporters(slot, i)) > Len(memberStates)
    BY DEF ProcessedHasMajority
  <2>1. oracle \in [Oracles -> OracleStorage] /\ reportProcessor \in Oracles
    BY DEF HCInv, TypeOK, BaseOracleTypeOK
  <2>2. PICK o \in Oracles : ProcessReport(o)
    BY <2>1, OnlyReportsAreProcessed DEF ProcessedKept, LastProcessingRefSlot
  <2>3. /\ report.hash # ZeroHash /\ report.refSlot = slot
        /\ LastProcessingRefSlot # slot
    BY <2>1, <2>2
    DEF ProcessReport, SubmitReportData, StartProcessing, LastProcessingRefSlot, OracleStorage
  <2>4. FrameStarted
    BY <2>1, <2>3 DEF HCInv, OraclesAreOfThePast, OfThePast, LastProcessingRefSlot
  <2>5. LastProcessingRefSlot < slot
    <3>1. LastProcessingRefSlot \in Nat /\ LastProcessingRefSlot <= report.refSlot
      BY <2>1 DEF LastProcessingRefSlot, OracleStorage, HCInv, ReportNotBehindProcessing
    <3>2. report.refSlot \in Nat
      BY <2>1 DEF OracleStorage, ConsensusReport
    <3>3. QED
      BY <2>3, <3>1, <3>2
  <2>6. ReportsAreCounted /\ ConsensusIsSubmitted
    BY <2>4, <2>5, BeforeOnlyProcessor
  <2>7. Submitted(last)
    BY <2>3, <2>6 DEF ConsensusIsSubmitted, NothingAgreed, NothingPending
  <2>8. /\ last \in DOMAIN reportVariants
        /\ reportVariants[last].hash = report.hash
        /\ reportVariants[last].support >= quorum
        /\ reportVariants[last].support = Cardinality(Supporters(slot, last))
    BY <2>6, <2>7
    DEF Submitted, Agreed, ReportsAreCounted, Exact, SupportersIn, Supporters
  <2>9. 2 * quorum > Len(memberStates)
    BY <2>8 DEF VotesInv, QuorumIsMajority
  <2>10. /\ quorum \in Nat /\ Len(memberStates) \in Nat
         /\ Cardinality(Supporters(slot, last)) \in Nat
    <3>1. reportVariants[last] \in ReportVariant
      BY <2>8, ElementOfSeq, LenProperties DEF HCInv, TypeOK
    <3>2. QED
      BY <2>8, <3>1, LenProperties DEF HCInv, TypeOK, ReportVariant
  <2> DEFINE n == Cardinality(Supporters(slot, last))
  <2>11. n >= quorum /\ 2 * n > Len(memberStates)
    <3> HIDE DEF n
    <3>1. n >= quorum /\ n \in Nat
      BY <2>8, <2>10 DEF n
    <3>2. QED
      BY <2>9, <2>10, <3>1
  <2>12. QED
    BY <2>8, <2>11
<1>2. QED
  BY <1>1, VotesInvariance, PTL DEF Spec, ProcessedReportHasMajority, ProcessedHasMajority

------------------------------------------------------------------------------

(***************************************************************************)
(* The fast lane is a window on a circle of members: frames turn it by     *)
(* one, and who is in it is a question of the distance to its start.       *)
(***************************************************************************)
LEMMA RemainderOf ==
  ASSUME NEW a \in Nat, NEW n \in Nat \ {0}
  PROVE  /\ a % n \in 0..(n - 1)
         /\ a \div n \in Nat
         /\ a = (a \div n) * n + (a % n)
<1>1. a % n \in 0..(n - 1)
  OBVIOUS
<1>2. a \div n \in Nat
  BY Division
<1>3. a % n = a - (a \div n) * n
  OBVIOUS
<1>4. PICK q, m : q = a \div n /\ m = a % n
  OBVIOUS
<1>5. q \in Nat /\ q * n \in Nat /\ m \in Nat /\ m = a - q * n
  BY <1>1, <1>2, <1>3, <1>4
<1>6. a = q * n + m
  BY <1>5
<1>7. QED
  BY <1>1, <1>2, <1>4, <1>6, Zenon

LEMMA RemainderIsUnique ==
  ASSUME NEW n \in Nat \ {0}, NEW q \in Nat, NEW r \in 0..(n - 1)
  PROVE  (q * n + r) % n = r
<1>1. PICK a \in Nat : a = q * n + r
  <2>1. q * n \in Nat
    OBVIOUS
  <2>2. QED
    BY <2>1
<1>2. a % n = r
  BY <1>1
<1>3. QED
  BY <1>1, <1>2

Distance(from, to, n) == IF to < from THEN to + n - from ELSE to - from

LEMMA RemainderOfDistance ==
  ASSUME NEW n \in Nat \ {0}, NEW x \in 0..(n - 1), NEW s \in 0..(n - 1)
  PROVE  (x + n - s) % n = Distance(s, x, n)
<1>1. CASE x < s
  <2>1. x + n - s \in 0..(n - 1) /\ 0 * n = 0
    BY <1>1
  <2>2. (0 * n + (x + n - s)) % n = x + n - s
    BY <2>1, RemainderIsUnique
  <2>3. QED
    BY <1>1, <2>1, <2>2 DEF Distance
<1>2. CASE ~(x < s)
  <2>1. x - s \in 0..(n - 1) /\ 1 * n = n
    BY <1>2
  <2>2. (1 * n + (x - s)) % n = x - s
    BY <2>1, RemainderIsUnique
  <2>3. x + n - s = n + (x - s)
    OBVIOUS
  <2>4. QED
    BY <1>2, <2>1, <2>2, <2>3 DEF Distance
<1>3. QED
  BY <1>1, <1>2

LEMMA RemainderOfSum ==
  ASSUME NEW n \in Nat \ {0}, NEW f \in Nat, NEW i \in 0..(n - 1),
         NEW r, r = f % n, NEW t, t = (f + i) % n
  PROVE  t = IF r + i < n THEN r + i ELSE r + i - n
<1>1. PICK q \in Nat : r \in 0..(n - 1) /\ f = q * n + r
  BY RemainderOf
<1>2. q * n \in Nat
  OBVIOUS
<1>3. CASE r + i < n
  <2>1. r + i \in 0..(n - 1) /\ f + i = q * n + (r + i)
    BY <1>1, <1>2, <1>3
  <2>2. QED
    BY <1>1, <1>3, <2>1, RemainderIsUnique
<1>4. CASE ~(r + i < n)
  <2>1. r + i - n \in 0..(n - 1) /\ (q + 1) * n = q * n + n
    BY <1>4
  <2>2. f + i = (q + 1) * n + (r + i - n)
    BY <1>1, <1>2, <2>1
  <2>3. PICK p \in Nat, m \in 0..(n - 1) : p = q + 1 /\ m = r + i - n
    BY <2>1
  <2>4. (p * n + m) % n = m
    BY RemainderIsUnique
  <2>5. QED
    BY <1>1, <1>4, <2>2, <2>3, <2>4
<1>5. QED
  BY <1>3, <1>4

LEMMA WayBack ==
  ASSUME NEW n \in Nat \ {0}, NEW w \in 1..n,
         NEW s \in 0..(n - 1), NEW x \in 0..(n - 1), NEW i \in 0..(n - 1),
         NEW t, t = IF s + i < n THEN s + i ELSE s + i - n,
         NEW e, e = IF x < t THEN x + n - t ELSE x - t, e < w,
         NEW d, d = IF x < s THEN x + n - s ELSE x - s
  PROVE  e \in 0..(w - 1) /\ i = IF d >= e THEN d - e ELSE d - e + n
<1>1. t \in 0..(n - 1)
  OBVIOUS
<1>2. e \in 0..(n - 1)
  BY <1>1
<1>3. CASE s + i < n
  BY <1>1, <1>2, <1>3
<1>4. CASE ~(s + i < n)
  BY <1>1, <1>2, <1>4
<1>5. QED
  BY <1>3, <1>4

LEMMA Numbered ==
  ASSUME NEW S, NEW n \in Nat, NEW g \in [1..n -> S],
         \A i, j \in 1..n : g[i] = g[j] => i = j,
         \A x \in S : \E i \in 1..n : g[i] = x
  PROVE  Cardinality(S) = n
<1>1. g \in Bijection(1..n, S)
  BY DEF Bijection, Injection, Surjection, IsInjective
<1>2. IsFiniteSet(1..n) /\ Cardinality(1..n) = n
  BY FS_Interval
<1>3. QED
  BY <1>1, <1>2, FS_Bijection DEF ExistsBijection

(***************************************************************************)
(* The lane starts at LaneStart and is LaneWidth wide; with no more        *)
(* members than the quorum it is the whole circle.                         *)
(***************************************************************************)
LaneStart(n, f) == IF quorum < n THEN f % n ELSE 0

LaneWidth(n) == IF quorum < n THEN quorum ELSE n

LEMMA LaneIsTyped ==
  ASSUME NEW n \in Nat \ {0}, quorum \in Nat \ {0}, NEW f \in Nat
  PROVE  LaneStart(n, f) \in 0..(n - 1) /\ LaneWidth(n) \in 1..n
<1>1. f % n \in 0..(n - 1)
  BY RemainderOf
<1>2. 0 \in 0..(n - 1)
  OBVIOUS
<1>3. LaneStart(n, f) \in 0..(n - 1)
  BY <1>1, <1>2, Zenon DEF LaneStart
<1>4. LaneWidth(n) \in 1..n
  BY DEF LaneWidth
<1>5. QED
  BY <1>3, <1>4

LEMMA InWindow ==
  ASSUME NEW n \in Nat \ {0}, NEW x \in 0..(n - 1), NEW s \in 0..(n - 1), NEW w \in 1..n
  PROVE  PointInClosedIntervalModN(x, s, s + w - 1, n) <=> Distance(s, x, n) < w
<1>1. ((s + w - 1) - s) % n = w - 1
  <2>1. w - 1 \in 0..(n - 1) /\ 0 * n = 0 /\ (s + w - 1) - s = 0 * n + (w - 1)
    OBVIOUS
  <2>2. (0 * n + (w - 1)) % n = w - 1
    BY <2>1, RemainderIsUnique
  <2>3. QED
    BY <2>1, <2>2
<1>2. (x + n - s) % n = Distance(s, x, n)
  BY RemainderOfDistance
<1>3. Distance(s, x, n) \in Nat
  BY DEF Distance
<1>4. PICK b : b = s + w - 1
  OBVIOUS
<1>5. PointInClosedIntervalModN(x, s, b, n) <=> (x + n - s) % n <= (b - s) % n
  BY Zenon DEF PointInClosedIntervalModN
<1>6. PointInClosedIntervalModN(x, s, s + w - 1, n) <=> Distance(s, x, n) <= w - 1
  BY <1>1, <1>2, <1>4, <1>5, Zenon
<1>7. QED
  BY <1>3, <1>6

LEMMA LaneFacts ==
  ASSUME NEW n \in Nat \ {0}, n = Len(memberStates), quorum \in Nat \ {0}, NEW f \in Nat
  PROVE  /\ FastLaneSubset(f, n) = [startIndex   |-> LaneStart(n, f),
                                    pastEndIndex |-> LaneStart(n, f) + LaneWidth(n)]
         /\ \A x \in 0..(n - 1) :
              IsFastLaneMember(x, f) <=> Distance(LaneStart(n, f), x, n) < LaneWidth(n)
<1> DEFINE s == LaneStart(n, f)
           w == LaneWidth(n)
<1>1. s \in 0..(n - 1)
  BY LaneIsTyped
<1>2. w \in 1..n
  BY LaneIsTyped
<1>3. FastLaneSubset(f, n) = [startIndex |-> s, pastEndIndex |-> s + w]
  BY DEF FastLaneSubset, LaneStart, LaneWidth
<1> HIDE DEF s, w
<1>4. ASSUME NEW x \in 0..(n - 1)
      PROVE  IsFastLaneMember(x, f) <=> Distance(s, x, n) < w
  <2>1. IsFastLaneMember(x, f)
          <=> s + w # 0 /\ PointInClosedIntervalModN(x, s, s + w - 1, n)
    <3>1. PICK lane : lane = FastLaneSubset(f, n)
      OBVIOUS
    <3>2. lane.startIndex = s /\ lane.pastEndIndex = s + w
      BY <1>3, <3>1
    <3>3. IsFastLaneMember(x, f)
            <=> /\ lane.pastEndIndex # 0
                /\ PointInClosedIntervalModN(x, lane.startIndex, lane.pastEndIndex - 1, n)
      BY <3>1 DEF IsFastLaneMember
    <3>4. PICK a, b : a = lane.startIndex /\ b = lane.pastEndIndex - 1
      OBVIOUS
    <3>5. IsFastLaneMember(x, f) <=> s + w # 0 /\ PointInClosedIntervalModN(x, a, b, n)
      BY <3>2, <3>3, <3>4
    <3>6. a = s /\ b = s + w - 1
      BY <1>1, <1>2, <3>2, <3>4
    <3>7. QED
      BY <3>5, <3>6
  <2>2. PointInClosedIntervalModN(x, s, s + w - 1, n) <=> Distance(s, x, n) < w
    BY <1>1, <1>2, InWindow
  <2>3. s + w # 0
    BY <1>1, <1>2
  <2>4. QED
    BY <2>1, <2>2, <2>3, Zenon
<1>5. QED
  BY <1>3, <1>4 DEF s, w

(***************************************************************************)
(* Those in the lane of a frame, by position: as many as the lane is wide. *)
(***************************************************************************)
LEMMA PositionsInLane ==
  ASSUME NEW n \in Nat \ {0}, quorum \in Nat \ {0}, NEW f \in Nat
  PROVE  LET s == LaneStart(n, f)
             w == LaneWidth(n)
         IN  /\ \A i \in s..(s + w - 1) : /\ i % n \in 0..(n - 1)
                                          /\ Distance(s, i % n, n) = i - s
             /\ \A x \in 0..(n - 1) : Distance(s, x, n) < w =>
                  s + Distance(s, x, n) \in s..(s + w - 1) /\ (s + Distance(s, x, n)) % n = x
<1> DEFINE s == LaneStart(n, f)
           w == LaneWidth(n)
<1>1. s \in 0..(n - 1) /\ w \in 1..n
  BY LaneIsTyped
<1>2. s % n = s
  <2>1. (0 * n + s) % n = s /\ 0 * n + s = s
    BY <1>1, RemainderIsUnique
  <2>2. QED
    BY <2>1
<1> HIDE DEF s, w
<1>3. ASSUME NEW k \in 0..(n - 1)
      PROVE  (s + k) % n = IF s + k < n THEN s + k ELSE s + k - n
  <2>1. s \in Nat /\ s = s % n
    BY <1>1, <1>2
  <2>2. PICK m \in Nat, r \in Nat : m = s /\ r = s /\ r = m % n
    BY <2>1
  <2>3. PICK t : t = (m + k) % n
    OBVIOUS
  <2>4. t = IF r + k < n THEN r + k ELSE r + k - n
    <3>1. r = m % n
      BY <2>2
    <3>2. QED
      BY <2>3, <3>1, RemainderOfSum
  <2>5. QED
    BY <2>2, <2>3, <2>4, Zenon
<1>4. ASSUME NEW i \in s..(s + w - 1)
      PROVE  i % n \in 0..(n - 1) /\ Distance(s, i % n, n) = i - s
  <2>1. PICK k \in 0..(n - 1) : i = s + k
    <3>1. i - s \in 0..(n - 1) /\ i = s + (i - s)
      BY <1>1
    <3>2. QED
      BY <3>1
  <2>2. PICK r : r = i % n
    OBVIOUS
  <2>3. r = IF s + k < n THEN s + k ELSE s + k - n
    BY <1>3, <2>1, <2>2
  <2>4. r \in 0..(n - 1) /\ Distance(s, r, n) = k
    BY <1>1, <2>1, <2>3 DEF Distance
  <2>5. QED
    BY <1>1, <2>1, <2>2, <2>4
<1>5. ASSUME NEW x \in 0..(n - 1), Distance(s, x, n) < w
      PROVE  s + Distance(s, x, n) \in s..(s + w - 1) /\ (s + Distance(s, x, n)) % n = x
  <2>1. PICK k : k = Distance(s, x, n)
    OBVIOUS
  <2>2. k \in 0..(n - 1) /\ k = IF x < s THEN x + n - s ELSE x - s
    BY <1>1, <2>1 DEF Distance
  <2>3. (s + k) % n = x
    <3>1. (s + k) % n = IF s + k < n THEN s + k ELSE s + k - n
      BY <1>3, <2>2
    <3>2. x = IF s + k < n THEN s + k ELSE s + k - n
      BY <1>1, <2>2
    <3>3. QED
      BY <3>1, <3>2, Zenon
  <2>4. s + k \in s..(s + w - 1)
    BY <1>1, <1>5, <2>1, <2>2
  <2>5. QED
    BY <2>1, <2>3, <2>4
<1>6. QED
  BY <1>4, <1>5 DEF s, w

(***************************************************************************)
(* The frames of a turn in which a position is in the lane: as many.       *)
(***************************************************************************)
LEMMA TurnsOfPosition ==
  ASSUME NEW n \in Nat \ {0}, quorum \in Nat \ {0}, NEW first \in Nat, NEW x \in 0..(n - 1)
  PROVE  Cardinality({f \in first..(first + n - 1) : Distance(LaneStart(n, f), x, n) < LaneWidth(n)})
           = LaneWidth(n)
<1> DEFINE w == LaneWidth(n)
           frames == first..(first + n - 1)
           turns == {f \in frames : Distance(LaneStart(n, f), x, n) < w}
<1>1. CASE ~(quorum < n)
  <2>1. \A f \in frames : LaneStart(n, f) = 0 /\ w = n
    BY <1>1 DEF LaneStart, LaneWidth
  <2>2. turns = frames
    BY <2>1 DEF Distance
  <2>3. Cardinality(frames) = n
    <3>1. first \in Int /\ first + n - 1 \in Int
      OBVIOUS
    <3>2. Cardinality(frames) = IF first > first + n - 1 THEN 0 ELSE (first + n - 1) - first + 1
      BY <3>1, FS_Interval
    <3>3. QED
      BY <3>2
  <2>4. QED
    BY <1>1, <2>2, <2>3 DEF LaneWidth
<1>2. CASE quorum < n
  <2>1. w = quorum /\ w \in 1..(n - 1) /\ \A f \in frames : LaneStart(n, f) = f % n
    BY <1>2 DEF LaneStart, LaneWidth
  <2>2. PICK s \in 0..(n - 1) : s = first % n
    BY RemainderOf
  <2>3. ASSUME NEW i \in 0..(n - 1)
        PROVE  /\ first + i \in frames
               /\ LaneStart(n, first + i) = IF s + i < n THEN s + i ELSE s + i - n
    <3>1. first + i \in frames
      OBVIOUS
    <3>2. PICK t : t = (first + i) % n
      OBVIOUS
    <3>3. t = IF s + i < n THEN s + i ELSE s + i - n
      BY <2>2, <3>2, RemainderOfSum
    <3>4. LaneStart(n, first + i) = t
      BY <2>1, <3>1, <3>2
    <3>5. QED
      BY <3>1, <3>3, <3>4, Zenon
  <2> DEFINE d == Distance(s, x, n)
             back(j) == IF d >= j - 1 THEN d - (j - 1) ELSE d - (j - 1) + n
             g == [j \in 1..w |-> first + back(j)]
  <2>4. d \in 0..(n - 1) /\ d = IF x < s THEN x + n - s ELSE x - s
    BY <2>2 DEF Distance
  <2> HIDE DEF d, w
  <2>5. ASSUME NEW j \in 1..w
        PROVE  back(j) \in 0..(n - 1) /\ Distance(LaneStart(n, first + back(j)), x, n) = j - 1
    <3>1. PICK i : i = back(j)
      OBVIOUS
    <3>2. i \in 0..(n - 1)
      BY <2>1, <2>4, <3>1
    <3>3. PICK t : t = LaneStart(n, first + i)
      OBVIOUS
    <3>4. t = IF s + i < n THEN s + i ELSE s + i - n
      BY <2>3, <3>2, <3>3
    <3>5. Distance(t, x, n) = j - 1
      BY <2>1, <2>4, <3>1, <3>4 DEF Distance
    <3>6. QED
      BY <3>1, <3>2, <3>3, <3>5
  <2>6. g \in [1..w -> turns]
    <3>1. ASSUME NEW j \in 1..w PROVE first + back(j) \in turns
      <4>1. first + back(j) \in frames
        BY <2>3, <2>5
      <4>2. j - 1 < w
        BY <2>1
      <4>3. QED
        BY <2>5, <4>1, <4>2
    <3>2. QED
      BY <3>1
  <2>7. ASSUME NEW i \in 1..w, NEW j \in 1..w, g[i] = g[j] PROVE i = j
    <3>1. back(i) = back(j)
      BY <2>5, <2>7
    <3>2. QED
      BY <2>5, <3>1
  <2>8. ASSUME NEW f \in turns PROVE \E j \in 1..w : g[j] = f
    <3>1. PICK i \in 0..(n - 1) : f = first + i
      <4>1. f - first \in 0..(n - 1) /\ f = first + (f - first)
        OBVIOUS
      <4>2. QED
        BY <4>1
    <3>2. PICK t : t = LaneStart(n, f)
      OBVIOUS
    <3>3. t = IF s + i < n THEN s + i ELSE s + i - n
      BY <2>3, <3>1, <3>2
    <3>4. PICK e : e = Distance(t, x, n) /\ e = IF x < t THEN x + n - t ELSE x - t
      BY DEF Distance
    <3>5. e < w
      BY <3>2, <3>4, Zenon
    <3>6. e \in 0..(w - 1) /\ i = IF d >= e THEN d - e ELSE d - e + n
      <4> HIDE DEF turns, g
      <4>1. w \in 1..n
        BY <2>1
      <4>2. /\ s \in 0..(n - 1) /\ x \in 0..(n - 1) /\ i \in 0..(n - 1)
            /\ t = IF s + i < n THEN s + i ELSE s + i - n
            /\ e = IF x < t THEN x + n - t ELSE x - t
            /\ e < w
            /\ d = IF x < s THEN x + n - s ELSE x - s
        BY <2>4, <3>3, <3>4, <3>5, Zenon
      <4>3. QED
        BY <4>1, <4>2, WayBack
    <3>7. PICK j \in 1..w : j - 1 = e
      <4>1. e + 1 \in 1..w /\ (e + 1) - 1 = e
        BY <2>1, <3>6
      <4>2. QED
        BY <4>1
    <3>8. back(j) = i
      BY <3>6, <3>7, Zenon
    <3>9. QED
      BY <3>1, <3>8
  <2>9. Cardinality(turns) = w
    <3> HIDE DEF g, turns
    <3> QED BY <2>1, <2>6, <2>7, <2>8, Numbered
  <2>10. QED
    BY <2>9 DEF w
<1>3. QED
  BY <1>1, <1>2

LEMMA LaneIsFair ==
  ASSUME HCInv, QuorumIsMajority
  PROVE  FastLaneIsFair
<1> SUFFICES ASSUME FrameStarted PROVE FastLaneIsFair
  BY DEF FastLaneIsFair
<1> DEFINE n == Len(memberStates)
           w == LaneWidth(n)
           frame == CurrentFrame.index
           In(a, f) == IsMember(a) /\ IsFastLaneMember(memberIndices1b[a] - 1, f)
           Place(a) == memberIndices1b[a] - 1
<1>1. /\ n \in Nat /\ Len(memberAddresses) = n /\ quorum \in Nat
      /\ DOMAIN memberAddresses = 1..n
      /\ \A k \in 1..n : memberAddresses[k] \in Addresses
      /\ memberIndices1b \in [Addresses -> Nat]
  BY LenProperties, ElementOfSeq DEF HCInv, TypeOK, MembersConsistent
<1>2. frame \in Nat
  <2>1. frame = ComputeFrameIndex(now, frameConfig)
    BY DEF CurrentFrame, FrameAtTimestamp, FrameAtIndex
  <2>2. now \in Nat /\ GENESIS_TIME <= now /\ frameConfig \in FrameConfig
    BY CurrentFrameFacts DEF HCInv, TypeOK, BaseOracleTypeOK, Time
  <2>3. ComputeFrameIndex(now, frameConfig) \in Nat
    BY <2>2, FrameHasEpoch DEF FrameStarted
  <2>4. QED
    BY <2>1, <2>3, Zenon
<1>3. ASSUME NEW a \in Addresses, IsMember(a)
      PROVE  /\ Place(a) \in 0..(n - 1)
             /\ memberAddresses[Place(a) + 1] = a
  BY <1>1, <1>3 DEF HCInv, MembersConsistent
<1>4. ASSUME NEW p \in 0..(n - 1)
      PROVE  /\ memberAddresses[p + 1] \in Addresses
             /\ IsMember(memberAddresses[p + 1])
             /\ Place(memberAddresses[p + 1]) = p
  <2>1. p + 1 \in 1..n
    BY <1>1
  <2>2. memberIndices1b[memberAddresses[p + 1]] = p + 1
    BY <1>1, <2>1 DEF HCInv, MembersConsistent
  <2>3. QED
    BY <1>1, <2>1, <2>2 DEF IsMember
<1>5. CASE n = 0
  <2>1. w = 0 /\ FastLaneSubset(frame, n) = [startIndex |-> 0, pastEndIndex |-> 0]
    BY <1>1, <1>5 DEF LaneWidth, FastLaneSubset
  <2>2. FastLaneMembers(frame) = {}
    <3>1. PICK lane : lane = FastLaneSubset(frame, n)
      OBVIOUS
    <3>2. lane.startIndex = 0 /\ lane.pastEndIndex = 0 /\ 0..(0 - 1) = {}
      BY <2>1, <3>1
    <3>3. FastLaneMembers(frame)
            = {memberAddresses[(i % n) + 1] : i \in lane.startIndex..(lane.pastEndIndex - 1)}
      BY <3>1, Zenon DEF FastLaneMembers
    <3>4. lane.startIndex..(lane.pastEndIndex - 1) = {}
      BY <3>2
    <3>5. QED
      BY <3>3, <3>4
  <2>3. \A a \in Addresses : ~IsMember(a)
    BY <1>3, <1>5
  <2>4. QED
    BY <2>1, <2>2, <2>3, <1>1, FS_EmptySet DEF FastLaneIsFair, LaneWidth
<1>6. CASE n # 0
  <2>1. n \in Nat \ {0} /\ quorum \in Nat \ {0}
    BY <1>1, <1>6 DEF QuorumIsMajority
  <2> DEFINE s == LaneStart(n, frame)
  <2>2. s \in 0..(n - 1) /\ w \in 1..n
    BY <1>2, <2>1, LaneIsTyped
  <2>3. FastLaneMembers(frame) = {memberAddresses[(i % n) + 1] : i \in s..(s + w - 1)}
    <3>1. FastLaneSubset(frame, n) = [startIndex |-> s, pastEndIndex |-> s + w]
      BY <1>2, <2>1, LaneFacts
    <3>2. PICK lane : lane = FastLaneSubset(frame, n)
      OBVIOUS
    <3>3. lane.startIndex = s /\ lane.pastEndIndex - 1 = s + w - 1
      <4> HIDE DEF s, w, n, frame, Place, In
      <4>1. lane.startIndex = s /\ lane.pastEndIndex = s + w
        BY <3>1, <3>2
      <4>2. s \in Int /\ w \in Int
        BY <2>2
      <4>3. QED
        BY <4>1, <4>2
    <3>4. FastLaneMembers(frame)
            = {memberAddresses[(i % n) + 1] : i \in lane.startIndex..(lane.pastEndIndex - 1)}
      BY <3>2, Zenon DEF FastLaneMembers
    <3>5. QED
      BY <3>3, <3>4, Zenon
  <2>4. ASSUME NEW f \in Nat, NEW a \in Addresses, IsMember(a)
        PROVE  In(a, f) <=> Distance(LaneStart(n, f), Place(a), n) < w
    <3>1. Place(a) \in 0..(n - 1)
      BY <1>3, <2>4
    <3>2. IsFastLaneMember(Place(a), f) <=> Distance(LaneStart(n, f), Place(a), n) < w
      BY <2>1, <3>1, LaneFacts
    <3>3. QED
      BY <2>4, <3>2
  <2> HIDE DEF w, frame, In, Place
  <2>5. ASSUME NEW i \in s..(s + w - 1)
        PROVE  i % n \in 0..(n - 1) /\ Distance(s, i % n, n) = i - s
    BY <1>2, <2>1, PositionsInLane DEF w
  <2>6. ASSUME NEW p \in 0..(n - 1), Distance(s, p, n) < w
        PROVE  s + Distance(s, p, n) \in s..(s + w - 1) /\ (s + Distance(s, p, n)) % n = p
    BY <1>2, <2>1, <2>6, PositionsInLane DEF w
  <2> HIDE DEF s, n
  <2>7. FastLaneMembers(frame) = {a \in Addresses : In(a, frame)}
    <3>1. ASSUME NEW i \in s..(s + w - 1)
          PROVE  /\ memberAddresses[(i % n) + 1] \in Addresses
                 /\ In(memberAddresses[(i % n) + 1], frame)
      <4>1. PICK p \in 0..(n - 1) : p = i % n /\ Distance(s, p, n) = i - s
        BY <2>5
      <4>2. PICK a \in Addresses : a = memberAddresses[p + 1] /\ IsMember(a) /\ Place(a) = p
        BY <1>4
      <4>3. Distance(s, Place(a), n) < w
        BY <2>2, <4>1, <4>2
      <4>4. In(a, frame)
        BY <1>2, <2>4, <4>2, <4>3 DEF s
      <4>5. QED
        BY <4>1, <4>2, <4>4
    <3>2. ASSUME NEW a \in Addresses, In(a, frame)
          PROVE  \E i \in s..(s + w - 1) : memberAddresses[(i % n) + 1] = a
      <4>1. IsMember(a)
        BY <3>2 DEF In
      <4>2. PICK p \in 0..(n - 1) : p = Place(a) /\ memberAddresses[p + 1] = a
        BY <1>3, <4>1
      <4>3. Distance(s, p, n) < w
        BY <1>2, <2>4, <3>2, <4>1, <4>2 DEF s
      <4>4. PICK i \in s..(s + w - 1) : i % n = p
        BY <2>6, <4>3
      <4>5. QED
        BY <4>2, <4>4
    <3>3. QED
      BY <2>3, <3>1, <3>2
  <2>8. Cardinality(FastLaneMembers(frame)) = w
    <3> DEFINE g == [j \in 1..w |-> memberAddresses[((s + j - 1) % n) + 1]]
    <3>1. ASSUME NEW j \in 1..w
          PROVE  /\ s + j - 1 \in s..(s + w - 1)
                 /\ g[j] = memberAddresses[((s + j - 1) % n) + 1]
      BY <2>2
    <3>2. g \in [1..w -> FastLaneMembers(frame)]
      BY <2>3, <3>1
    <3>3. ASSUME NEW j \in 1..w
          PROVE  Distance(s, Place(g[j]), n) = j - 1
      <4>1. PICK i \in s..(s + w - 1) : i = s + j - 1
        BY <3>1
      <4>2. PICK p \in 0..(n - 1) : p = i % n /\ Distance(s, p, n) = i - s
        BY <2>5
      <4>3. Place(memberAddresses[p + 1]) = p
        BY <1>4
      <4>4. i - s = j - 1
        BY <2>2, <4>1
      <4>5. QED
        BY <3>1, <4>1, <4>2, <4>3, <4>4
    <3>4. ASSUME NEW a \in FastLaneMembers(frame) PROVE \E j \in 1..w : g[j] = a
      <4>1. PICK i \in s..(s + w - 1) : a = memberAddresses[(i % n) + 1]
        BY <2>3
      <4>2. PICK j \in 1..w : s + j - 1 = i
        <5>1. i - s + 1 \in 1..w /\ s + (i - s + 1) - 1 = i
          BY <2>2
        <5>2. QED
          BY <5>1
      <4>3. QED
        BY <3>1, <4>1, <4>2
    <3>5. \A i, j \in 1..w : g[i] = g[j] => i = j
      <4> SUFFICES ASSUME NEW i \in 1..w, NEW j \in 1..w, g[i] = g[j] PROVE i = j
        OBVIOUS
      <4>1. i - 1 = j - 1
        BY <3>3
      <4>2. QED
        BY <2>2, <4>1
    <3> HIDE DEF g
    <3>6. QED
      BY <2>2, <3>2, <3>4, <3>5, Numbered
  <2>9. ASSUME NEW a \in Addresses, IsMember(a)
        PROVE  Cardinality({f \in frame..(frame + n - 1) : In(a, f)}) = w
    <3>1. PICK p \in 0..(n - 1) : p = Place(a)
      BY <1>3, <2>9
    <3>2. \A f \in frame..(frame + n - 1) : f \in Nat
      BY <1>2, <2>1
    <3>3. {f \in frame..(frame + n - 1) : In(a, f)}
            = {f \in frame..(frame + n - 1) : Distance(LaneStart(n, f), p, n) < LaneWidth(n)}
      BY <2>4, <2>9, <3>1, <3>2 DEF w
    <3>4. QED
      BY <1>2, <2>1, <3>1, <3>3, TurnsOfPosition DEF n, w
  <2>10. QED
    BY <2>7, <2>8, <2>9 DEF FastLaneIsFair, In, n, w, frame, LaneWidth
<1>7. QED
  BY <1>5, <1>6

(***************************************************************************)
(* In every frame the fast lane has as many members as the quorum, the two *)
(* views of it agree, and in as many frames as there are members each gets *)
(* the same number of turns (_getFastLaneSubset).                          *)
(***************************************************************************)
THEOREM FastLaneTurnsAreFair == Spec => []FastLaneIsFair
<1>1. HCInv /\ VotesInv => FastLaneIsFair
  BY LaneIsFair DEF VotesInv
<1>2. QED
  BY <1>1, VotesInvariance, PTL
===============================================================================

------------------------------ MODULE BaseOracle ------------------------------
(***************************************************************************)
(* The part of every Lido oracle that talks to its consensus contract: a   *)
(* report is submitted or discarded by the consensus contract, and anybody *)
(* allowed to submit data starts processing it before its deadline.        *)
(*                                                                         *)
(* "oracle" maps each oracle contract to its storage.  The operations are  *)
(* actions a caller conjoins with its own state change: an external call   *)
(* that reverts disables the whole action, as it reverts the transaction.  *)
(* On its own (BaseOracleSpec) the module puts no trust in the consensus   *)
(* contracts: each may call with any argument at any time.                 *)
(***************************************************************************)
EXTENDS Integers

CONSTANTS
  Oracles,             \* oracle contracts (IReportAsyncProcessor)
  ConsensusContracts,  \* addresses that can be set as consensus contract
  ConsensusVersions,   \* consensus versions in use
  Payloads,            \* what differs between reports of one slot
  ZeroHash,            \* bytes32(0)
  RefSlots,            \* bound: reference slots the environment uses
  MAX_TIME             \* bound on the clock

ASSUME BaseOracleAssumption ==
  /\ ConsensusVersions \subseteq Nat
  /\ RefSlots \subseteq Nat
  /\ MAX_TIME \in Nat

VARIABLES
  now,     \* block.timestamp
  oracle   \* storage of each oracle contract

baseOracleVars == <<now, oracle>>

(***************************************************************************)
(* keccak256 is injective: the hash of report data is the data.            *)
(***************************************************************************)
ReportHash ==
  [consensusVersion : ConsensusVersions, refSlot : Nat, payload : Payloads]

ASSUME ZeroHashAssumption == ZeroHash \notin ReportHash

ConsensusReport ==
  [hash : ReportHash \union {ZeroHash}, refSlot : Nat, processingDeadlineTime : Nat]

OracleStorage ==
  [consensusContract     : ConsensusContracts,
   consensusVersion      : ConsensusVersions,
   lastProcessingRefSlot : Nat,
   report                : ConsensusReport]

BaseOracleTypeOK ==
  /\ now \in Nat
  /\ oracle \in [Oracles -> OracleStorage]

(***************************************************************************)
(* _initialize: the last processed slot is also the slot of the (empty)    *)
(* stored report.                                                          *)
(***************************************************************************)
Initialized(c, version, refSlot) ==
  [consensusContract     |-> c,
   consensusVersion      |-> version,
   lastProcessingRefSlot |-> refSlot,
   report |-> [hash |-> ZeroHash, refSlot |-> refSlot, processingDeadlineTime |-> 0]]

(***************************************************************************)
(* submitConsensusReport, called by the consensus contract "sender".       *)
(***************************************************************************)
SubmitUnlessProcessing(o, sender, hash, refSlot, deadline) ==   \* mutant: only equal slots
  /\ sender = oracle[o].consensusContract
  /\ refSlot # oracle[o].lastProcessingRefSlot
  /\ now <= deadline
  /\ hash # ZeroHash
  /\ oracle' = [oracle EXCEPT ![o].report =
                  [hash |-> hash, refSlot |-> refSlot, processingDeadlineTime |-> deadline]]

SubmitConsensusReport(o, sender, hash, refSlot, deadline) ==
  /\ sender = oracle[o].consensusContract
  /\ refSlot >= oracle[o].report.refSlot
  /\ refSlot > oracle[o].lastProcessingRefSlot
  /\ now <= deadline
  /\ hash # ZeroHash
  /\ oracle' = [oracle EXCEPT ![o].report =
                  [hash |-> hash, refSlot |-> refSlot, processingDeadlineTime |-> deadline]]

(***************************************************************************)
(* discardConsensusReport: a slot that was never submitted is ignored.     *)
(***************************************************************************)
DiscardConsensusReport(o, sender, refSlot) ==
  /\ sender = oracle[o].consensusContract
  /\ refSlot >= oracle[o].report.refSlot
  /\ IF refSlot > oracle[o].report.refSlot
     THEN UNCHANGED oracle
     ELSE /\ refSlot > oracle[o].lastProcessingRefSlot
          /\ oracle' = [oracle EXCEPT ![o].report.hash = ZeroHash]

(***************************************************************************)
(* submitReportData of a descendant up to _startProcessing: the data must  *)
(* be the preimage of the agreed hash, for the current consensus version.  *)
(***************************************************************************)
CheckConsensusData(o, data) ==
  /\ data.refSlot = oracle[o].report.refSlot
  /\ data.consensusVersion = oracle[o].consensusVersion
  /\ data = oracle[o].report.hash

StartProcessing(o) ==
  /\ oracle[o].report.hash # ZeroHash
  /\ now <= oracle[o].report.processingDeadlineTime
  /\ oracle[o].lastProcessingRefSlot # oracle[o].report.refSlot
  /\ oracle' = [oracle EXCEPT ![o].lastProcessingRefSlot = oracle[o].report.refSlot]

SubmitReportData(o, data) ==
  /\ CheckConsensusData(o, data)
  /\ StartProcessing(o)
  /\ UNCHANGED now

SetConsensusVersion(o, version) ==
  /\ version # oracle[o].consensusVersion
  /\ oracle' = [oracle EXCEPT ![o].consensusVersion = version]
  /\ UNCHANGED now

(***************************************************************************)
(* setConsensusContract; initialRefSlot is what the new contract answers.  *)
(***************************************************************************)
SetConsensusContract(o, c, initialRefSlot) ==
  /\ c # oracle[o].consensusContract
  /\ initialRefSlot >= oracle[o].lastProcessingRefSlot
  /\ oracle' = [oracle EXCEPT ![o].consensusContract = c]
  /\ UNCHANGED now

------------------------------------------------------------------------------

(***************************************************************************)
(* The specification with arbitrary consensus contracts.                   *)
(***************************************************************************)
BaseOracleInit ==
  /\ now = 0
  /\ oracle \in [Oracles -> {Initialized(c, v, r) :
                               c \in ConsensusContracts, v \in ConsensusVersions, r \in RefSlots}]

Tick ==
  /\ now < MAX_TIME
  /\ now' = now + 1
  /\ UNCHANGED oracle

ConsensusContractCalls(o) ==
  \E c \in ConsensusContracts, r \in RefSlots :
    /\ UNCHANGED now
    /\ \/ DiscardConsensusReport(o, c, r)
       \/ \E v \in ConsensusVersions, p \in Payloads, s \in RefSlots, deadline \in now..MAX_TIME :
            SubmitConsensusReport(o, c,
              [consensusVersion |-> v, refSlot |-> s, payload |-> p], r, deadline)

BaseOracleNext ==
  \/ Tick
  \/ \E o \in Oracles :
       \/ ConsensusContractCalls(o)
       \/ \E v \in ConsensusVersions, r \in RefSlots, p \in Payloads :
            SubmitReportData(o, [consensusVersion |-> v, refSlot |-> r, payload |-> p])
       \/ \E v \in ConsensusVersions : SetConsensusVersion(o, v)
       \/ \E c \in ConsensusContracts, r \in RefSlots : SetConsensusContract(o, c, r)

BaseOracleSpec == BaseOracleInit /\ [][BaseOracleNext]_baseOracleVars

------------------------------------------------------------------------------

(***************************************************************************)
(* The stored report is never for a slot older than the one being          *)
(* processed.  _startProcessing only refuses an EQUAL slot, so without     *)
(* this the oracle could go back to an older slot.                         *)
(***************************************************************************)
ReportNotBehindProcessing ==
  \A o \in Oracles : oracle[o].lastProcessingRefSlot <= oracle[o].report.refSlot

(***************************************************************************)
(* getLastProcessingRefSlot never goes back, whatever the consensus        *)
(* contract does and however often it is replaced: no slot is processed    *)
(* twice.                                                                  *)
(***************************************************************************)
ProcessingOnlyAdvances ==
  [][\A o \in Oracles :
       oracle'[o].lastProcessingRefSlot >= oracle[o].lastProcessingRefSlot]_baseOracleVars

(***************************************************************************)
(* "After this function is called, the consensus report for the current    *)
(* frame is guaranteed to remain the same" (_startProcessing): a report    *)
(* under processing is neither replaced nor discarded, only succeeded by   *)
(* the report of a later slot.                                             *)
(***************************************************************************)
ReportFinalOnceProcessing ==
  [][\A o \in Oracles :
       /\ oracle[o].report.hash # ZeroHash
       /\ oracle[o].report.refSlot = oracle[o].lastProcessingRefSlot
       /\ oracle'[o].report # oracle[o].report
       => oracle'[o].report.refSlot > oracle[o].lastProcessingRefSlot]_baseOracleVars

------------------------------------------------------------------------------

(***************************************************************************)
(* The oracles implement ReportProcessor: a report is pending while it is  *)
(* not discarded and its slot is not the one being processed.              *)
(***************************************************************************)
None == [hash |-> ZeroHash, refSlot |-> 0]

PendingReport(o) ==
  IF /\ oracle[o].report.hash # ZeroHash
     /\ oracle[o].report.refSlot # oracle[o].lastProcessingRefSlot
  THEN [hash |-> oracle[o].report.hash, refSlot |-> oracle[o].report.refSlot]
  ELSE None

RP == INSTANCE ReportProcessor WITH
        Hashes    <- ReportHash,
        NoReport  <- None,
        pending   <- [o \in Oracles |-> PendingReport(o)],
        processed <- [o \in Oracles |-> oracle[o].lastProcessingRefSlot]

ImplementsReportProcessor == RP!Spec

==============================================================================

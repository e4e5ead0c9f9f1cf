---------------------------- MODULE HashConsensus ----------------------------
(***************************************************************************)
(* HashConsensus: the committee members of an oracle agree on the hash of  *)
(* the report of each frame, and the contract passes the agreed hash to    *)
(* its report processor (a BaseOracle).                                    *)
(*                                                                         *)
(* One action is one transaction, with the calls it makes to the report    *)
(* processor.  A call that reverts disables the action.  Callers are the   *)
(* ones the access control admits.  Variant indices count from 1.          *)
(***************************************************************************)
EXTENDS BaseOracle, FrameTime, Sequences, FiniteSets

CONSTANTS
  HC,                   \* the address of this contract
  Addresses,            \* accounts that may become members
  Quorums,              \* bound: quorum values the managers choose
  UNREACHABLE_QUORUM,   \* type(uint256).max: more than any number of members
  FAR_FUTURE_EPOCH,     \* the epoch of type(uint64).max
  InitialEpochs,        \* bound: initial epochs the admin chooses
  EpochsPerFrame,       \* bound: frame sizes the managers choose
  FastLaneLengths,      \* bound: fast lane lengths the managers choose
  MAX_SUPPORT           \* bound on the support of a report, see RecordReport

ASSUME HashConsensusAssumption ==
  /\ HC \in ConsensusContracts
  /\ Quorums \subseteq Nat
  /\ UNREACHABLE_QUORUM \in Nat
  /\ FAR_FUTURE_EPOCH \in Nat \ {0}
  /\ InitialEpochs \subseteq Nat
  /\ EpochsPerFrame \subseteq Nat \ {0}
  /\ FastLaneLengths \subseteq Nat
  /\ MAX_SUPPORT \in Nat

VARIABLES
  frameConfig,      \* _frameConfig
  memberStates,     \* _memberStates
  memberAddresses,  \* _memberAddresses
  memberIndices1b,  \* _memberIndices1b
  reportingState,   \* _reportingState
  quorum,           \* _quorum
  reportVariants,   \* the first _reportVariantsLength of _reportVariants
  reportProcessor   \* _reportProcessor

memberVars == <<memberStates, memberAddresses, memberIndices1b>>
hcVars == <<frameConfig, memberVars, reportingState, quorum, reportVariants, reportProcessor>>
vars == <<now, oracle, hcVars>>

MemberState == [lastReportRefSlot : Nat, lastReportVariantIndex : Nat]
ReportingState ==
  [lastReportRefSlot : Nat, lastConsensusRefSlot : Nat, lastConsensusVariantIndex : Nat]
ReportVariant == [hash : ReportHash, support : Nat]

TypeOK ==
  /\ BaseOracleTypeOK
  /\ frameConfig \in FrameConfig
  /\ frameConfig.fastLaneLengthSlots <= frameConfig.epochsPerFrame * SLOTS_PER_EPOCH
  /\ memberStates \in Seq(MemberState)
  /\ memberAddresses \in Seq(Addresses)
  /\ memberIndices1b \in [Addresses -> Nat]
  /\ reportingState \in ReportingState
  /\ quorum \in Nat
  /\ reportVariants \in Seq(ReportVariant)
  /\ reportProcessor \in Oracles

(***************************************************************************)
(* constructor: nobody is a member and the first frame is far away.        *)
(***************************************************************************)
Init ==
  /\ now = GENESIS_TIME
  /\ oracle \in [Oracles -> {Initialized(HC, v, r) : v \in ConsensusVersions, r \in RefSlots}]
  /\ frameConfig \in {[initialEpoch |-> FAR_FUTURE_EPOCH, epochsPerFrame |-> n,
                       fastLaneLengthSlots |-> l] : n \in EpochsPerFrame, l \in FastLaneLengths}
  /\ frameConfig.fastLaneLengthSlots <= frameConfig.epochsPerFrame * SLOTS_PER_EPOCH
  /\ memberStates = <<>>
  /\ memberAddresses = <<>>
  /\ memberIndices1b = [a \in Addresses |-> 0]
  /\ reportingState = [lastReportRefSlot |-> 0, lastConsensusRefSlot |-> 0,
                       lastConsensusVariantIndex |-> 0]
  /\ quorum = 0
  /\ reportVariants = <<>>
  /\ reportProcessor \in Oracles

------------------------------------------------------------------------------

FrameStarted == InitialEpochArrived(now, frameConfig)
CurrentSlot == ComputeSlotAtTimestamp(now)
CurrentFrame == FrameAtTimestamp(now, frameConfig)
InitialRefSlot == FrameAtIndex(0, frameConfig).refSlot
LastProcessingRefSlot == oracle[reportProcessor].lastProcessingRefSlot
IsMember(addr) == memberIndices1b[addr] # 0

(***************************************************************************)
(* The fast lane is a window of "quorum" member indices that moves by one  *)
(* each frame; indices count from 0 here.                                  *)
(***************************************************************************)
FastLaneSubset(frameIndex, totalMembers) ==
  IF quorum >= totalMembers
  THEN [startIndex |-> 0, pastEndIndex |-> totalMembers]
  ELSE LET start == frameIndex % totalMembers
       IN  [startIndex |-> start, pastEndIndex |-> start + quorum]

IsFastLaneMember(index, frameIndex) ==
  LET total == Len(memberStates)
      lane  == FastLaneSubset(frameIndex, total)
  IN  /\ lane.pastEndIndex # 0
      /\ PointInClosedIntervalModN(index, lane.startIndex, lane.pastEndIndex - 1, total)

(***************************************************************************)
(* getFastLaneMembers, the view that lists the same window.                *)
(***************************************************************************)
FastLaneMembers(frameIndex) ==
  LET total == Len(memberStates)
      lane  == FastLaneSubset(frameIndex, total)
  IN  {memberAddresses[(i % total) + 1] : i \in lane.startIndex..(lane.pastEndIndex - 1)}

------------------------------------------------------------------------------

(***************************************************************************)
(* _consensusReached and _consensusNotReached, rs being _reportingState at *)
(* the call.                                                               *)
(***************************************************************************)
SubmitReportForProcessing(processor, frame, report) ==
  SubmitConsensusReport(processor, HC, report, frame.refSlot,
                        ComputeTimestampAtSlot(frame.reportProcessingDeadlineSlot))

ConsensusReachedOncePerFrame(rs, frame, report, variantIndex) ==
  IF rs.lastConsensusRefSlot # frame.refSlot   \* mutant: another variant is not submitted
  THEN /\ reportingState' = [rs EXCEPT !.lastConsensusRefSlot = frame.refSlot,
                                       !.lastConsensusVariantIndex = variantIndex]
       /\ SubmitReportForProcessing(reportProcessor, frame, report)
  ELSE /\ reportingState' = rs
       /\ UNCHANGED oracle

ConsensusReached(rs, frame, report, variantIndex) ==
  IF \/ rs.lastConsensusRefSlot # frame.refSlot
     \/ rs.lastConsensusVariantIndex # variantIndex
  THEN /\ reportingState' = [rs EXCEPT !.lastConsensusRefSlot = frame.refSlot,
                                       !.lastConsensusVariantIndex = variantIndex]
       /\ SubmitReportForProcessing(reportProcessor, frame, report)
  ELSE /\ reportingState' = rs
       /\ UNCHANGED oracle

ConsensusNotReachedUnnoticed(rs, frame) ==   \* mutant: the report is not discarded
  /\ reportingState' = IF rs.lastConsensusRefSlot = frame.refSlot
                       THEN [rs EXCEPT !.lastConsensusRefSlot = 0] ELSE rs
  /\ UNCHANGED oracle

ConsensusNotReached(rs, frame) ==
  IF rs.lastConsensusRefSlot = frame.refSlot
  THEN /\ reportingState' = [rs EXCEPT !.lastConsensusRefSlot = 0]
       /\ DiscardConsensusReport(reportProcessor, HC, frame.refSlot)
  ELSE /\ reportingState' = rs
       /\ UNCHANGED oracle

(***************************************************************************)
(* _checkConsensus, over the variants the transaction leaves.              *)
(***************************************************************************)
CheckConsensus(q) ==
  LET frame  == CurrentFrame
      agreed == {i \in DOMAIN reportVariants' :
                   /\ reportingState.lastReportRefSlot = frame.refSlot
                   /\ reportVariants'[i].support >= q}
      first  == CHOOSE i \in agreed : \A j \in agreed : i <= j
  IN  IF \/ CurrentSlot > frame.reportProcessingDeadlineSlot
         \/ LastProcessingRefSlot >= frame.refSlot
      THEN UNCHANGED <<reportingState, oracle>>
      ELSE IF agreed # {}
           THEN ConsensusReached(reportingState, frame, reportVariants'[first].hash, first)
           ELSE ConsensusNotReached(reportingState, frame)

SetQuorumAndCheckConsensus(q, totalMembers) ==
  /\ q > totalMembers \div 2
  /\ quorum' = q
  /\ IF FrameStarted THEN CheckConsensus(q) ELSE UNCHANGED <<reportingState, oracle>>

------------------------------------------------------------------------------

(***************************************************************************)
(* Frames.                                                                 *)
(***************************************************************************)
UpdateInitialEpoch(initialEpoch) ==
  /\ ~FrameStarted
  /\ initialEpoch > 0
  /\ frameConfig' = [frameConfig EXCEPT !.initialEpoch = initialEpoch]
  /\ FrameAtIndex(0, frameConfig').refSlot >= LastProcessingRefSlot
  /\ UNCHANGED <<now, oracle, memberVars, reportingState, quorum, reportVariants, reportProcessor>>

SetFrameConfig(epochsPerFrame, fastLaneLengthSlots) ==
  /\ FrameStarted
  /\ epochsPerFrame # 0
  /\ fastLaneLengthSlots <= epochsPerFrame * SLOTS_PER_EPOCH
  /\ frameConfig' = [initialEpoch        |-> ComputeFrameStartEpoch(now, frameConfig),
                     epochsPerFrame      |-> epochsPerFrame,
                     fastLaneLengthSlots |-> fastLaneLengthSlots]
  /\ UNCHANGED <<now, oracle, memberVars, reportingState, quorum, reportVariants, reportProcessor>>

SetFastLaneLengthSlots(fastLaneLengthSlots) ==
  /\ fastLaneLengthSlots <= frameConfig.epochsPerFrame * SLOTS_PER_EPOCH
  /\ frameConfig' = [frameConfig EXCEPT !.fastLaneLengthSlots = fastLaneLengthSlots]
  /\ UNCHANGED <<now, oracle, memberVars, reportingState, quorum, reportVariants, reportProcessor>>

(***************************************************************************)
(* Members.  Removal moves the last member into the free place and cancels *)
(* the report of the removed one if it still counts.                       *)
(***************************************************************************)
AddMember(addr, q) ==
  LET newTotalMembers == Len(memberStates) + 1
  IN  /\ ~IsMember(addr)
      /\ memberStates' = Append(memberStates, [lastReportRefSlot |-> 0, lastReportVariantIndex |-> 0])
      /\ memberAddresses' = Append(memberAddresses, addr)
      /\ memberIndices1b' = [memberIndices1b EXCEPT ![addr] = newTotalMembers]
      /\ UNCHANGED <<now, frameConfig, reportVariants, reportProcessor>>
      /\ SetQuorumAndCheckConsensus(q, newTotalMembers)

PopOnly(s, i) == SubSeq(s, 1, Len(s) - 1)   \* mutant: the last member is not moved

SwapAndPop(s, i) == SubSeq([s EXCEPT ![i] = s[Len(s)]], 1, Len(s) - 1)

ReportStillCounts(state) ==
  /\ state.lastReportRefSlot > 0
  /\ state.lastReportRefSlot = CurrentFrame.refSlot
  /\ LastProcessingRefSlot < CurrentFrame.refSlot

NotWithdrawn(variants, i) == variants   \* mutant: the decrement is forgotten

Withdrawn(variants, i) == [variants EXCEPT ![i].support = @ - 1]

RemoveMember(addr, q) ==
  LET index == memberIndices1b[addr]
      state == memberStates[index]
  IN  /\ IsMember(addr)
      /\ memberStates' = SwapAndPop(memberStates, index)
      /\ memberAddresses' = SwapAndPop(memberAddresses, index)
      /\ memberIndices1b' = [memberIndices1b EXCEPT ![memberAddresses[Len(memberAddresses)]] = index,
                                                    ![addr] = 0]
      /\ state.lastReportRefSlot > 0 => FrameStarted
      /\ reportVariants' = IF ReportStillCounts(state)
                           THEN Withdrawn(reportVariants, state.lastReportVariantIndex)
                           ELSE reportVariants
      /\ UNCHANGED <<now, frameConfig, reportProcessor>>
      /\ SetQuorumAndCheckConsensus(q, Len(memberStates) - 1)

(***************************************************************************)
(* setQuorum, and disableConsensus when q is UNREACHABLE_QUORUM.           *)
(***************************************************************************)
SetQuorum(q) ==
  /\ UNCHANGED <<now, frameConfig, memberVars, reportVariants, reportProcessor>>
  /\ SetQuorumAndCheckConsensus(q, Len(memberStates))

(***************************************************************************)
(* The new processor gets the current consensus report unless one of the   *)
(* two processors is past its slot.                                        *)
(***************************************************************************)
SetReportProcessorOnly(newProcessor) ==   \* mutant: the report is not handed over
  /\ newProcessor # reportProcessor
  /\ FrameStarted
  /\ reportProcessor' = newProcessor
  /\ UNCHANGED <<now, oracle, frameConfig, memberVars, reportingState, quorum, reportVariants>>

SetReportProcessorFromScratch(newProcessor) ==   \* mutant: the votes start again
  /\ newProcessor # reportProcessor
  /\ FrameStarted
  /\ reportProcessor' = newProcessor
  /\ reportingState' = [lastReportRefSlot |-> 0, lastConsensusRefSlot |-> 0,
                        lastConsensusVariantIndex |-> 0]
  /\ UNCHANGED <<now, oracle, frameConfig, memberVars, quorum, reportVariants>>

SetReportProcessor(newProcessor) ==
  LET frame == CurrentFrame
  IN  /\ newProcessor # reportProcessor
      /\ FrameStarted
      /\ reportProcessor' = newProcessor
      /\ IF /\ LastProcessingRefSlot < frame.refSlot
            /\ oracle[newProcessor].lastProcessingRefSlot < frame.refSlot
            /\ reportingState.lastConsensusRefSlot = frame.refSlot
         THEN SubmitReportForProcessing(newProcessor, frame,
                reportVariants[reportingState.lastConsensusVariantIndex].hash)
         ELSE UNCHANGED oracle
      /\ UNCHANGED <<now, frameConfig, memberVars, reportingState, quorum, reportVariants>>

(***************************************************************************)
(* _submitReport, after its checks.  With two processors a support can     *)
(* grow for ever within one frame, hence MAX_SUPPORT: the report of a      *)
(* member removed after processing started stays counted, and once the     *)
(* processor is switched the member may be added again and report again.   *)
(***************************************************************************)
VariantIndex(variants, report) ==
  LET same == {i \in DOMAIN variants : variants[i].hash = report}
  IN  IF same = {} THEN Len(variants) + 1 ELSE CHOOSE i \in same : \A j \in same : i <= j

RecordReport(addr, report) ==
  LET frame     == CurrentFrame
      index     == memberIndices1b[addr]
      prev      == memberStates[index].lastReportVariantIndex
      again     == memberStates[index].lastReportRefSlot = frame.refSlot
      variants  == IF reportingState.lastReportRefSlot = frame.refSlot THEN reportVariants ELSE <<>>
      varIndex  == VariantIndex(variants, report)
      withdrawn == IF again THEN Withdrawn(variants, prev) ELSE variants
      updated   == IF varIndex <= Len(variants)
                   THEN [withdrawn EXCEPT ![varIndex].support = @ + 1]
                   ELSE Append(withdrawn, [hash |-> report, support |-> 1])
      rs        == [reportingState EXCEPT !.lastReportRefSlot = frame.refSlot]
  IN  /\ again => prev \in DOMAIN variants /\ prev # varIndex
      /\ updated[varIndex].support <= MAX_SUPPORT
      /\ reportVariants' = updated
      /\ memberStates' = [memberStates EXCEPT ![index] =
                            [lastReportRefSlot |-> frame.refSlot, lastReportVariantIndex |-> varIndex]]
      /\ IF updated[varIndex].support >= quorum
         THEN ConsensusReached(rs, frame, report, varIndex)
         ELSE IF again /\ withdrawn[prev].support = quorum - 1
              THEN ConsensusNotReached(rs, frame)
              ELSE reportingState' = rs /\ UNCHANGED oracle
      /\ UNCHANGED <<now, frameConfig, memberAddresses, memberIndices1b, quorum, reportProcessor>>

SubmitReport(addr, slot, report, version) ==
  LET frame == CurrentFrame
  IN  /\ slot > 0
      /\ report # ZeroHash
      /\ IsMember(addr)
      /\ version = oracle[reportProcessor].consensusVersion
      /\ FrameStarted
      /\ slot = frame.refSlot
      /\ CurrentSlot <= frame.reportProcessingDeadlineSlot
      /\ CurrentSlot <= frame.refSlot + frameConfig.fastLaneLengthSlots
           => IsFastLaneMember(memberIndices1b[addr] - 1, frame.index)
      /\ \/ /\ slot > LastProcessingRefSlot
            /\ RecordReport(addr, report)
         \/ /\ slot <= LastProcessingRefSlot
            /\ slot # memberStates[memberIndices1b[addr]].lastReportRefSlot
            /\ UNCHANGED vars

------------------------------------------------------------------------------

(***************************************************************************)
(* The other actors: the oracles, their managers and the clock.  A block   *)
(* is at the start of its slot.  The other consensus contracts are idle.   *)
(***************************************************************************)
AdvanceClock ==
  /\ now + SECONDS_PER_SLOT <= MAX_TIME
  /\ now' = now + SECONDS_PER_SLOT
  /\ UNCHANGED <<oracle, hcVars>>

ProcessReport(o) ==
  \E data \in {oracle[o].report.hash} \ {ZeroHash} :
    SubmitReportData(o, data) /\ UNCHANGED hcVars

ManageOracle(o) ==
  /\ \/ \E v \in ConsensusVersions : SetConsensusVersion(o, v)
     \/ \E c \in ConsensusContracts \ {HC}, r \in RefSlots : SetConsensusContract(o, c, r)
     \/ SetConsensusContract(o, HC, InitialRefSlot)
  /\ UNCHANGED hcVars

Next ==
  \/ AdvanceClock
  \/ \E e \in InitialEpochs : UpdateInitialEpoch(e)
  \/ \E n \in EpochsPerFrame, l \in FastLaneLengths : SetFrameConfig(n, l)
  \/ \E l \in FastLaneLengths : SetFastLaneLengthSlots(l)
  \/ \E a \in Addresses, q \in Quorums : AddMember(a, q)
  \/ \E a \in Addresses, q \in Quorums : RemoveMember(a, q)
  \/ \E q \in Quorums : SetQuorum(q)
  \/ SetQuorum(UNREACHABLE_QUORUM)
  \/ \E o \in Oracles : SetReportProcessor(o)
  \/ \E a \in Addresses, p \in Payloads :
       LET version == oracle[reportProcessor].consensusVersion
           slot    == CurrentFrame.refSlot
       IN  SubmitReport(a, slot, [consensusVersion |-> version, refSlot |-> slot, payload |-> p], version)
  \/ \E o \in Oracles : ProcessReport(o) \/ ManageOracle(o)

Spec == Init /\ [][Next]_vars

------------------------------------------------------------------------------

(***************************************************************************)
(* The members' side of the state: who reported what for the current slot. *)
(***************************************************************************)
Supporters(slot, i) ==
  {k \in DOMAIN memberStates : /\ memberStates[k].lastReportRefSlot = slot
                               /\ memberStates[k].lastReportVariantIndex = i}

(***************************************************************************)
(* Reports for the current slot are being gathered and none is processed.  *)
(***************************************************************************)
GatheringReports ==
  /\ FrameStarted
  /\ LastProcessingRefSlot < CurrentFrame.refSlot
  /\ reportingState.lastReportRefSlot = CurrentFrame.refSlot

Agreed == {i \in DOMAIN reportVariants : reportVariants[i].support >= quorum}

(***************************************************************************)
(* The address list, the state list and the index map always describe the  *)
(* same committee, whatever was added, removed and moved (the moves of     *)
(* _removeMember, l. 761-770).                                             *)
(***************************************************************************)
MembersConsistent ==
  /\ Len(memberStates) = Len(memberAddresses)
  /\ \A k \in DOMAIN memberAddresses : memberIndices1b[memberAddresses[k]] = k
  /\ \A a \in Addresses : IsMember(a) =>
       memberIndices1b[a] \in DOMAIN memberAddresses /\ memberAddresses[memberIndices1b[a]] = a

(***************************************************************************)
(* While reports are gathered, the support of a variant is the number of   *)
(* current members whose last report it is, through re-reports and         *)
(* removals (struct ReportVariant, "how many unique members from the       *)
(* current set reported this hash in the current frame").                  *)
(***************************************************************************)
SupportIsNumberOfReporters ==
  GatheringReports =>
    \A i \in DOMAIN reportVariants :
      reportVariants[i].support = Cardinality(Supporters(CurrentFrame.refSlot, i))

(***************************************************************************)
(* A support never falls below the members behind it, so the decrements    *)
(* of _removeMember (l. 783) and _submitReport (l. 916) never underflow    *)
(* and the assertion on the previous variant (l. 912) never fails, not     *)
(* even after the report processor was switched during a frame.            *)
(***************************************************************************)
SupportNeverUnderflows ==
  FrameStarted =>
    \A k \in DOMAIN memberStates :
      LET i == memberStates[k].lastReportVariantIndex
          slot == CurrentFrame.refSlot
      IN  memberStates[k].lastReportRefSlot = slot /\ slot > 0 =>
            /\ reportingState.lastReportRefSlot = slot
            /\ i \in DOMAIN reportVariants
            /\ reportVariants[i].support >= Cardinality(Supporters(slot, i))

(***************************************************************************)
(* The processor holds the report of the current slot exactly when a       *)
(* quorum of the members stands behind it: the incremental bookkeeping of  *)
(* _submitReport (prevConsensusLost, l. 915-949) and the full check of     *)
(* _checkConsensus agree, and each change reaches the processor.           *)
(***************************************************************************)
HoldsTheConsensus(o) ==
  \E i \in Agreed : /\ oracle[o].report.hash = reportVariants[i].hash
                    /\ oracle[o].report.refSlot = CurrentFrame.refSlot

ProcessorHoldsTheConsensus ==
  LET report == oracle[reportProcessor].report
  IN  FrameStarted /\ LastProcessingRefSlot < CurrentFrame.refSlot =>
        /\ GatheringReports /\ Agreed # {} => HoldsTheConsensus(reportProcessor)
        /\ report.hash # ZeroHash /\ report.refSlot = CurrentFrame.refSlot =>
             GatheringReports /\ HoldsTheConsensus(reportProcessor)

(***************************************************************************)
(* Switching the processor during a frame, even back and forth, loses no   *)
(* consensus: as long as no processor is past the current slot, the one in *)
(* charge holds the report the quorum agreed on (l. 1063-1074).            *)
(***************************************************************************)
SwitchKeepsTheConsensus ==
  /\ GatheringReports
  /\ \A o \in Oracles : oracle[o].lastProcessingRefSlot < CurrentFrame.refSlot
  /\ Agreed # {}
  => HoldsTheConsensus(reportProcessor)

(***************************************************************************)
(* A processor whose consensus contract is this one never refuses what     *)
(* the contract sends it for the current frame: otherwise the vote that    *)
(* completes the quorum would revert (BaseOracle l. 234-253).              *)
(***************************************************************************)
ConsensusNeverRefused ==
  LET o == oracle[reportProcessor]
      frame == CurrentFrame
  IN  FrameStarted /\ o.consensusContract = HC /\ o.lastProcessingRefSlot < frame.refSlot =>
        /\ o.report.refSlot <= frame.refSlot
        /\ now <= ComputeTimestampAtSlot(frame.reportProcessingDeadlineSlot)

(***************************************************************************)
(* Processing a report of the current slot starts only while at least a    *)
(* quorum, hence more than half of the members, has it as its last report. *)
(***************************************************************************)
ProcessedReportHasMajority ==
  [][LET slot == oracle'[reportProcessor].lastProcessingRefSlot
         hash == oracle[reportProcessor].report.hash
     IN  slot # LastProcessingRefSlot /\ slot = CurrentFrame.refSlot =>
           \E i \in DOMAIN reportVariants :
             /\ reportVariants[i].hash = hash
             /\ Cardinality(Supporters(slot, i)) >= quorum
             /\ 2 * Cardinality(Supporters(slot, i)) > Len(memberStates)]_vars

(***************************************************************************)
(* setFrameConfig "either keeps the current reference slot the same or     *)
(* increases it by at least the minimum of old and new frame sizes"        *)
(* (l. 353-354); in particular it never takes the slot back.               *)
(***************************************************************************)
FrameConfigKeepsTheRefSlot ==
  [][LET old  == CurrentFrame.refSlot
         new  == FrameAtTimestamp(now, frameConfig').refSlot
         step == {n * SLOTS_PER_EPOCH : n \in {frameConfig.epochsPerFrame, frameConfig'.epochsPerFrame}}
     IN  FrameStarted => new = old \/ \E n \in step : new >= old + n]_vars

(***************************************************************************)
(* The fast lane has min(quorum, members) members, the two views on it     *)
(* agree, and in as many frames as there are members everybody gets the    *)
(* same number of turns (doc of getIsFastLaneMember, l. 374-383).          *)
(***************************************************************************)
FastLaneIsFair ==
  FrameStarted =>
    LET total == Len(memberStates)
        width == IF quorum < total THEN quorum ELSE total
        frame == CurrentFrame.index
        In(a, f) == IsMember(a) /\ IsFastLaneMember(memberIndices1b[a] - 1, f)
    IN  /\ Cardinality(FastLaneMembers(frame)) = width
        /\ FastLaneMembers(frame) = {a \in Addresses : In(a, frame)}
        /\ \A a \in Addresses : IsMember(a) =>
             Cardinality({f \in frame..(frame + total - 1) : In(a, f)}) = width

==============================================================================

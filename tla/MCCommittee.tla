------------------------------ MODULE MCCommittee ------------------------------
(***************************************************************************)
(* HashConsensus with one processor for TLC: a behaviour varies either its *)
(* committee, over frames of one size without a fast lane, or its frames,  *)
(* under one quorum and with reports of one version.                       *)
(***************************************************************************)
EXTENDS MCHashConsensus

CONSTANT COMMITTEE_MAX_TIME   \* bound on the time of a behaviour that varies its committee

VARIABLE varied

CommitteeVaries ==
  /\ varied = "committee"
  /\ now <= COMMITTEE_MAX_TIME
  /\ frameConfig.epochsPerFrame = 1
  /\ frameConfig.fastLaneLengthSlots = 0

FramesVary ==
  /\ varied = "frames"
  /\ quorum # 1
  /\ frameConfig.fastLaneLengthSlots # 0
  /\ \A o \in Oracles : oracle[o].consensusVersion = 1

InBounds == CommitteeVaries \/ FramesVary

MCInit ==
  /\ Init
  /\ varied \in {"committee", "frames"}
  /\ InBounds
  /\ CommitteeVaries => \A o \in Oracles : oracle[o].lastProcessingRefSlot = 0

MCNext == Next /\ UNCHANGED varied /\ InBounds'

MCSpec == MCInit /\ [][MCNext]_<<vars, varied>>
================================================================================

------------------------------ MODULE FrameTime ------------------------------
(***************************************************************************)
(* The clock arithmetic of HashConsensus: timestamps, slots, epochs and    *)
(* reporting frames.  A frame configuration is a record with the fields    *)
(* initialEpoch, epochsPerFrame and fastLaneLengthSlots.                   *)
(***************************************************************************)
EXTENDS Integers

CONSTANTS
  SLOTS_PER_EPOCH,   \* chain configuration, immutable in the contract
  SECONDS_PER_SLOT,
  GENESIS_TIME

ASSUME ChainConfigAssumption ==
  /\ SLOTS_PER_EPOCH \in Nat \ {0}
  /\ SECONDS_PER_SLOT \in Nat \ {0}
  /\ GENESIS_TIME \in Nat

(***************************************************************************)
(* frame[i].reportProcessingDeadlineSlot = frame[i+1].refSlot - this.      *)
(***************************************************************************)
OneSlotEarly == 1   \* mutant

DEADLINE_SLOT_OFFSET == 0

FrameConfig ==
  [initialEpoch : Nat, epochsPerFrame : Nat \ {0}, fastLaneLengthSlots : Nat]

ComputeSlotAtTimestamp(t) == (t - GENESIS_TIME) \div SECONDS_PER_SLOT

ComputeTimestampAtSlot(slot) == GENESIS_TIME + slot * SECONDS_PER_SLOT

ComputeEpochAtTimestamp(t) == ComputeSlotAtTimestamp(t) \div SLOTS_PER_EPOCH

ComputeStartSlotAtEpoch(epoch) == epoch * SLOTS_PER_EPOCH

(***************************************************************************)
(* Every view that needs a frame reverts before the initial epoch.         *)
(***************************************************************************)
InitialEpochArrived(t, config) ==
  ComputeEpochAtTimestamp(t) >= config.initialEpoch

ComputeFrameIndex(t, config) ==
  (ComputeEpochAtTimestamp(t) - config.initialEpoch) \div config.epochsPerFrame

ComputeStartEpochOfFrameWithIndex(i, config) ==
  config.initialEpoch + i * config.epochsPerFrame

FirstFrameStartEpoch(t, config) == config.initialEpoch   \* mutant: the first frame

ComputeFrameStartEpoch(t, config) ==
  ComputeStartEpochOfFrameWithIndex(ComputeFrameIndex(t, config), config)

FrameAtIndex(i, config) ==
  LET startSlot == ComputeStartSlotAtEpoch(
                     ComputeStartEpochOfFrameWithIndex(i, config))
  IN  [index   |-> i,
       refSlot |-> startSlot - 1,
       reportProcessingDeadlineSlot |->
         startSlot + config.epochsPerFrame * SLOTS_PER_EPOCH
                   - 1 - DEADLINE_SLOT_OFFSET]

FrameAtTimestamp(t, config) == FrameAtIndex(ComputeFrameIndex(t, config), config)

(***************************************************************************)
(* x \in [a, b] (mod n).                                                   *)
(***************************************************************************)
PointInClosedInterval(x, a, b, n) == a <= x /\ x <= b   \* mutant: no wrap around

PointInClosedIntervalModN(x, a, b, n) == (x + n - a) % n <= (b - a) % n

==============================================================================

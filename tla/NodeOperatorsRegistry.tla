------------------------- MODULE NodeOperatorsRegistry -------------------------
(***************************************************************************)
(* NodeOperatorsRegistry: the curated staking module.  Operators add keys, *)
(* the DAO approves ("vets") a prefix of them, deposits use them up in     *)
(* order, oracle reports count exited and stuck validators, and penalties  *)
(* and target limits lower what may be deposited.                          *)
(*                                                                         *)
(* Ids of operators and positions of keys count from 1.  Each operator's   *)
(* total number of keys is the length of its sequence "keys".              *)
(***************************************************************************)
EXTENDS MinFirstAllocation

CONSTANTS
  UINT64_MAX,                \* what a packed counter holds at most
  MAX_NODE_OPERATORS_COUNT,
  Targets,                   \* bound: target limits the router sets
  Delays,                    \* bound: penalty delays, at most MAX_STUCK_PENALTY_DELAY
  MAX_TIME                   \* bound on the clock

ASSUME NodeOperatorsRegistryAssumption ==
  /\ UINT64_MAX \in Nat
  /\ MAX_NODE_OPERATORS_COUNT \in Nat
  /\ Targets \subseteq 0..UINT64_MAX
  /\ Delays \subseteq Nat
  /\ MAX_TIME \in Nat

VARIABLES
  nodeOperators,         \* _nodeOperators
  activeOperatorsCount,  \* ACTIVE_OPERATORS_COUNT_POSITION
  summary,               \* _nodeOperatorSummary
  nonce,                 \* KEYS_OP_INDEX_POSITION, modulo 2
  stuckPenaltyDelay,     \* STUCK_PENALTY_DELAY_POSITION
  now                    \* block.timestamp

vars == <<nodeOperators, activeOperatorsCount, summary, nonce, stuckPenaltyDelay, now>>

Counts == 0..UINT64_MAX
Stages == {"added", "vetted", "deposited"}

(***************************************************************************)
(* The three packed words of an operator: keys, penalty and limits.  The   *)
(* stage of a key is what was last decided about this very key.            *)
(***************************************************************************)
NodeOperator ==
  [active : BOOLEAN,
   keys : Seq(Stages), vetted : Counts, exited : Counts, deposited : Counts,
   stuck : Counts, refunded : Counts, penaltyEnd : Nat,
   targetActive : BOOLEAN, target : Counts, max : Counts]

NewOperator ==
  [active |-> TRUE,
   keys |-> <<>>, vetted |-> 0, exited |-> 0, deposited |-> 0,
   stuck |-> 0, refunded |-> 0, penaltyEnd |-> 0,
   targetActive |-> FALSE, target |-> 0, max |-> 0]

Total(op) == Len(op.keys)

(***************************************************************************)
(* The ranges that the struct's comment and the assertions of the code     *)
(* rely on (l. 165-171, 557, 609, 772).                                    *)
(***************************************************************************)
InRange(op) ==
  /\ op.exited + op.stuck <= op.deposited
  /\ op.refunded <= op.deposited
  /\ op.deposited <= op.max
  /\ op.max <= op.vetted
  /\ op.vetted <= Total(op)
  /\ Total(op) <= UINT64_MAX

TypeOK ==
  /\ nodeOperators \in Seq(NodeOperator)
  /\ \A id \in DOMAIN nodeOperators : InRange(nodeOperators[id])
  /\ activeOperatorsCount \in 0..MAX_NODE_OPERATORS_COUNT
  /\ summary \in [max : Counts, exited : Counts, total : Counts, deposited : Counts]
  /\ nonce \in {0, 1}
  /\ stuckPenaltyDelay \in Nat
  /\ now \in Nat

Init ==
  /\ nodeOperators = <<>>
  /\ activeOperatorsCount = 0
  /\ summary = [max |-> 0, exited |-> 0, total |-> 0, deposited |-> 0]
  /\ nonce = 0
  /\ stuckPenaltyDelay \in Delays
  /\ now = 1

------------------------------------------------------------------------------

(***************************************************************************)
(* Penalties.  A penalty is only cleared when its end is zeroed.           *)
(***************************************************************************)
IsPenalized(op) == op.refunded < op.stuck \/ now <= op.penaltyEnd

IsPenaltyCleared(op) == ~IsPenalized(op) /\ op.penaltyEnd = 0

(***************************************************************************)
(* _applyNodeOperatorLimits.                                               *)
(***************************************************************************)
MaxValidators(op) ==
  IF ~IsPenaltyCleared(op) THEN op.deposited
  ELSE IF op.targetActive
       THEN Max({op.deposited, Min({op.vetted, op.exited + op.target})})
       ELSE op.vetted

Limited(op) == [op EXCEPT !.max = MaxValidators(op)]

(***************************************************************************)
(* Stores the operators that "changed" is defined for.  What their new     *)
(* limits add to the summary is counted by differences, as in              *)
(* _updateSummaryMaxValidatorsCount.                                       *)
(***************************************************************************)
Store(changed) ==
  nodeOperators' = [id \in DOMAIN nodeOperators |->
                      IF id \in DOMAIN changed THEN changed[id] ELSE nodeOperators[id]]

StoreOne(id, op) == nodeOperators' = [nodeOperators EXCEPT ![id] = op]

MaxDifference(changed) ==
  SumFunction([id \in DOMAIN changed |-> changed[id].max - nodeOperators[id].max])

ExitedDifference(changed) ==
  SumFunction([id \in DOMAIN changed |-> changed[id].exited - nodeOperators[id].exited])

WithMaxOf(id, op) == [summary EXCEPT !.max = @ + op.max - nodeOperators[id].max]

IncreaseNonce == nonce' = 1 - nonce

------------------------------------------------------------------------------

(***************************************************************************)
(* Operators.                                                              *)
(***************************************************************************)
AddNodeOperator ==
  /\ Len(nodeOperators) < MAX_NODE_OPERATORS_COUNT
  /\ nodeOperators' = Append(nodeOperators, NewOperator)
  /\ activeOperatorsCount' = activeOperatorsCount + 1
  /\ UNCHANGED <<summary, nonce, stuckPenaltyDelay, now>>

ActivateNodeOperator(id) ==
  /\ ~nodeOperators[id].active
  /\ StoreOne(id, [nodeOperators[id] EXCEPT !.active = TRUE])
  /\ activeOperatorsCount' = activeOperatorsCount + 1
  /\ IncreaseNonce
  /\ UNCHANGED <<summary, stuckPenaltyDelay, now>>

(***************************************************************************)
(* Lowering the number of vetted keys takes the approval from the others.  *)
(***************************************************************************)
VettedUpTo(op, n) ==
  [op EXCEPT !.vetted = n,
             !.keys = [k \in DOMAIN @ |-> IF k > n /\ @[k] = "vetted" THEN "added" ELSE @[k]]]

DeactivateWithLimits(id) ==   \* mutant: the vetted keys stay
  LET op == [nodeOperators[id] EXCEPT !.active = FALSE]
  IN  /\ nodeOperators[id].active
      /\ activeOperatorsCount' = activeOperatorsCount - 1
      /\ StoreOne(id, op)
      /\ IncreaseNonce
      /\ UNCHANGED <<summary, stuckPenaltyDelay, now>>

DeactivateNodeOperator(id) ==
  LET op      == [nodeOperators[id] EXCEPT !.active = FALSE]
      trimmed == Limited(VettedUpTo(op, op.deposited))
  IN  /\ nodeOperators[id].active
      /\ activeOperatorsCount' = activeOperatorsCount - 1
      /\ IF op.vetted > op.deposited
         THEN StoreOne(id, trimmed) /\ summary' = WithMaxOf(id, trimmed)
         ELSE StoreOne(id, op) /\ UNCHANGED summary
      /\ IncreaseNonce
      /\ UNCHANGED <<stuckPenaltyDelay, now>>

(***************************************************************************)
(* The DAO approves all keys up to a number, kept between the deposited    *)
(* and the added keys.                                                     *)
(***************************************************************************)
Approved(op, n) ==
  [VettedUpTo(op, n) EXCEPT
     !.keys = [k \in DOMAIN @ |-> IF op.deposited < k /\ k <= n THEN "vetted" ELSE @[k]]]

SetNodeOperatorStakingLimit(id, limit) ==
  LET op == nodeOperators[id]
      n  == Min({Total(op), Max({limit, op.deposited})})
      approved == Limited(Approved(op, n))
  IN  /\ op.active
      /\ n # op.vetted
      /\ StoreOne(id, approved)
      /\ summary' = WithMaxOf(id, approved)
      /\ IncreaseNonce
      /\ UNCHANGED <<activeOperatorsCount, stuckPenaltyDelay, now>>

UpdateTargetValidatorsLimits(id, isActive, target) ==
  LET op == Limited([nodeOperators[id] EXCEPT !.targetActive = isActive,
                                              !.target = IF isActive THEN target ELSE 0])
  IN  /\ target <= UINT64_MAX
      /\ StoreOne(id, op)
      /\ summary' = WithMaxOf(id, op)
      /\ IncreaseNonce
      /\ UNCHANGED <<activeOperatorsCount, stuckPenaltyDelay, now>>

------------------------------------------------------------------------------

(***************************************************************************)
(* Keys.  Removal works from the last key of the range down, and moves the *)
(* operator's last key into each gap.                                      *)
(***************************************************************************)
AddSigningKeys(id, n) ==
  LET op == nodeOperators[id]
  IN  /\ n > 0
      /\ Total(op) + n <= UINT64_MAX
      /\ summary.total + n <= UINT64_MAX
      /\ StoreOne(id, [op EXCEPT !.keys = @ \o [k \in 1..n |-> "added"]])
      /\ summary' = [summary EXCEPT !.total = @ + n]
      /\ IncreaseNonce
      /\ UNCHANGED <<activeOperatorsCount, stuckPenaltyDelay, now>>

KeysRemoved(keys, from, n) ==
  FoldLeft(LAMBDA rest, i : SubSeq([rest EXCEPT ![i] = rest[Len(rest)]], 1, Len(rest) - 1),
           keys, [j \in 1..n |-> from + n + 1 - j])

RemovedKeepingVetted(op, from, n) ==   \* mutant: the vetted keys do not end at the gap
  [op EXCEPT !.keys = KeysRemoved(@, from, n), !.vetted = Min({@, Total(op) - n})]

Removed(op, from, n) ==
  VettedUpTo([op EXCEPT !.keys = KeysRemoved(@, from, n)], Min({op.vetted, from}))

RemoveUnusedSigningKeys(id, from, n) ==
  LET op == Limited(Removed(nodeOperators[id], from, n))
  IN  /\ n > 0
      /\ from >= nodeOperators[id].deposited
      /\ from + n <= Total(nodeOperators[id])
      /\ StoreOne(id, op)
      /\ summary' = [WithMaxOf(id, op) EXCEPT !.total = @ - n]
      /\ IncreaseNonce
      /\ UNCHANGED <<activeOperatorsCount, stuckPenaltyDelay, now>>

(***************************************************************************)
(* invalidateReadyToDepositKeysRange, and onWithdrawalCredentialsChanged   *)
(* for all operators: the keys that are not deposited are dropped.         *)
(***************************************************************************)
Trimmed(op) == [op EXCEPT !.keys = SubSeq(@, 1, op.deposited), !.vetted = op.deposited]

InvalidateReadyToDepositKeysRange(first, last) ==
  LET ids      == {id \in first..last : Total(nodeOperators[id]) # nodeOperators[id].deposited}
      changed  == [id \in ids |-> Limited(Trimmed(nodeOperators[id]))]
      trimmed  == SumFunction([id \in ids |-> Total(nodeOperators[id]) - nodeOperators[id].deposited])
  IN  /\ first <= last
      /\ Store(changed)
      /\ summary' = [summary EXCEPT !.max = @ + MaxDifference(changed), !.total = @ - trimmed]
      /\ IF trimmed > 0 THEN IncreaseNonce ELSE UNCHANGED nonce
      /\ UNCHANGED <<activeOperatorsCount, stuckPenaltyDelay, now>>

------------------------------------------------------------------------------

(***************************************************************************)
(* Reports of the oracle, passed on by the router.  A count that did not   *)
(* change is skipped.  The delay of the penalty starts when the stuck      *)
(* validators are no longer more than the refunded ones.                   *)
(***************************************************************************)
PenaltyEndsEarly(op, stuck, refunded) == op   \* mutant: no delay

PenaltyEnd(op, stuck, refunded) ==
  IF op.stuck > op.refunded /\ stuck <= refunded
  THEN [op EXCEPT !.penaltyEnd = now + stuckPenaltyDelay] ELSE op

StuckInRange(op, n) == n = op.stuck \/ n <= op.deposited - op.exited

WithStuck(op, n) ==
  IF n = op.stuck THEN op
  ELSE Limited([PenaltyEnd(op, n, op.refunded) EXCEPT !.stuck = n])

ExitedInRange(op, n, allowDecrease) ==
  \/ n = op.exited
  \/ (allowDecrease \/ n > op.exited) /\ n <= op.deposited - op.stuck

WithExitedUnlimited(op, n) == [op EXCEPT !.exited = n]   \* mutant: the limit is not recalculated

WithExited(op, n) ==
  IF n = op.exited THEN op ELSE Limited([op EXCEPT !.exited = n])

UpdateStuckValidatorsCount(counts) ==
  LET changed == [id \in DOMAIN counts |-> WithStuck(nodeOperators[id], counts[id])]
  IN  /\ \A id \in DOMAIN counts : StuckInRange(nodeOperators[id], counts[id])
      /\ Store(changed)
      /\ summary' = [summary EXCEPT !.max = @ + MaxDifference(changed)]
      /\ IncreaseNonce
      /\ UNCHANGED <<activeOperatorsCount, stuckPenaltyDelay, now>>

UpdateExitedValidatorsCount(counts) ==
  LET changed == [id \in DOMAIN counts |-> WithExited(nodeOperators[id], counts[id])]
  IN  /\ \A id \in DOMAIN counts : ExitedInRange(nodeOperators[id], counts[id], FALSE)
      /\ Store(changed)
      /\ summary' = [summary EXCEPT !.max = @ + MaxDifference(changed),
                                    !.exited = @ + ExitedDifference(changed)]
      /\ IncreaseNonce
      /\ UNCHANGED <<activeOperatorsCount, stuckPenaltyDelay, now>>

UnsafeUpdateValidatorsCount(id, exited, stuck) ==
  LET op == WithStuck(nodeOperators[id], stuck)
      corrected == WithExited(op, exited)
  IN  /\ StuckInRange(nodeOperators[id], stuck)
      /\ ExitedInRange(op, exited, TRUE)
      /\ StoreOne(id, corrected)
      /\ summary' = [WithMaxOf(id, corrected) EXCEPT !.exited = @ + exited - op.exited]
      /\ IncreaseNonce
      /\ UNCHANGED <<activeOperatorsCount, stuckPenaltyDelay, now>>

(***************************************************************************)
(* Refunds and the end of a penalty.  A refund leaves the nonce alone.     *)
(***************************************************************************)
UpdateRefundedValidatorsCount(id, n) ==
  LET op == nodeOperators[id]
      refunded == Limited([PenaltyEnd(op, op.stuck, n) EXCEPT !.refunded = n])
  IN  /\ n # op.refunded
      /\ n <= op.deposited
      /\ StoreOne(id, refunded)
      /\ summary' = WithMaxOf(id, refunded)
      /\ UNCHANGED <<activeOperatorsCount, nonce, stuckPenaltyDelay, now>>

ClearPenaltyQuietly(id) ==   \* mutant: the nonce is not increased
  LET cleared == Limited([nodeOperators[id] EXCEPT !.penaltyEnd = 0])
  IN  /\ ~IsPenalized(nodeOperators[id])
      /\ nodeOperators[id].penaltyEnd # 0
      /\ StoreOne(id, cleared)
      /\ summary' = WithMaxOf(id, cleared)
      /\ UNCHANGED <<activeOperatorsCount, nonce, stuckPenaltyDelay, now>>

ClearNodeOperatorPenalty(id) ==
  LET cleared == Limited([nodeOperators[id] EXCEPT !.penaltyEnd = 0])
  IN  /\ ~IsPenalized(nodeOperators[id])
      /\ nodeOperators[id].penaltyEnd # 0
      /\ StoreOne(id, cleared)
      /\ summary' = WithMaxOf(id, cleared)
      /\ IncreaseNonce
      /\ UNCHANGED <<activeOperatorsCount, stuckPenaltyDelay, now>>

SetStuckPenaltyDelay(delay) ==
  /\ stuckPenaltyDelay' = delay
  /\ UNCHANGED <<nodeOperators, activeOperatorsCount, summary, nonce, now>>

------------------------------------------------------------------------------

(***************************************************************************)
(* Deposits.  The operators with keys to deposit are the buckets; there is *)
(* room for as many of them as there are active operators.                 *)
(***************************************************************************)
Candidates ==
  FoldLeft(LAMBDA found, id :
             IF nodeOperators[id].deposited = nodeOperators[id].max THEN found ELSE Append(found, id),
           <<>>, [id \in DOMAIN nodeOperators |-> id])

ActiveKeys == [i \in DOMAIN Candidates |->
                 nodeOperators[Candidates[i]].deposited - nodeOperators[Candidates[i]].exited]

Capacities == [i \in DOMAIN Candidates |->
                 nodeOperators[Candidates[i]].max - nodeOperators[Candidates[i]].exited]

WithDeposited(op, n) ==
  [op EXCEPT !.deposited = n,
             !.keys = [k \in DOMAIN @ |-> IF op.deposited < k /\ k <= n THEN "deposited" ELSE @[k]]]

(***************************************************************************)
(* The requirements on the way: the arrays hold all candidates, and all of *)
(* the n deposits are allocated.                                           *)
(***************************************************************************)
CanObtain(n) ==
  /\ Len(Candidates) <= activeOperatorsCount
  /\ Allocated(ActiveKeys, Allocate(ActiveKeys, Capacities, n)) = n

ObtainDepositData(n) ==
  LET after   == Allocate(ActiveKeys, Capacities, n)
      ids     == {Candidates[i] : i \in {j \in DOMAIN after : after[j] # ActiveKeys[j]}}
      Index(id) == CHOOSE i \in DOMAIN after : Candidates[i] = id
      changed == [id \in ids |-> Limited(WithDeposited(nodeOperators[id],
                                           nodeOperators[id].exited + after[Index(id)]))]
  IN  /\ n > 0
      /\ CanObtain(n)
      /\ Store(changed)
      /\ summary' = [summary EXCEPT !.max = @ + MaxDifference(changed), !.deposited = @ + n]
      /\ IncreaseNonce
      /\ UNCHANGED <<activeOperatorsCount, stuckPenaltyDelay, now>>

AdvanceClock ==
  /\ now < MAX_TIME
  /\ now' = now + 1
  /\ UNCHANGED <<nodeOperators, activeOperatorsCount, summary, nonce, stuckPenaltyDelay>>

Next ==
  \/ AddNodeOperator
  \/ \E id \in DOMAIN nodeOperators :
       \/ ActivateNodeOperator(id)
       \/ DeactivateNodeOperator(id)
       \/ \E n \in Counts : SetNodeOperatorStakingLimit(id, n)
       \/ \E target \in Targets : UpdateTargetValidatorsLimits(id, TRUE, target)
       \/ UpdateTargetValidatorsLimits(id, FALSE, 0)
       \/ \E n \in Counts : AddSigningKeys(id, n)
       \/ \E from, n \in Counts : RemoveUnusedSigningKeys(id, from, n)
       \/ \E last \in DOMAIN nodeOperators : InvalidateReadyToDepositKeysRange(id, last)
       \/ \E exited, stuck \in Counts : UnsafeUpdateValidatorsCount(id, exited, stuck)
       \/ \E n \in Counts : UpdateRefundedValidatorsCount(id, n)
       \/ ClearNodeOperatorPenalty(id)
  \/ \E ids \in SUBSET DOMAIN nodeOperators : \E counts \in [ids -> Counts] :
       UpdateStuckValidatorsCount(counts) \/ UpdateExitedValidatorsCount(counts)
  \/ \E n \in Counts : ObtainDepositData(n)
  \/ \E delay \in Delays : SetStuckPenaltyDelay(delay)
  \/ AdvanceClock

Spec == Init /\ [][Next]_vars

------------------------------------------------------------------------------

(***************************************************************************)
(* The cached values never lag behind: each operator's maximum is what its *)
(* keys, penalty and limit give now, though time passes and several        *)
(* operations do not recalculate it, and the summary, only ever updated by *)
(* differences, is the sum over the operators.                             *)
(***************************************************************************)
SumOf(Field(_)) == SumFunction([id \in DOMAIN nodeOperators |-> Field(nodeOperators[id])])

CachesAreCurrent ==
  /\ \A id \in DOMAIN nodeOperators : nodeOperators[id].max = MaxValidators(nodeOperators[id])
  /\ summary.max = SumOf(LAMBDA op : op.max)
  /\ summary.exited = SumOf(LAMBDA op : op.exited)
  /\ summary.total = SumOf(LAMBDA op : Total(op))
  /\ summary.deposited = SumOf(LAMBDA op : op.deposited)

(***************************************************************************)
(* Through additions, removals that move keys, and trims, the keys that    *)
(* may be deposited are ones the DAO approved in their place, and a        *)
(* deposited key is never removed, moved or deposited again.               *)
(***************************************************************************)
KeysAreWhereTheirStageIs ==
  \A id \in DOMAIN nodeOperators : \A k \in DOMAIN nodeOperators[id].keys :
    LET op == nodeOperators[id]
    IN  op.keys[k] = IF k <= op.deposited THEN "deposited"
                     ELSE IF k <= op.vetted THEN "vetted" ELSE "added"

(***************************************************************************)
(* Whatever number up to the depositable validators of the summary the     *)
(* router asks for, obtainDepositData does not revert: the arrays sized by *)
(* the ACTIVE operators hold the operators with keys, the cached numbers   *)
(* leave room for it, and the allocation does not stop short.              *)
(***************************************************************************)
DepositableCanBeObtained ==
  \A n \in 1..(summary.max - summary.deposited) : CanObtain(n)

(***************************************************************************)
(* The allocation is min-first for all buckets, capacities and sizes       *)
(* within the counters' range (checked once, before operators exist).      *)
(***************************************************************************)
AllocationIsMinFirst ==
  nodeOperators = <<>> =>
    \A buckets, capacities \in [1..3 -> Counts], n \in 0..(3 * UINT64_MAX) :
      IsMinFirst(buckets, capacities, n, Allocate(buckets, capacities, n))

(***************************************************************************)
(* A penalty, once incurred, ends only by clearNodeOperatorPenalty after   *)
(* its delay: no report, refund, correction or change of the delay         *)
(* releases the keys of the operator earlier.                              *)
(***************************************************************************)
PenaltyIsServed ==
  [][\A id \in DOMAIN nodeOperators :
       LET op == nodeOperators[id]
       IN  ~IsPenaltyCleared(op) /\ IsPenaltyCleared(nodeOperators[id])' =>
             op.penaltyEnd > 0 /\ now > op.penaltyEnd]_vars

(***************************************************************************)
(* getNonce "MUST change its value when any of the following happens"      *)
(* (l. 1287-1292): deposit data is added, removed or used, the size of the *)
(* ready-to-deposit data changes, an operator is (de)activated.            *)
(***************************************************************************)
NonceFollowsDepositData ==
  [][\A id \in DOMAIN nodeOperators :
       LET op == nodeOperators[id]
           new == nodeOperators'[id]
       IN  \/ op.active # new.active
           \/ op.keys # new.keys
           \/ op.max - op.deposited # new.max - new.deposited
           => nonce' # nonce]_vars

------------------------------------------------------------------------------

(***************************************************************************)
(* The registry is a staking module.                                       *)
(***************************************************************************)
SM == INSTANCE StakingModule WITH
        exited      <- summary.exited,
        deposited   <- summary.deposited,
        depositable <- summary.max - summary.deposited

ImplementsStakingModule == SM!Spec

==============================================================================

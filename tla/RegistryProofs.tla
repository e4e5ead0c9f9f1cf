---------------------------- MODULE RegistryProofs ----------------------------
(***************************************************************************)
(* Theorems about NodeOperatorsRegistry, for any number of operators and   *)
(* keys, any counts, targets and delays.                                   *)
(*                                                                         *)
(* Penalties.  Whether a penalty is cleared does not depend on the clock,  *)
(* since the clock is never 0 (Cleared).  "Serves" says of one operator    *)
(* before and after a transaction that it serves its penalty; each         *)
(* operation on an operator does, and those that are not about penalties   *)
(* leave the three fields of the penalty alone ("SamePenalty").            *)
(*                                                                         *)
(* The books.  The invariant is RegistryInv: every operator is Good (its   *)
(* counters are in order, its keys are in the stage its counters say, its  *)
(* maximum is current, and unless it is active it has nothing to deposit), *)
(* the summary is the sum of the operators ("Tallied"), and the number of  *)
(* active operators is right.  A transaction is followed in three parts:   *)
(* what it makes of an operator is Good again; what it adds to the summary *)
(* is the sum of what it adds to the operators; and what the summary does  *)
(* is a step of a staking module.  The active operators are in it because  *)
(* they size the arrays of an allocation, and an operator that is not      *)
(* active must therefore never wait for deposits.                          *)
(***************************************************************************)
EXTENDS NodeOperatorsRegistry, AllocationProofs

Fields ==
  {"active", "keys", "vetted", "exited", "deposited", "stuck", "refunded",
   "penaltyEnd", "targetActive", "target", "max"}

IsOperator(op) ==
  /\ DOMAIN op = Fields
  /\ op.stuck \in Nat
  /\ op.refunded \in Nat
  /\ op.penaltyEnd \in Nat

Clock ==
  /\ now \in Nat \ {0}
  /\ stuckPenaltyDelay \in Nat

AllOperators == \A id \in DOMAIN nodeOperators : IsOperator(nodeOperators[id])

Operators == {nodeOperators[id] : id \in DOMAIN nodeOperators}

PenaltyInv ==
  /\ Clock
  /\ nodeOperators \in Seq(Operators)
  /\ AllOperators

Cleared(op) == op.refunded >= op.stuck /\ op.penaltyEnd = 0

SamePenalty(op, new) ==
  /\ DOMAIN new = Fields
  /\ new.stuck = op.stuck
  /\ new.refunded = op.refunded
  /\ new.penaltyEnd = op.penaltyEnd

Serves(op, new) ==
  /\ IsOperator(new)
  /\ ~Cleared(op) /\ Cleared(new) => op.penaltyEnd > 0 /\ now > op.penaltyEnd

------------------------------------------------------------------------------

(***************************************************************************)
(* One operator.                                                           *)
(***************************************************************************)
LEMMA ClearedIsCleared ==
  ASSUME Clock, NEW op, IsOperator(op)
  PROVE  IsPenaltyCleared(op) <=> Cleared(op)
BY DEF Clock, IsOperator, IsPenaltyCleared, IsPenalized, Cleared

LEMMA SamePenaltyServes ==
  ASSUME NEW op, IsOperator(op), NEW new, SamePenalty(op, new)
  PROVE  Serves(op, new)
BY DEF IsOperator, SamePenalty, Serves, Cleared

LEMMA LimitedServes ==
  ASSUME NEW op, NEW new, Serves(op, new)
  PROVE  Serves(op, Limited(new))
<1> DEFINE max == MaxValidators(new)
<1> HIDE DEF max
<1>1. Limited(new) = [new EXCEPT !.max = max]
  BY DEF Limited, max
<1>2. DOMAIN new = Fields
  BY DEF Serves, IsOperator
<1>3. /\ DOMAIN Limited(new) = Fields
      /\ Limited(new).stuck = new.stuck
      /\ Limited(new).refunded = new.refunded
      /\ Limited(new).penaltyEnd = new.penaltyEnd
  BY <1>1, <1>2 DEF Fields
<1>4. QED
  BY <1>3 DEF Serves, IsOperator, Cleared

LEMMA VettedUpToKeepsPenalty ==
  ASSUME NEW op, DOMAIN op = Fields, NEW n
  PROVE  SamePenalty(op, VettedUpTo(op, n))
<1> DEFINE keys == [k \in DOMAIN op.keys |->
                      IF k > n /\ op.keys[k] = "vetted" THEN "added" ELSE op.keys[k]]
<1> HIDE DEF keys
<1>1. VettedUpTo(op, n) = [op EXCEPT !.vetted = n, !.keys = keys]
  BY DEF VettedUpTo, keys, Fields
<1>2. QED
  BY <1>1 DEF SamePenalty, Fields

LEMMA PenaltyEndServes ==
  ASSUME Clock, NEW op, IsOperator(op), NEW stuck \in Nat, NEW refunded \in Nat,
         stuck = op.stuck \/ refunded = op.refunded,
         NEW new, DOMAIN new = Fields, new.stuck = stuck, new.refunded = refunded,
         new.penaltyEnd = PenaltyEnd(op, stuck, refunded).penaltyEnd
  PROVE  Serves(op, new)
<1>1. CASE op.stuck > op.refunded /\ stuck <= refunded
  <2>1. new.penaltyEnd = now + stuckPenaltyDelay
    BY <1>1 DEF PenaltyEnd, IsOperator, Fields
  <2>2. QED
    BY <2>1 DEF Clock, Serves, IsOperator, Cleared
<1>2. CASE ~(op.stuck > op.refunded /\ stuck <= refunded)
  <2>1. new.penaltyEnd = op.penaltyEnd
    BY <1>2 DEF PenaltyEnd
  <2>2. QED
    BY <1>2, <2>1 DEF Serves, IsOperator, Cleared
<1>3. QED
  BY <1>1, <1>2

LEMMA WithStuckServes ==
  ASSUME Clock, NEW op, IsOperator(op), NEW n \in Nat
  PROVE  Serves(op, WithStuck(op, n))
<1>1. CASE n = op.stuck
  BY <1>1 DEF WithStuck, Serves
<1>2. CASE n # op.stuck
  <2> DEFINE ended == PenaltyEnd(op, n, op.refunded)
             new   == [ended EXCEPT !.stuck = n]
  <2>1. /\ DOMAIN ended = Fields
        /\ ended.refunded = op.refunded
    BY DEF PenaltyEnd, IsOperator, Fields
  <2>2. /\ DOMAIN new = Fields
        /\ new.stuck = n
        /\ new.refunded = op.refunded
        /\ new.penaltyEnd = ended.penaltyEnd
    <3> HIDE DEF ended
    <3> QED
      BY <2>1 DEF Fields
  <2>3. Serves(op, new)
    <3> HIDE DEF new
    <3> QED
      BY <2>2, PenaltyEndServes DEF IsOperator
  <2>4. WithStuck(op, n) = Limited(new)
    BY <1>2 DEF WithStuck
  <2>5. QED
    BY <2>3, <2>4, LimitedServes
<1>3. QED
  BY <1>1, <1>2

LEMMA WithExitedServes ==
  ASSUME NEW op, NEW new, Serves(op, new), NEW n
  PROVE  Serves(op, WithExited(new, n))
<1> DEFINE more == [new EXCEPT !.exited = n]
<1>1. /\ DOMAIN more = Fields
      /\ more.stuck = new.stuck
      /\ more.refunded = new.refunded
      /\ more.penaltyEnd = new.penaltyEnd
  BY DEF Serves, IsOperator, Fields
<1>2. Serves(op, more)
  <2> HIDE DEF more
  <2> QED
    BY <1>1 DEF Serves, IsOperator, Cleared
<1>3. QED
  BY <1>2, LimitedServes DEF WithExited

LEMMA IsOperatorServes ==
  ASSUME NEW op, IsOperator(op)
  PROVE  Serves(op, op)
BY DEF Serves

(***************************************************************************)
(* The operations that are not about penalties.  What the keys become is   *)
(* of no matter here.                                                      *)
(***************************************************************************)
LEMMA ApprovedKeepsPenalty ==
  ASSUME NEW op, DOMAIN op = Fields, NEW n
  PROVE  SamePenalty(op, Approved(op, n))
<1> DEFINE below == VettedUpTo(op, n)
           keys  == [k \in DOMAIN below.keys |->
                       IF op.deposited < k /\ k <= n THEN "vetted" ELSE below.keys[k]]
<1>1. SamePenalty(op, below)
  BY VettedUpToKeepsPenalty
<1> HIDE DEF below
<1>2. Approved(op, n) = [below EXCEPT !.keys = keys]
  BY <1>1 DEF Approved, below, SamePenalty, Fields
<1> HIDE DEF keys
<1>3. QED
  BY <1>1, <1>2 DEF SamePenalty, Fields

LEMMA RemovedKeepsPenalty ==
  ASSUME NEW op, DOMAIN op = Fields, NEW from, NEW n
  PROVE  SamePenalty(op, Removed(op, from, n))
<1> DEFINE left == [op EXCEPT !.keys = KeysRemoved(@, from, n)]
<1>1. SamePenalty(op, left)
  BY DEF SamePenalty, Fields
<1>2. SamePenalty(left, VettedUpTo(left, Min({op.vetted, from})))
  BY <1>1, VettedUpToKeepsPenalty DEF SamePenalty
<1>3. Removed(op, from, n) = VettedUpTo(left, Min({op.vetted, from}))
  BY DEF Removed
<1>4. QED
  BY <1>1, <1>2, <1>3 DEF SamePenalty

LEMMA TrimmedKeepsPenalty ==
  ASSUME NEW op, DOMAIN op = Fields
  PROVE  SamePenalty(op, Trimmed(op))
BY DEF Trimmed, SamePenalty, Fields

LEMMA WithDepositedKeepsPenalty ==
  ASSUME NEW op, DOMAIN op = Fields, NEW n
  PROVE  SamePenalty(op, WithDeposited(op, n))
<1> DEFINE keys == [k \in DOMAIN op.keys |->
                      IF op.deposited < k /\ k <= n THEN "deposited" ELSE op.keys[k]]
<1>1. WithDeposited(op, n) = [op EXCEPT !.deposited = n, !.keys = keys]
  BY DEF WithDeposited, Fields
<1> HIDE DEF keys
<1>2. QED
  BY <1>1 DEF SamePenalty, Fields

(***************************************************************************)
(* A refund may start the delay; clearing needs it to be over.             *)
(***************************************************************************)
LEMMA RefundedServes ==
  ASSUME Clock, NEW op, IsOperator(op), NEW n \in Nat
  PROVE  Serves(op, Limited([PenaltyEnd(op, op.stuck, n) EXCEPT !.refunded = n]))
<1> DEFINE ended == PenaltyEnd(op, op.stuck, n)
           new   == [ended EXCEPT !.refunded = n]
<1>1. /\ DOMAIN ended = Fields
      /\ ended.stuck = op.stuck
  BY DEF PenaltyEnd, IsOperator, Fields
<1>2. /\ DOMAIN new = Fields
      /\ new.stuck = op.stuck
      /\ new.refunded = n
      /\ new.penaltyEnd = ended.penaltyEnd
  <2> HIDE DEF ended
  <2> QED
    BY <1>1 DEF Fields
<1>3. Serves(op, new)
  <2> HIDE DEF new
  <2> QED
    BY <1>2, PenaltyEndServes DEF IsOperator
<1>4. QED
  BY <1>3, LimitedServes

LEMMA ClearingServes ==
  ASSUME Clock, NEW op, IsOperator(op), ~IsPenalized(op), op.penaltyEnd # 0
  PROVE  Serves(op, Limited([op EXCEPT !.penaltyEnd = 0]))
<1> DEFINE new == [op EXCEPT !.penaltyEnd = 0]
<1>1. /\ DOMAIN new = Fields
      /\ new.stuck = op.stuck
      /\ new.refunded = op.refunded
      /\ new.penaltyEnd = 0
  BY DEF IsOperator, Fields
<1>2. op.penaltyEnd > 0 /\ now > op.penaltyEnd
  BY DEF IsPenalized, IsOperator, Clock
<1>3. Serves(op, new)
  <2> HIDE DEF new
  <2> QED
    BY <1>1, <1>2 DEF Serves, IsOperator
<1>4. QED
  BY <1>3, LimitedServes

------------------------------------------------------------------------------

(***************************************************************************)
(* All operators.                                                          *)
(***************************************************************************)
AllServe ==
  /\ nodeOperators' \in Seq(Operators')
  /\ AllOperators'
  /\ \A id \in DOMAIN nodeOperators :
       id \in DOMAIN nodeOperators' /\ Serves(nodeOperators[id], nodeOperators'[id])

LEMMA StoreOneServes ==
  ASSUME PenaltyInv, NEW id \in DOMAIN nodeOperators,
         NEW op, Serves(nodeOperators[id], op), StoreOne(id, op)
  PROVE  AllServe
<1>1. PICK n \in Nat : DOMAIN nodeOperators = 1..n
  BY DEF PenaltyInv
<1>2. /\ nodeOperators' = [i \in 1..n |-> nodeOperators'[i]]
      /\ \A i \in 1..n : nodeOperators'[i] = IF i = id THEN op ELSE nodeOperators[i]
  BY <1>1 DEF StoreOne, PenaltyInv
<1>3. nodeOperators' \in Seq(Operators')
  BY <1>2 DEF Operators
<1>4. \A i \in 1..n : Serves(nodeOperators[i], nodeOperators'[i])
  BY <1>1, <1>2, IsOperatorServes DEF PenaltyInv, AllOperators
<1>5. QED
  BY <1>1, <1>2, <1>3, <1>4 DEF AllServe, AllOperators, Serves

LEMMA StoreServes ==
  ASSUME PenaltyInv, NEW changed,
         \A id \in DOMAIN nodeOperators \cap DOMAIN changed :
           Serves(nodeOperators[id], changed[id]),
         Store(changed)
  PROVE  AllServe
<1>1. PICK n \in Nat : DOMAIN nodeOperators = 1..n
  BY DEF PenaltyInv
<1>2. /\ nodeOperators' = [i \in 1..n |-> nodeOperators'[i]]
      /\ \A i \in 1..n : nodeOperators'[i] =
           IF i \in DOMAIN changed THEN changed[i] ELSE nodeOperators[i]
  BY <1>1 DEF Store
<1>3. nodeOperators' \in Seq(Operators')
  BY <1>2 DEF Operators
<1>4. \A i \in 1..n : Serves(nodeOperators[i], nodeOperators'[i])
  BY <1>1, <1>2, IsOperatorServes DEF PenaltyInv, AllOperators
<1>5. QED
  BY <1>1, <1>2, <1>3, <1>4 DEF AllServe, AllOperators, Serves

LEMMA SameServes ==
  ASSUME PenaltyInv, UNCHANGED nodeOperators
  PROVE  AllServe
BY IsOperatorServes DEF PenaltyInv, AllServe, AllOperators, Operators

LEMMA AddServes ==
  ASSUME PenaltyInv, nodeOperators' = Append(nodeOperators, NewOperator)
  PROVE  AllServe
<1> DEFINE more == Operators \cup {NewOperator}
           n    == Len(nodeOperators)
<1>1. IsOperator(NewOperator)
  BY DEF IsOperator, NewOperator, Fields
<1>2. nodeOperators \in Seq(more)
  <2>1. \A i \in 1..n : nodeOperators[i] \in more
    BY DEF PenaltyInv
  <2> HIDE DEF more
  <2>2. QED
    BY <2>1 DEF PenaltyInv
<1>3. NewOperator \in more
  OBVIOUS
<1>4. n \in Nat /\ DOMAIN nodeOperators = 1..n
  BY DEF PenaltyInv
<1> HIDE DEF NewOperator, more
<1>5. nodeOperators' \in Seq(more)
  BY <1>2, <1>3
<1>6. DOMAIN nodeOperators' = 1..(n + 1)
  BY <1>2, <1>3
<1>7. nodeOperators'[n + 1] = NewOperator
  BY <1>2, <1>3
<1>8. \A i \in 1..n : nodeOperators'[i] = nodeOperators[i]
  BY <1>2, <1>3
<1> HIDE DEF n
<1>9. nodeOperators' \in Seq(Operators')
  <2>1. \A i \in 1..(n + 1) : nodeOperators'[i] \in Operators'
    BY <1>6 DEF Operators
  <2>2. QED
    BY <2>1, <1>4, <1>5, <1>6
<1>10. \A i \in 1..(n + 1) : IsOperator(nodeOperators'[i])
  <2> SUFFICES ASSUME NEW i \in 1..(n + 1)
               PROVE  IsOperator(nodeOperators'[i])
    OBVIOUS
  <2>1. CASE i = n + 1
    BY <2>1, <1>1, <1>7
  <2>2. CASE i # n + 1
    <3>1. i \in 1..n
      BY <2>2, <1>4
    <3>2. QED
      BY <3>1, <1>4, <1>8 DEF PenaltyInv, AllOperators
  <2>3. QED
    BY <2>1, <2>2
<1>11. \A i \in 1..n : Serves(nodeOperators[i], nodeOperators'[i])
  BY <1>4, <1>8, IsOperatorServes DEF PenaltyInv, AllOperators
<1>12. QED
  BY <1>4, <1>6, <1>9, <1>10, <1>11 DEF AllServe, AllOperators

LEMMA OneOperatorServes ==
  ASSUME PenaltyInv, NEW id \in DOMAIN nodeOperators
  PROVE  IsOperator(nodeOperators[id]) /\ DOMAIN nodeOperators[id] = Fields
BY DEF PenaltyInv, AllOperators, IsOperator

LEMMA LimitedKeepsServing ==
  ASSUME NEW op, IsOperator(op), NEW new, SamePenalty(op, new)
  PROVE  Serves(op, Limited(new))
BY SamePenaltyServes, LimitedServes

------------------------------------------------------------------------------

(***************************************************************************)
(* The transactions.                                                       *)
(***************************************************************************)
LEMMA OperatorActionsServe ==
  ASSUME PenaltyInv, NEW id \in DOMAIN nodeOperators,
         \/ ActivateNodeOperator(id)
         \/ DeactivateNodeOperator(id)
         \/ \E n \in Counts : SetNodeOperatorStakingLimit(id, n)
         \/ \E target \in Targets : UpdateTargetValidatorsLimits(id, TRUE, target)
         \/ UpdateTargetValidatorsLimits(id, FALSE, 0)
  PROVE  AllServe
<1> DEFINE op == nodeOperators[id]
<1>1. IsOperator(op) /\ DOMAIN op = Fields
  BY OneOperatorServes
<1> HIDE DEF op
<1>2. CASE ActivateNodeOperator(id)
  <2>1. SamePenalty(op, [op EXCEPT !.active = TRUE])
    BY <1>1 DEF SamePenalty, Fields
  <2>2. StoreOne(id, [op EXCEPT !.active = TRUE])
    BY <1>2 DEF ActivateNodeOperator, op
  <2>3. QED
    BY <1>1, <2>1, <2>2, SamePenaltyServes, StoreOneServes DEF op
<1>3. CASE DeactivateNodeOperator(id)
  <2> DEFINE new     == [op EXCEPT !.active = FALSE]
             trimmed == VettedUpTo(new, new.deposited)
  <2>1. SamePenalty(op, new)
    BY <1>1 DEF SamePenalty, Fields
  <2>2. SamePenalty(new, trimmed)
    BY <2>1, VettedUpToKeepsPenalty DEF SamePenalty
  <2>3. StoreOne(id, Limited(trimmed)) \/ StoreOne(id, new)
    BY <1>3 DEF DeactivateNodeOperator, op
  <2> HIDE DEF new, trimmed
  <2>4. SamePenalty(op, trimmed)
    BY <2>1, <2>2 DEF SamePenalty
  <2>5. Serves(op, Limited(trimmed)) /\ Serves(op, new)
    BY <1>1, <2>1, <2>4, SamePenaltyServes, LimitedKeepsServing
  <2>6. QED
    BY <2>3, <2>5, StoreOneServes DEF op
<1>4. CASE \E n \in Counts : SetNodeOperatorStakingLimit(id, n)
  <2>1. PICK n : StoreOne(id, Limited(Approved(op, n)))
    BY <1>4 DEF SetNodeOperatorStakingLimit, op
  <2>2. Serves(op, Limited(Approved(op, n)))
    BY <1>1, ApprovedKeepsPenalty, LimitedKeepsServing
  <2>3. QED
    BY <2>1, <2>2, StoreOneServes DEF op
<1>5. CASE \/ \E target \in Targets : UpdateTargetValidatorsLimits(id, TRUE, target)
           \/ UpdateTargetValidatorsLimits(id, FALSE, 0)
  <2>1. PICK isActive, target :
          StoreOne(id, Limited([op EXCEPT !.targetActive = isActive, !.target = target]))
    BY <1>5 DEF UpdateTargetValidatorsLimits, op
  <2>2. SamePenalty(op, [op EXCEPT !.targetActive = isActive, !.target = target])
    BY <1>1 DEF SamePenalty, Fields
  <2>3. Serves(op, Limited([op EXCEPT !.targetActive = isActive, !.target = target]))
    BY <1>1, <2>2, LimitedKeepsServing
  <2>4. QED
    BY <2>1, <2>3, StoreOneServes DEF op
<1>6. QED
  BY <1>2, <1>3, <1>4, <1>5

LEMMA KeyActionsServe ==
  ASSUME PenaltyInv, NEW id \in DOMAIN nodeOperators,
         \/ \E n \in Counts : AddSigningKeys(id, n)
         \/ \E from, n \in Counts : RemoveUnusedSigningKeys(id, from, n)
         \/ \E last \in DOMAIN nodeOperators : InvalidateReadyToDepositKeysRange(id, last)
  PROVE  AllServe
<1> DEFINE op == nodeOperators[id]
<1>1. IsOperator(op) /\ DOMAIN op = Fields
  BY OneOperatorServes
<1> HIDE DEF op
<1>2. CASE \E n \in Counts : AddSigningKeys(id, n)
  <2>1. PICK keys : StoreOne(id, [op EXCEPT !.keys = keys])
    BY <1>2 DEF AddSigningKeys, op
  <2>2. SamePenalty(op, [op EXCEPT !.keys = keys])
    BY <1>1 DEF SamePenalty, Fields
  <2>3. QED
    BY <1>1, <2>1, <2>2, SamePenaltyServes, StoreOneServes DEF op
<1>3. CASE \E from, n \in Counts : RemoveUnusedSigningKeys(id, from, n)
  <2>1. PICK from, n : StoreOne(id, Limited(Removed(op, from, n)))
    BY <1>3 DEF RemoveUnusedSigningKeys, op
  <2>2. Serves(op, Limited(Removed(op, from, n)))
    BY <1>1, RemovedKeepsPenalty, LimitedKeepsServing
  <2>3. QED
    BY <2>1, <2>2, StoreOneServes DEF op
<1>4. CASE \E last \in DOMAIN nodeOperators : InvalidateReadyToDepositKeysRange(id, last)
  <2>1. PICK ids : Store([i \in ids |-> Limited(Trimmed(nodeOperators[i]))])
    BY <1>4 DEF InvalidateReadyToDepositKeysRange
  <2>2. \A i \in DOMAIN nodeOperators :
          Serves(nodeOperators[i], Limited(Trimmed(nodeOperators[i])))
    BY OneOperatorServes, TrimmedKeepsPenalty, LimitedKeepsServing
  <2> DEFINE changed == [i \in ids |-> Limited(Trimmed(nodeOperators[i]))]
  <2>3. \A i \in DOMAIN nodeOperators \cap DOMAIN changed :
          Serves(nodeOperators[i], changed[i])
    BY <2>2
  <2> HIDE DEF changed
  <2>4. QED
    BY <2>1, <2>3, StoreServes DEF changed
<1>5. QED
  BY <1>2, <1>3, <1>4

LEMMA CountsAreNaturals == Counts \subseteq Nat
BY NodeOperatorsRegistryAssumption DEF Counts

LEMMA PenaltyActionsServe ==
  ASSUME PenaltyInv, NEW id \in DOMAIN nodeOperators,
         \/ \E exited, stuck \in Counts : UnsafeUpdateValidatorsCount(id, exited, stuck)
         \/ \E n \in Counts : UpdateRefundedValidatorsCount(id, n)
         \/ ClearNodeOperatorPenalty(id)
  PROVE  AllServe
<1> DEFINE op == nodeOperators[id]
<1>1. IsOperator(op) /\ Clock
  BY OneOperatorServes DEF PenaltyInv
<1> HIDE DEF op
<1>2. CASE \E exited, stuck \in Counts : UnsafeUpdateValidatorsCount(id, exited, stuck)
  <2>1. PICK exited, stuck \in Counts : StoreOne(id, WithExited(WithStuck(op, stuck), exited))
    BY <1>2 DEF UnsafeUpdateValidatorsCount, op
  <2>2. stuck \in Nat
    BY CountsAreNaturals
  <2>3. Serves(op, WithStuck(op, stuck))
    BY <1>1, <2>2, WithStuckServes
  <2>4. Serves(op, WithExited(WithStuck(op, stuck), exited))
    BY <2>3, WithExitedServes
  <2>5. QED
    BY <2>1, <2>4, StoreOneServes DEF op
<1>3. CASE \E n \in Counts : UpdateRefundedValidatorsCount(id, n)
  <2>1. PICK n \in Counts :
          StoreOne(id, Limited([PenaltyEnd(op, op.stuck, n) EXCEPT !.refunded = n]))
    BY <1>3 DEF UpdateRefundedValidatorsCount, op
  <2>2. n \in Nat
    BY CountsAreNaturals
  <2>3. Serves(op, Limited([PenaltyEnd(op, op.stuck, n) EXCEPT !.refunded = n]))
    BY <1>1, <2>2, RefundedServes
  <2>4. QED
    BY <2>1, <2>3, StoreOneServes DEF op
<1>4. CASE ClearNodeOperatorPenalty(id)
  <2>1. /\ ~IsPenalized(op)
        /\ op.penaltyEnd # 0
        /\ StoreOne(id, Limited([op EXCEPT !.penaltyEnd = 0]))
    BY <1>4 DEF ClearNodeOperatorPenalty, op
  <2>2. Serves(op, Limited([op EXCEPT !.penaltyEnd = 0]))
    BY <1>1, <2>1, ClearingServes
  <2>3. QED
    BY <2>1, <2>2, StoreOneServes DEF op
<1>5. QED
  BY <1>2, <1>3, <1>4

LEMMA ReportsServe ==
  ASSUME PenaltyInv, NEW ids \in SUBSET DOMAIN nodeOperators, NEW counts \in [ids -> Counts],
         UpdateStuckValidatorsCount(counts) \/ UpdateExitedValidatorsCount(counts)
  PROVE  AllServe
<1>1. CASE UpdateStuckValidatorsCount(counts)
  <2> DEFINE changed == [id \in DOMAIN counts |-> WithStuck(nodeOperators[id], counts[id])]
  <2>1. Store(changed)
    BY <1>1 DEF UpdateStuckValidatorsCount
  <2>2. ASSUME NEW id \in DOMAIN nodeOperators \cap DOMAIN changed
        PROVE  Serves(nodeOperators[id], changed[id])
    <3>1. counts[id] \in Nat
      BY CountsAreNaturals
    <3>2. Serves(nodeOperators[id], WithStuck(nodeOperators[id], counts[id]))
      BY <3>1, OneOperatorServes, WithStuckServes DEF PenaltyInv
    <3>3. QED
      BY <3>2
  <2> HIDE DEF changed
  <2>3. QED
    BY <2>1, <2>2, StoreServes
<1>2. CASE UpdateExitedValidatorsCount(counts)
  <2> DEFINE changed == [id \in DOMAIN counts |-> WithExited(nodeOperators[id], counts[id])]
  <2>1. Store(changed)
    BY <1>2 DEF UpdateExitedValidatorsCount
  <2>2. ASSUME NEW id \in DOMAIN nodeOperators \cap DOMAIN changed
        PROVE  Serves(nodeOperators[id], changed[id])
    <3>1. Serves(nodeOperators[id], WithExited(nodeOperators[id], counts[id]))
      BY OneOperatorServes, IsOperatorServes, WithExitedServes
    <3>2. QED
      BY <3>1
  <2> HIDE DEF changed
  <2>3. QED
    BY <2>1, <2>2, StoreServes
<1>3. QED
  BY <1>1, <1>2

LEMMA ObtainDepositDataServes ==
  ASSUME PenaltyInv, NEW n, ObtainDepositData(n)
  PROVE  AllServe
<1>1. PICK ids, deposited :
        Store([id \in ids |-> Limited(WithDeposited(nodeOperators[id], deposited[id]))])
  <2> DEFINE after == Allocate(ActiveKeys, Capacities, n)
             ids   == {Candidates[i] : i \in {j \in DOMAIN after : after[j] # ActiveKeys[j]}}
             Index(id) == CHOOSE i \in DOMAIN after : Candidates[i] = id
             deposited == [id \in ids |-> nodeOperators[id].exited + after[Index(id)]]
  <2>1. Store([id \in ids |-> Limited(WithDeposited(nodeOperators[id],
                                        nodeOperators[id].exited + after[Index(id)]))])
    BY DEF ObtainDepositData
  <2>2. \A id \in ids : deposited[id] = nodeOperators[id].exited + after[Index(id)]
    OBVIOUS
  <2> HIDE DEF after, ids, Index, deposited
  <2>3. [id \in ids |-> Limited(WithDeposited(nodeOperators[id],
                                   nodeOperators[id].exited + after[Index(id)]))]
        = [id \in ids |-> Limited(WithDeposited(nodeOperators[id], deposited[id]))]
    BY <2>2
  <2>4. QED
    BY <2>1, <2>3, ZenonT(30)
<1> DEFINE changed == [id \in ids |-> Limited(WithDeposited(nodeOperators[id], deposited[id]))]
<1>2. \A id \in DOMAIN nodeOperators \cap DOMAIN changed :
        Serves(nodeOperators[id], changed[id])
  BY OneOperatorServes, WithDepositedKeepsPenalty, LimitedKeepsServing
<1>3. Store(changed)
  BY <1>1
<1> HIDE DEF changed
<1>4. QED
  BY <1>2, <1>3, StoreServes

------------------------------------------------------------------------------

LEMMA PenaltyInvInit == Init => PenaltyInv
<1> SUFFICES ASSUME Init PROVE PenaltyInv
  OBVIOUS
<1>1. Clock
  BY NodeOperatorsRegistryAssumption DEF Init, Clock
<1>2. DOMAIN nodeOperators = {} /\ nodeOperators \in Seq(Operators)
  BY DEF Init
<1>3. QED
  BY <1>1, <1>2 DEF PenaltyInv, AllOperators

LEMMA ClockStep ==
  ASSUME PenaltyInv, Next
  PROVE  Clock'
<1> USE DEF PenaltyInv, Clock
<1>1. CASE AddNodeOperator
  BY <1>1 DEF AddNodeOperator
<1>2. ASSUME NEW id \in DOMAIN nodeOperators,
             \/ ActivateNodeOperator(id)
             \/ DeactivateNodeOperator(id)
             \/ \E n \in Counts : SetNodeOperatorStakingLimit(id, n)
             \/ \E target \in Targets : UpdateTargetValidatorsLimits(id, TRUE, target)
             \/ UpdateTargetValidatorsLimits(id, FALSE, 0)
      PROVE  Clock'
  BY <1>2 DEF ActivateNodeOperator, DeactivateNodeOperator, SetNodeOperatorStakingLimit,
              UpdateTargetValidatorsLimits
<1>3. ASSUME NEW id \in DOMAIN nodeOperators,
             \/ \E n \in Counts : AddSigningKeys(id, n)
             \/ \E from, n \in Counts : RemoveUnusedSigningKeys(id, from, n)
             \/ \E last \in DOMAIN nodeOperators : InvalidateReadyToDepositKeysRange(id, last)
      PROVE  Clock'
  BY <1>3 DEF AddSigningKeys, RemoveUnusedSigningKeys, InvalidateReadyToDepositKeysRange
<1>4. ASSUME NEW id \in DOMAIN nodeOperators,
             \/ \E exited, stuck \in Counts : UnsafeUpdateValidatorsCount(id, exited, stuck)
             \/ \E n \in Counts : UpdateRefundedValidatorsCount(id, n)
             \/ ClearNodeOperatorPenalty(id)
      PROVE  Clock'
  BY <1>4 DEF UnsafeUpdateValidatorsCount, UpdateRefundedValidatorsCount,
              ClearNodeOperatorPenalty
<1>5. ASSUME NEW counts,
             UpdateStuckValidatorsCount(counts) \/ UpdateExitedValidatorsCount(counts)
      PROVE  Clock'
  BY <1>5 DEF UpdateStuckValidatorsCount, UpdateExitedValidatorsCount
<1>6. ASSUME NEW n, ObtainDepositData(n)
      PROVE  Clock'
  BY <1>6 DEF ObtainDepositData
<1>7. ASSUME NEW delay \in Delays, SetStuckPenaltyDelay(delay)
      PROVE  Clock'
  BY <1>7, NodeOperatorsRegistryAssumption DEF SetStuckPenaltyDelay
<1>8. CASE AdvanceClock
  BY <1>8 DEF AdvanceClock
<1>9. QED
  BY <1>1, <1>2, <1>3, <1>4, <1>5, <1>6, <1>7, <1>8 DEF Next

LEMMA NextServes ==
  ASSUME PenaltyInv, Next
  PROVE  AllServe
<1>1. CASE AddNodeOperator
  BY <1>1, AddServes DEF AddNodeOperator
<1>2. ASSUME NEW delay, SetStuckPenaltyDelay(delay)
      PROVE  AllServe
  BY <1>2, SameServes DEF SetStuckPenaltyDelay
<1>3. CASE AdvanceClock
  BY <1>3, SameServes DEF AdvanceClock
<1>4. QED
  BY <1>1, <1>2, <1>3, OperatorActionsServe, KeyActionsServe, PenaltyActionsServe,
     ReportsServe, ObtainDepositDataServes DEF Next

LEMMA PenaltyInvStep == PenaltyInv /\ [Next]_vars => PenaltyInv'
<1> SUFFICES ASSUME PenaltyInv, [Next]_vars PROVE PenaltyInv'
  OBVIOUS
<1>1. CASE Next
  BY <1>1, ClockStep, NextServes DEF PenaltyInv, AllServe
<1>2. CASE UNCHANGED vars
  <2>1. Clock'
    BY <1>2 DEF vars, PenaltyInv, Clock
  <2>2. AllServe
    BY <1>2, SameServes DEF vars
  <2>3. QED
    BY <2>1, <2>2 DEF PenaltyInv, AllServe
<1>3. QED
  BY <1>1, <1>2

LEMMA StepServes ==
  ASSUME PenaltyInv, Next, NEW id \in DOMAIN nodeOperators,
         ~IsPenaltyCleared(nodeOperators[id]), IsPenaltyCleared(nodeOperators[id])'
  PROVE  nodeOperators[id].penaltyEnd > 0 /\ now > nodeOperators[id].penaltyEnd
<1>1. Serves(nodeOperators[id], nodeOperators'[id])
  BY NextServes DEF AllServe
<1>2. ~Cleared(nodeOperators[id])
  BY OneOperatorServes, ClearedIsCleared DEF PenaltyInv
<1>3. Cleared(nodeOperators'[id])
  <2>1. IsOperator(nodeOperators'[id])
    BY <1>1 DEF Serves
  <2>2. QED
    BY <2>1 DEF IsPenaltyCleared, IsPenalized, Cleared, IsOperator
<1>4. QED
  BY <1>1, <1>2, <1>3 DEF Serves

(***************************************************************************)
(* A penalty is served: whatever reports, refunds, corrections and changes *)
(* of the delay come in between, no step ends a penalty before its delay.  *)
(***************************************************************************)
THEOREM PenaltyServed == Spec => PenaltyIsServed
<1>1. Init => PenaltyInv
  BY PenaltyInvInit
<1>2. PenaltyInv /\ [Next]_vars => PenaltyInv'
  BY PenaltyInvStep
<1>3. PenaltyInv /\ [Next]_vars =>
        [\A id \in DOMAIN nodeOperators :
           LET op == nodeOperators[id]
           IN  ~IsPenaltyCleared(op) /\ IsPenaltyCleared(nodeOperators[id])' =>
                 op.penaltyEnd > 0 /\ now > op.penaltyEnd]_vars
  BY StepServes
<1>4. QED
  BY <1>1, <1>2, <1>3, PTL DEF Spec, PenaltyIsServed

------------------------------------------------------------------------------

(***************************************************************************)
(* The invariant.  Limits is MaxValidators without the clock.  Sound says  *)
(* of an operator all but that its maximum is current, Good says that too. *)
(* An operator that is not active has nothing vetted that is not           *)
(* deposited, which is why there are no more candidates than active        *)
(* operators.                                                              *)
(***************************************************************************)
Limits(op) ==
  IF ~Cleared(op) THEN op.deposited
  ELSE IF op.targetActive
       THEN Max({op.deposited, Min({op.vetted, op.exited + op.target})})
       ELSE op.vetted

Stage(deposited, vetted, k) ==
  IF k <= deposited THEN "deposited" ELSE IF k <= vetted THEN "vetted" ELSE "added"

Solid(op) ==
  /\ op \in NodeOperator
  /\ op.exited + op.stuck <= op.deposited
  /\ op.refunded <= op.deposited
  /\ op.deposited <= op.vetted
  /\ op.vetted <= Len(op.keys)
  /\ Len(op.keys) <= UINT64_MAX
  /\ \A k \in 1..Len(op.keys) : op.keys[k] = Stage(op.deposited, op.vetted, k)

Sound(op) == Solid(op) /\ (op.active \/ op.vetted = op.deposited)

Good(op) == Sound(op) /\ op.max = Limits(op)

LEMMA TypeOfFields ==
  ASSUME NEW op \in NodeOperator
  PROVE  /\ op.active \in BOOLEAN /\ op.targetActive \in BOOLEAN
         /\ op.keys \in Seq(Stages) /\ Len(op.keys) \in Nat
         /\ op.vetted \in Nat /\ op.exited \in Nat /\ op.deposited \in Nat
         /\ op.stuck \in Nat /\ op.refunded \in Nat /\ op.penaltyEnd \in Nat
         /\ op.target \in Nat /\ op.max \in Nat
         /\ IsOperator(op)
<1>1. Counts \subseteq Nat
  BY NodeOperatorsRegistryAssumption DEF Counts
<1>2. DOMAIN op = Fields
  BY DEF NodeOperator, Fields
<1>3. /\ op.active \in BOOLEAN /\ op.targetActive \in BOOLEAN
      /\ op.keys \in Seq(Stages)
      /\ op.vetted \in Counts /\ op.exited \in Counts /\ op.deposited \in Counts
      /\ op.stuck \in Counts /\ op.refunded \in Counts /\ op.penaltyEnd \in Nat
      /\ op.target \in Counts /\ op.max \in Counts
  BY DEF NodeOperator
<1>4. Len(op.keys) \in Nat
  BY <1>3
<1>5. QED
  BY <1>1, <1>2, <1>3, <1>4 DEF IsOperator

LEMMA MaxOfTwo ==
  ASSUME NEW a \in Int, NEW b \in Int
  PROVE  Max({a, b}) = IF a < b THEN b ELSE a
BY DEF Max

LEMMA MinOfTwo ==
  ASSUME NEW a \in Int, NEW b \in Int
  PROVE  Min({a, b}) = IF b < a THEN b ELSE a
BY DEF Min

LEMMA LimitsValue ==
  ASSUME NEW op \in NodeOperator, op.deposited <= op.vetted
  PROVE  /\ Limits(op) \in Nat
         /\ op.deposited <= Limits(op)
         /\ Limits(op) <= op.vetted
         /\ Limits(op) = IF ~Cleared(op) THEN op.deposited
                         ELSE IF ~op.targetActive THEN op.vetted
                         ELSE IF op.vetted <= op.exited + op.target THEN op.vetted
                         ELSE IF op.deposited <= op.exited + op.target THEN op.exited + op.target
                         ELSE op.deposited
<1> DEFINE d == op.deposited
           v == op.vetted
           t == op.exited + op.target
<1>1. d \in Nat /\ v \in Nat /\ t \in Nat /\ d <= v /\ op.targetActive \in BOOLEAN
  BY TypeOfFields
<1>2. Limits(op) = IF ~Cleared(op) THEN d ELSE IF op.targetActive THEN Max({d, Min({v, t})}) ELSE v
  BY DEF Limits
<1> HIDE DEF d, v, t
<1>3. Min({v, t}) = IF t < v THEN t ELSE v
  BY <1>1, MinOfTwo
<1>4. Max({d, Min({v, t})}) = IF d < Min({v, t}) THEN Min({v, t}) ELSE d
  BY <1>1, <1>3, MaxOfTwo
<1>5. /\ Limits(op) \in Nat
      /\ d <= Limits(op)
      /\ Limits(op) <= v
      /\ Limits(op) = IF ~Cleared(op) THEN d
                      ELSE IF ~op.targetActive THEN v
                      ELSE IF v <= t THEN v
                      ELSE IF d <= t THEN t
                      ELSE d
  BY <1>1, <1>2, <1>3, <1>4
<1>6. QED
  BY <1>5 DEF d, v, t

LEMMA MaxValidatorsIsLimits ==
  ASSUME Clock, NEW op \in NodeOperator
  PROVE  MaxValidators(op) = Limits(op)
<1>1. IsPenaltyCleared(op) <=> Cleared(op)
  BY TypeOfFields, ClearedIsCleared
<1>2. QED
  BY <1>1 DEF MaxValidators, Limits

(***************************************************************************)
(* Two operators that differ in their maximum only.                        *)
(***************************************************************************)
SameButMax(op, new) ==
  /\ new.active = op.active /\ new.keys = op.keys /\ new.vetted = op.vetted
  /\ new.exited = op.exited /\ new.deposited = op.deposited
  /\ new.stuck = op.stuck /\ new.refunded = op.refunded /\ new.penaltyEnd = op.penaltyEnd
  /\ new.targetActive = op.targetActive /\ new.target = op.target

LEMMA LimitedIsGood ==
  ASSUME Clock, NEW op, Sound(op)
  PROVE  Good(Limited(op)) /\ SameButMax(op, Limited(op)) /\ Limited(op).max = Limits(op)
<1> DEFINE m == Limits(op)
           new == [op EXCEPT !.max = m]
<1>1. op \in NodeOperator /\ op.deposited <= op.vetted
  BY DEF Sound, Solid
<1>2. Limited(op) = new
  BY <1>1, MaxValidatorsIsLimits DEF Limited
<1>3. m \in Nat /\ m <= op.vetted /\ op.vetted \in Nat
  BY <1>1, LimitsValue, TypeOfFields
<1>4. m \in Counts
  BY <1>1, <1>3, NodeOperatorsRegistryAssumption, TypeOfFields DEF Sound, Solid, Counts
<1> HIDE DEF m
<1>5. new \in NodeOperator /\ SameButMax(op, new) /\ new.max = m
  BY <1>1, <1>4 DEF NodeOperator, SameButMax
<1> HIDE DEF new
<1>6. Sound(new)
  BY <1>5 DEF Sound, Solid, SameButMax
<1>7. Limits(new) = Limits(op)
  BY <1>5 DEF Limits, SameButMax, Cleared
<1>8. QED
  BY <1>2, <1>5, <1>6, <1>7 DEF Good, m

(***************************************************************************)
(* One operation on one operator keeps it sound.  SameCounts says which    *)
(* fields the operations on its keys leave alone.                          *)
(***************************************************************************)
SameCounts(op, new) ==
  /\ new.exited = op.exited /\ new.deposited = op.deposited
  /\ new.stuck = op.stuck /\ new.refunded = op.refunded /\ new.penaltyEnd = op.penaltyEnd
  /\ new.targetActive = op.targetActive /\ new.target = op.target

LEMMA ActiveChanged ==
  ASSUME NEW op, Good(op), NEW active \in BOOLEAN, active \/ op.vetted = op.deposited
  PROVE  /\ Good([op EXCEPT !.active = active])
         /\ [op EXCEPT !.active = active].active = active
         /\ [op EXCEPT !.active = active].keys = op.keys
         /\ [op EXCEPT !.active = active].max = op.max
         /\ SameCounts(op, [op EXCEPT !.active = active])
<1> DEFINE new == [op EXCEPT !.active = active]
<1>1. op \in NodeOperator
  BY DEF Good, Sound, Solid
<1>2. /\ new \in NodeOperator /\ new.active = active /\ SameCounts(op, new)
      /\ new.keys = op.keys /\ new.vetted = op.vetted /\ new.max = op.max
  BY <1>1 DEF NodeOperator, SameCounts
<1> HIDE DEF new
<1>3. Sound(new)
  BY <1>2 DEF Good, Sound, Solid, SameCounts
<1>4. Limits(new) = Limits(op)
  BY <1>2 DEF Limits, Cleared, SameCounts
<1>5. QED
  BY <1>2, <1>3, <1>4 DEF Good, new

LEMMA VettedUpToFields ==
  ASSUME NEW op \in NodeOperator, NEW n \in Counts
  PROVE  /\ VettedUpTo(op, n) \in NodeOperator
         /\ VettedUpTo(op, n).vetted = n
         /\ VettedUpTo(op, n).active = op.active
         /\ SameCounts(op, VettedUpTo(op, n))
         /\ Len(VettedUpTo(op, n).keys) = Len(op.keys)
         /\ \A k \in 1..Len(op.keys) : VettedUpTo(op, n).keys[k] =
              IF k > n /\ op.keys[k] = "vetted" THEN "added" ELSE op.keys[k]
<1> DEFINE old  == op.keys
           keys == [k \in DOMAIN old |-> IF k > n /\ old[k] = "vetted" THEN "added" ELSE old[k]]
           new  == [op EXCEPT !.vetted = n, !.keys = keys]
<1>1. old \in Seq(Stages) /\ DOMAIN op = Fields
  BY TypeOfFields DEF IsOperator
<1>2. VettedUpTo(op, n) = new
  BY <1>1 DEF VettedUpTo, Fields
<1> HIDE DEF old
<1>3. DOMAIN old = 1..Len(old) /\ Len(old) \in Nat /\ \A k \in 1..Len(old) : old[k] \in Stages
  BY <1>1
<1>4. keys \in Seq(Stages) /\ Len(keys) = Len(old)
      /\ \A k \in 1..Len(old) : keys[k] = IF k > n /\ old[k] = "vetted" THEN "added" ELSE old[k]
  <2>1. \A k \in DOMAIN old : (IF k > n /\ old[k] = "vetted" THEN "added" ELSE old[k]) \in Stages
    BY <1>3 DEF Stages
  <2>2. keys \in [1..Len(old) -> Stages]
    BY <1>3, <2>1
  <2>3. QED
    BY <1>3, <2>2
<1> HIDE DEF keys
<1>5. /\ new \in NodeOperator /\ new.vetted = n /\ new.active = op.active
      /\ SameCounts(op, new) /\ new.keys = keys
  BY <1>4 DEF NodeOperator, SameCounts
<1>6. QED
  BY <1>2, <1>4, <1>5 DEF old

LEMMA VettedUpToIsSolid ==
  ASSUME NEW op, Solid(op), NEW n \in op.deposited..op.vetted
  PROVE  Solid(VettedUpTo(op, n))
<1> DEFINE new == VettedUpTo(op, n)
<1>1. op \in NodeOperator
  BY DEF Solid
<1>2. /\ op.exited \in Nat /\ op.stuck \in Nat /\ op.deposited \in Nat /\ op.vetted \in Nat
      /\ op.refunded \in Nat /\ Len(op.keys) \in Nat
      /\ op.exited + op.stuck <= op.deposited /\ op.refunded <= op.deposited
      /\ op.deposited <= op.vetted /\ op.vetted <= Len(op.keys) /\ Len(op.keys) <= UINT64_MAX
      /\ \A k \in 1..Len(op.keys) : op.keys[k] = Stage(op.deposited, op.vetted, k)
  BY <1>1, TypeOfFields DEF Solid
<1>3. n \in Counts
  BY <1>2, NodeOperatorsRegistryAssumption DEF Counts
<1>4. /\ new \in NodeOperator /\ new.vetted = n /\ SameCounts(op, new) /\ Len(new.keys) = Len(op.keys)
      /\ \A k \in 1..Len(op.keys) : new.keys[k] =
           IF k > n /\ op.keys[k] = "vetted" THEN "added" ELSE op.keys[k]
  BY <1>1, <1>3, VettedUpToFields
<1> HIDE DEF new
<1>5. ASSUME NEW k \in 1..Len(op.keys)
      PROVE  new.keys[k] = Stage(op.deposited, n, k)
  BY <1>2, <1>4 DEF Stage
<1>6. QED
  BY <1>2, <1>4, <1>5 DEF Solid, SameCounts, new

LEMMA ApprovedIsSound ==
  ASSUME NEW op, Good(op), op.active, NEW n \in op.deposited..Len(op.keys)
  PROVE  /\ Sound(Approved(op, n))
         /\ Approved(op, n).active
         /\ SameCounts(op, Approved(op, n))
         /\ Len(Approved(op, n).keys) = Len(op.keys)
<1> DEFINE below == VettedUpTo(op, n)
           old   == below.keys
           keys  == [k \in DOMAIN old |-> IF op.deposited < k /\ k <= n THEN "vetted" ELSE old[k]]
           new   == [below EXCEPT !.keys = keys]
<1>1. op \in NodeOperator
  BY DEF Good, Sound, Solid
<1>2. /\ op.exited \in Nat /\ op.stuck \in Nat /\ op.deposited \in Nat /\ op.vetted \in Nat
      /\ op.refunded \in Nat /\ Len(op.keys) \in Nat
      /\ op.exited + op.stuck <= op.deposited /\ op.refunded <= op.deposited
      /\ op.deposited <= op.vetted /\ op.vetted <= Len(op.keys) /\ Len(op.keys) <= UINT64_MAX
      /\ \A k \in 1..Len(op.keys) : op.keys[k] = Stage(op.deposited, op.vetted, k)
  BY <1>1, TypeOfFields DEF Good, Sound, Solid
<1>3. n \in Counts
  BY <1>2, NodeOperatorsRegistryAssumption DEF Counts
<1>4. /\ below \in NodeOperator /\ below.vetted = n /\ below.active /\ SameCounts(op, below)
      /\ Len(old) = Len(op.keys)
      /\ \A k \in 1..Len(op.keys) : old[k] =
           IF k > n /\ op.keys[k] = "vetted" THEN "added" ELSE op.keys[k]
  BY <1>1, <1>3, VettedUpToFields
<1>5. old \in Seq(Stages) /\ DOMAIN below = Fields
  BY <1>4, TypeOfFields DEF IsOperator
<1>6. Approved(op, n) = new
  <2> HIDE DEF below
  <2> QED BY <1>5 DEF Approved, below, Fields
<1> HIDE DEF below, old
<1>7. DOMAIN old = 1..Len(op.keys) /\ \A k \in 1..Len(op.keys) : old[k] \in Stages
  BY <1>4, <1>5
<1>8. keys \in Seq(Stages) /\ Len(keys) = Len(op.keys)
      /\ \A k \in 1..Len(op.keys) : keys[k] = IF op.deposited < k /\ k <= n THEN "vetted" ELSE old[k]
  <2>1. keys \in [1..Len(op.keys) -> Stages]
    BY <1>7 DEF Stages
  <2>2. QED
    BY <1>2, <1>7, <2>1
<1> HIDE DEF keys
<1>9. /\ new \in NodeOperator /\ new.vetted = n /\ new.active
      /\ SameCounts(op, new) /\ new.keys = keys
  BY <1>4, <1>8 DEF NodeOperator, SameCounts
<1> HIDE DEF new
<1>10. ASSUME NEW k \in 1..Len(op.keys)
       PROVE  new.keys[k] = Stage(op.deposited, n, k)
  <2> DEFINE d == op.deposited
             v == op.vetted
  <2>1. k \in Nat /\ d \in Nat /\ v \in Nat /\ n \in Nat /\ d <= n
    BY <1>2
  <2>2. op.keys[k] = Stage(d, v, k)
    BY <1>2
  <2>3. old[k] = IF k > n /\ op.keys[k] = "vetted" THEN "added" ELSE op.keys[k]
    BY <1>4
  <2>4. new.keys[k] = IF d < k /\ k <= n THEN "vetted" ELSE old[k]
    BY <1>8, <1>9
  <2> HIDE DEF d, v
  <2>5. new.keys[k] = Stage(d, n, k)
    BY <2>1, <2>2, <2>3, <2>4 DEF Stage
  <2>6. QED
    BY <2>5 DEF d
<1>11. QED
  BY <1>2, <1>6, <1>8, <1>9, <1>10 DEF Sound, Solid, SameCounts

(***************************************************************************)
(* The operations on the counts and limits.                                *)
(***************************************************************************)
SameKeys(op, new) ==
  /\ new.active = op.active /\ new.keys = op.keys /\ new.vetted = op.vetted
  /\ new.deposited = op.deposited

LEMMA CountsChanged ==
  ASSUME NEW op, Sound(op), NEW new \in NodeOperator, SameKeys(op, new),
         new.exited + new.stuck <= op.deposited, new.refunded <= op.deposited
  PROVE  Sound(new)
BY DEF Sound, Solid, SameKeys

LEMMA LimitedAfter ==
  ASSUME Clock, NEW op, Sound(op), NEW new \in NodeOperator, SameKeys(op, new),
         new.exited + new.stuck <= op.deposited, new.refunded <= op.deposited
  PROVE  /\ Good(Limited(new)) /\ SameKeys(op, Limited(new))
         /\ Limited(new).exited = new.exited /\ Limited(new).stuck = new.stuck
         /\ Limited(new).max = Limits(new)
<1>1. Sound(new)
  BY CountsChanged
<1>2. Good(Limited(new)) /\ SameButMax(new, Limited(new)) /\ Limited(new).max = Limits(new)
  BY <1>1, LimitedIsGood
<1>3. QED
  BY <1>2 DEF SameKeys, SameButMax

LEMMA GoodFacts ==
  ASSUME NEW op, Good(op)
  PROVE  /\ op \in NodeOperator /\ Sound(op) /\ SameKeys(op, op)
         /\ op.active \in BOOLEAN /\ op.keys \in Seq(Stages)
         /\ Len(op.keys) \in Nat /\ op.vetted \in Nat /\ op.exited \in Nat /\ op.deposited \in Nat
         /\ op.stuck \in Nat /\ op.refunded \in Nat /\ op.penaltyEnd \in Nat
         /\ op.target \in Nat /\ op.max \in Nat
         /\ op.exited + op.stuck <= op.deposited /\ op.refunded <= op.deposited
         /\ op.deposited <= op.max /\ op.max <= op.vetted
         /\ op.vetted <= Len(op.keys) /\ Len(op.keys) <= UINT64_MAX
         /\ op.active \/ op.max = op.deposited
<1>1. op \in NodeOperator /\ op.deposited <= op.vetted /\ op.max = Limits(op) /\ Sound(op)
  BY DEF Good, Sound, Solid
<1>2. op.deposited <= op.max /\ op.max <= op.vetted
  BY <1>1, LimitsValue
<1>3. /\ op.active \in BOOLEAN /\ op.keys \in Seq(Stages)
      /\ Len(op.keys) \in Nat /\ op.vetted \in Nat /\ op.exited \in Nat /\ op.deposited \in Nat
      /\ op.stuck \in Nat /\ op.refunded \in Nat /\ op.penaltyEnd \in Nat
      /\ op.target \in Nat /\ op.max \in Nat
  BY <1>1, TypeOfFields
<1>4. /\ op.exited + op.stuck <= op.deposited /\ op.refunded <= op.deposited
      /\ op.vetted <= Len(op.keys) /\ Len(op.keys) <= UINT64_MAX
  BY <1>1 DEF Sound, Solid
<1>5. op.active \/ op.max = op.deposited
  BY <1>1, <1>2, <1>3 DEF Sound
<1>6. QED
  BY <1>1, <1>2, <1>3, <1>4, <1>5 DEF SameKeys

LEMMA TargetIsGood ==
  ASSUME Clock, NEW op, Good(op), NEW isActive \in BOOLEAN, NEW target \in Counts, NEW new,
         new = Limited([op EXCEPT !.targetActive = isActive, !.target = target])
  PROVE  Good(new) /\ SameKeys(op, new) /\ new.exited = op.exited
<1> DEFINE changed == [op EXCEPT !.targetActive = isActive, !.target = target]
<1>1. op \in NodeOperator /\ Sound(op)
      /\ op.exited + op.stuck <= op.deposited /\ op.refunded <= op.deposited
  BY GoodFacts
<1>2. /\ changed \in NodeOperator /\ SameKeys(op, changed)
      /\ changed.exited = op.exited /\ changed.stuck = op.stuck /\ changed.refunded = op.refunded
  BY <1>1 DEF NodeOperator, SameKeys
<1> HIDE DEF changed
<1>3. changed.exited + changed.stuck <= op.deposited /\ changed.refunded <= op.deposited
  BY <1>1, <1>2
<1>4. QED
  BY <1>1, <1>2, <1>3, LimitedAfter DEF changed

LEMMA PenaltyEndFields ==
  ASSUME Clock, NEW op \in NodeOperator, NEW stuck, NEW refunded
  PROVE  /\ PenaltyEnd(op, stuck, refunded) \in NodeOperator
         /\ SameKeys(op, PenaltyEnd(op, stuck, refunded))
         /\ PenaltyEnd(op, stuck, refunded).exited = op.exited
         /\ PenaltyEnd(op, stuck, refunded).stuck = op.stuck
         /\ PenaltyEnd(op, stuck, refunded).refunded = op.refunded
         /\ PenaltyEnd(op, stuck, refunded).targetActive = op.targetActive
         /\ PenaltyEnd(op, stuck, refunded).target = op.target
         /\ PenaltyEnd(op, stuck, refunded).penaltyEnd # 0 \/ PenaltyEnd(op, stuck, refunded) = op
<1> DEFINE e == now + stuckPenaltyDelay
<1>1. e \in Nat /\ e # 0
  BY DEF Clock
<1> HIDE DEF e
<1>2. PenaltyEnd(op, stuck, refunded) = [op EXCEPT !.penaltyEnd = e]
      \/ PenaltyEnd(op, stuck, refunded) = op
  BY DEF PenaltyEnd, e
<1>3. CASE PenaltyEnd(op, stuck, refunded) = op
  BY <1>3 DEF SameKeys
<1>4. CASE PenaltyEnd(op, stuck, refunded) = [op EXCEPT !.penaltyEnd = e]
  BY <1>1, <1>4 DEF NodeOperator, SameKeys
<1>5. QED
  BY <1>2, <1>3, <1>4

LEMMA WithStuckIsGood ==
  ASSUME Clock, NEW op, Good(op), NEW n \in Counts, StuckInRange(op, n), NEW new,
         new = WithStuck(op, n)
  PROVE  Good(new) /\ SameKeys(op, new) /\ new.exited = op.exited /\ new.stuck = n
<1>1. CASE n = op.stuck
  <2>1. new = op
    BY <1>1 DEF WithStuck
  <2>2. QED
    BY <1>1, <2>1 DEF SameKeys
<1>2. CASE n # op.stuck
  <2> DEFINE ended == PenaltyEnd(op, n, op.refunded)
             changed == [ended EXCEPT !.stuck = n]
  <2>1. /\ op \in NodeOperator /\ Sound(op) /\ op.refunded <= op.deposited
        /\ op.exited \in Nat /\ op.deposited \in Nat
    BY GoodFacts
  <2>2. n \in Nat /\ op.exited + n <= op.deposited
    BY <1>2, <2>1, CountsAreNaturals DEF StuckInRange
  <2>3. ended \in NodeOperator /\ SameKeys(op, ended) /\ ended.exited = op.exited
        /\ ended.refunded = op.refunded
    BY <2>1, PenaltyEndFields
  <2> HIDE DEF ended
  <2>4. /\ changed \in NodeOperator /\ SameKeys(op, changed)
        /\ changed.exited = op.exited /\ changed.stuck = n /\ changed.refunded = op.refunded
    BY <2>3 DEF NodeOperator, SameKeys
  <2>5. new = Limited(changed)
    BY <1>2 DEF WithStuck, ended
  <2> HIDE DEF changed
  <2>6. changed.exited + changed.stuck <= op.deposited /\ changed.refunded <= op.deposited
    BY <2>1, <2>2, <2>4
  <2>7. Good(new) /\ SameKeys(op, new) /\ new.exited = changed.exited /\ new.stuck = changed.stuck
    BY <2>1, <2>4, <2>5, <2>6, LimitedAfter
  <2>8. QED
    BY <2>4, <2>7
<1>3. QED
  BY <1>1, <1>2

LEMMA WithExitedIsGood ==
  ASSUME Clock, NEW op, Good(op), NEW n \in Counts, NEW allowDecrease,
         ExitedInRange(op, n, allowDecrease), NEW new,
         new = WithExited(op, n)
  PROVE  Good(new) /\ SameKeys(op, new) /\ new.exited = n
<1>1. CASE n = op.exited
  <2>1. new = op
    BY <1>1 DEF WithExited
  <2>2. QED
    BY <1>1, <2>1 DEF SameKeys
<1>2. CASE n # op.exited
  <2> DEFINE changed == [op EXCEPT !.exited = n]
  <2>1. /\ op \in NodeOperator /\ Sound(op) /\ op.refunded <= op.deposited
        /\ op.stuck \in Nat /\ op.deposited \in Nat
    BY GoodFacts
  <2>2. n \in Nat /\ n + op.stuck <= op.deposited
    BY <1>2, <2>1, CountsAreNaturals DEF ExitedInRange
  <2>3. /\ changed \in NodeOperator /\ SameKeys(op, changed)
        /\ changed.exited = n /\ changed.stuck = op.stuck /\ changed.refunded = op.refunded
    BY <2>1 DEF NodeOperator, SameKeys
  <2>4. new = Limited(changed)
    BY <1>2 DEF WithExited
  <2> HIDE DEF changed
  <2>5. changed.exited + changed.stuck <= op.deposited /\ changed.refunded <= op.deposited
    BY <2>1, <2>2, <2>3
  <2>6. Good(new) /\ SameKeys(op, new) /\ new.exited = changed.exited
    BY <2>1, <2>3, <2>4, <2>5, LimitedAfter
  <2>7. QED
    BY <2>3, <2>6
<1>3. QED
  BY <1>1, <1>2

(***************************************************************************)
(* A refund never raises the limit: where the penalty was not cleared      *)
(* before, its delay is still to come.                                     *)
(***************************************************************************)
LEMMA RefundedIsGood ==
  ASSUME Clock, NEW op, Good(op), NEW n \in Counts, n <= op.deposited, NEW new,
         new = Limited([PenaltyEnd(op, op.stuck, n) EXCEPT !.refunded = n])
  PROVE  Good(new) /\ SameKeys(op, new) /\ new.exited = op.exited /\ new.max <= op.max
<1> DEFINE ended == PenaltyEnd(op, op.stuck, n)
           changed == [ended EXCEPT !.refunded = n]
<1>1. /\ op \in NodeOperator /\ Sound(op) /\ op.exited + op.stuck <= op.deposited
      /\ op.exited \in Nat /\ op.deposited \in Nat /\ op.stuck \in Nat /\ op.refunded \in Nat
      /\ op.max \in Nat /\ op.deposited <= op.max /\ op.max = Limits(op)
  BY GoodFacts DEF Good
<1>2. ended \in NodeOperator /\ SameKeys(op, ended) /\ ended.exited = op.exited
      /\ ended.stuck = op.stuck /\ ended.targetActive = op.targetActive /\ ended.target = op.target
  BY <1>1, PenaltyEndFields
<1>3. n \in Nat
  BY CountsAreNaturals
<1>4. Cleared(changed) => Cleared(op)
  <2>1. op.stuck > op.refunded /\ op.stuck <= n => ended.penaltyEnd # 0
    BY <1>1 DEF PenaltyEnd, Clock, NodeOperator
  <2>2. ~(op.stuck > op.refunded /\ op.stuck <= n) => ended = op
    BY DEF PenaltyEnd
  <2>3. changed.penaltyEnd = ended.penaltyEnd /\ changed.stuck = op.stuck /\ changed.refunded = n
    <3> HIDE DEF ended
    <3> QED BY <1>2 DEF NodeOperator
  <2> HIDE DEF ended, changed
  <2>4. CASE op.stuck > op.refunded /\ op.stuck <= n
    BY <2>1, <2>3, <2>4 DEF Cleared
  <2>5. CASE ~(op.stuck > op.refunded /\ op.stuck <= n)
    <3>1. changed.penaltyEnd = op.penaltyEnd
      BY <2>2, <2>3, <2>5
    <3>2. QED
      BY <1>1, <1>3, <2>3, <2>5, <3>1 DEF Cleared
  <2>6. QED
    BY <2>4, <2>5
<1> HIDE DEF ended
<1>5. /\ changed \in NodeOperator /\ SameKeys(op, changed)
      /\ changed.exited = op.exited /\ changed.stuck = op.stuck /\ changed.refunded = n
      /\ changed.targetActive = op.targetActive /\ changed.target = op.target
  BY <1>2 DEF NodeOperator, SameKeys
<1>6. new = Limited(changed)
  BY DEF ended
<1> HIDE DEF changed
<1>7. changed.exited + changed.stuck <= op.deposited /\ changed.refunded <= op.deposited
  BY <1>1, <1>5
<1>8. Good(new) /\ SameKeys(op, new) /\ new.exited = changed.exited /\ new.max = Limits(changed)
  BY <1>1, <1>5, <1>6, <1>7, LimitedAfter
<1>9. Limits(changed) <= Limits(op)
  <2>1. CASE Cleared(changed)
    <3>1. Limits(changed) = Limits(op)
      BY <1>4, <1>5, <2>1 DEF Limits, SameKeys
    <3>2. QED
      BY <1>1, <3>1
  <2>2. CASE ~Cleared(changed)
    BY <1>1, <1>5, <2>2 DEF Limits, SameKeys
  <2>3. QED
    BY <2>1, <2>2
<1>10. QED
  BY <1>1, <1>5, <1>8, <1>9

LEMMA ClearedIsGood ==
  ASSUME Clock, NEW op, Good(op), NEW new, new = Limited([op EXCEPT !.penaltyEnd = 0])
  PROVE  Good(new) /\ SameKeys(op, new) /\ new.exited = op.exited
<1> DEFINE changed == [op EXCEPT !.penaltyEnd = 0]
<1>1. op \in NodeOperator /\ Sound(op)
      /\ op.exited + op.stuck <= op.deposited /\ op.refunded <= op.deposited
  BY GoodFacts
<1>2. /\ changed \in NodeOperator /\ SameKeys(op, changed)
      /\ changed.exited = op.exited /\ changed.stuck = op.stuck /\ changed.refunded = op.refunded
  BY <1>1 DEF NodeOperator, SameKeys
<1> HIDE DEF changed
<1>3. changed.exited + changed.stuck <= op.deposited /\ changed.refunded <= op.deposited
  BY <1>1, <1>2
<1>4. Good(new) /\ SameKeys(op, new) /\ new.exited = changed.exited
  BY <1>1, <1>2, <1>3, LimitedAfter DEF changed
<1>5. QED
  BY <1>2, <1>4

(***************************************************************************)
(* Operations on the keys.                                                 *)
(***************************************************************************)
LEMMA DeactivatedIsGood ==
  ASSUME Clock, NEW op, Good(op), NEW new,
         new = Limited(VettedUpTo([op EXCEPT !.active = FALSE], op.deposited))
  PROVE  /\ Good(new) /\ new.active = FALSE /\ new.exited = op.exited
         /\ new.deposited = op.deposited /\ Len(new.keys) = Len(op.keys)
<1> DEFINE off == [op EXCEPT !.active = FALSE]
           trimmed == VettedUpTo(off, op.deposited)
<1>1. op \in NodeOperator /\ Sound(op)
  BY GoodFacts
<1>2. /\ off \in NodeOperator /\ off.active = FALSE /\ SameCounts(op, off)
      /\ off.keys = op.keys /\ off.vetted = op.vetted
  BY <1>1 DEF NodeOperator, SameCounts
<1>3. op.deposited \in Counts /\ off.deposited = op.deposited
  BY <1>1, <1>2 DEF NodeOperator, SameCounts
<1> HIDE DEF off
<1>4. Solid(off)
  BY <1>1, <1>2 DEF Sound, Solid, SameCounts
<1>5. /\ trimmed.vetted = op.deposited /\ trimmed.active = FALSE
      /\ SameCounts(off, trimmed) /\ Len(trimmed.keys) = Len(op.keys)
  BY <1>2, <1>3, VettedUpToFields
<1>6. op.deposited \in off.deposited..off.vetted
  BY <1>1, <1>2, <1>3, TypeOfFields DEF Sound, Solid
<1>7. Solid(trimmed)
  BY <1>4, <1>6, VettedUpToIsSolid
<1>8. new = Limited(trimmed)
  BY DEF off
<1> HIDE DEF trimmed
<1>9. Sound(trimmed) /\ trimmed.deposited = op.deposited /\ trimmed.exited = op.exited
  BY <1>2, <1>3, <1>5, <1>7 DEF Sound, SameCounts
<1>10. Good(new) /\ SameButMax(trimmed, new)
  BY <1>8, <1>9, LimitedIsGood
<1>11. QED
  BY <1>5, <1>9, <1>10 DEF SameButMax

LEMMA KeysAddedIsGood ==
  ASSUME NEW op, Good(op), NEW n \in Counts, Len(op.keys) + n <= UINT64_MAX, NEW new,
         new = [op EXCEPT !.keys = @ \o [k \in 1..n |-> "added"]]
  PROVE  /\ Good(new) /\ new.active = op.active /\ new.exited = op.exited
         /\ new.deposited = op.deposited /\ Len(new.keys) = Len(op.keys) + n /\ new.max = op.max
<1> DEFINE old  == op.keys
           more == [k \in 1..n |-> "added"]
           keys == old \o more
<1>1. /\ op \in NodeOperator /\ Sound(op) /\ old \in Seq(Stages) /\ Len(old) \in Nat
      /\ op.deposited \in Nat /\ op.vetted \in Nat /\ op.deposited <= op.vetted
      /\ op.vetted <= Len(old) /\ DOMAIN op = Fields
  BY GoodFacts, TypeOfFields DEF Sound, Solid, IsOperator
<1>2. n \in Nat
  BY CountsAreNaturals
<1>3. more \in Seq(Stages) /\ Len(more) = n /\ \A k \in 1..n : more[k] = "added"
  BY <1>2 DEF Stages
<1>4. new = [op EXCEPT !.keys = keys]
  BY <1>1 DEF Fields
<1> HIDE DEF more, old
<1>5. keys \in Seq(Stages) /\ Len(keys) = Len(old) + n
      /\ \A k \in 1..(Len(old) + n) : keys[k] = IF k <= Len(old) THEN old[k] ELSE more[k - Len(old)]
  BY <1>1, <1>2, <1>3
<1> HIDE DEF keys
<1>6. /\ new \in NodeOperator /\ SameCounts(op, new) /\ new.keys = keys
      /\ new.active = op.active /\ new.vetted = op.vetted /\ new.max = op.max
  BY <1>1, <1>4, <1>5 DEF NodeOperator, SameCounts
<1>7. ASSUME NEW k \in 1..(Len(old) + n)
      PROVE  keys[k] = Stage(op.deposited, op.vetted, k)
  <2>1. CASE k <= Len(old)
    <3>1. k \in 1..Len(old)
      BY <1>1, <1>2, <2>1
    <3>2. old[k] = Stage(op.deposited, op.vetted, k)
      BY <1>1, <3>1 DEF Sound, Solid, old
    <3>3. QED
      BY <1>5, <2>1, <3>2
  <2>2. CASE ~(k <= Len(old))
    <3>1. k - Len(old) \in 1..n /\ ~(k <= op.deposited) /\ ~(k <= op.vetted)
      BY <1>1, <1>2, <2>2
    <3>2. keys[k] = "added"
      BY <1>3, <1>5, <2>2, <3>1
    <3>3. QED
      BY <3>1, <3>2 DEF Stage
  <2>3. QED
    BY <2>1, <2>2
<1>8. Len(keys) <= UINT64_MAX /\ op.vetted <= Len(keys)
  BY <1>1, <1>2, <1>5 DEF old
<1>9. Sound(new)
  BY <1>1, <1>5, <1>6, <1>7, <1>8 DEF Sound, Solid, SameCounts
<1>10. Limits(new) = Limits(op)
  BY <1>6 DEF Limits, Cleared, SameCounts
<1>11. QED
  BY <1>5, <1>6, <1>9, <1>10 DEF Good, SameCounts, old

LEMMA TrimmedIsGood ==
  ASSUME Clock, NEW op, Good(op), NEW new, new = Limited(Trimmed(op))
  PROVE  /\ Good(new) /\ new.active = op.active /\ new.exited = op.exited
         /\ new.deposited = op.deposited /\ Len(new.keys) = op.deposited
<1> DEFINE old  == op.keys
           keys == SubSeq(old, 1, op.deposited)
           less == [op EXCEPT !.keys = keys, !.vetted = op.deposited]
<1>1. /\ op \in NodeOperator /\ Sound(op) /\ old \in Seq(Stages) /\ Len(old) \in Nat
      /\ op.deposited \in Nat /\ op.vetted \in Nat /\ op.deposited <= op.vetted
      /\ op.vetted <= Len(old) /\ DOMAIN op = Fields /\ Len(old) <= UINT64_MAX
  BY GoodFacts, TypeOfFields DEF Sound, Solid, IsOperator
<1>2. Trimmed(op) = less
  BY <1>1 DEF Trimmed, Fields
<1> HIDE DEF old
<1>3. op.deposited \in 0..Len(old) /\ op.deposited \in Counts
  BY <1>1, NodeOperatorsRegistryAssumption DEF Counts
<1>4. keys \in Seq(Stages) /\ Len(keys) = op.deposited
      /\ \A k \in 1..op.deposited : keys[k] = old[k]
  BY <1>1, <1>3
<1> HIDE DEF keys
<1>5. /\ less \in NodeOperator /\ SameCounts(op, less) /\ less.keys = keys
      /\ less.active = op.active /\ less.vetted = op.deposited
  BY <1>1, <1>3, <1>4 DEF NodeOperator, SameCounts
<1>6. ASSUME NEW k \in 1..op.deposited
      PROVE  keys[k] = Stage(op.deposited, op.deposited, k)
  <2>1. k \in 1..Len(old)
    BY <1>1
  <2>2. old[k] = Stage(op.deposited, op.vetted, k)
    BY <1>1, <2>1 DEF Sound, Solid, old
  <2>3. QED
    BY <1>1, <1>4, <2>2 DEF Stage
<1> HIDE DEF less
<1>7. Sound(less)
  <2>1. less.deposited = op.deposited /\ less.vetted = op.deposited /\ Len(less.keys) = op.deposited
    BY <1>4, <1>5 DEF SameCounts
  <2>2. \A k \in 1..Len(less.keys) : less.keys[k] = Stage(less.deposited, less.vetted, k)
    BY <1>5, <1>6, <2>1
  <2>3. op.deposited <= op.deposited /\ op.deposited <= UINT64_MAX
    BY <1>1, <1>3 DEF Counts
  <2>4. QED
    BY <1>1, <1>5, <2>1, <2>2, <2>3 DEF Sound, Solid, SameCounts
<1>8. Good(new) /\ SameButMax(less, new)
  BY <1>2, <1>7, LimitedIsGood
<1>9. QED
  BY <1>4, <1>5, <1>8 DEF SameButMax, SameCounts

(***************************************************************************)
(* A deposit uses up keys below the maximum, which it leaves as it is.     *)
(***************************************************************************)
LEMMA DepositedIsGood ==
  ASSUME Clock, NEW op, Good(op), NEW n \in op.deposited..op.max, NEW new,
         new = Limited(WithDeposited(op, n))
  PROVE  /\ Good(new) /\ new.active = op.active /\ new.exited = op.exited
         /\ new.deposited = n /\ Len(new.keys) = Len(op.keys) /\ new.max = op.max
<1> DEFINE old  == op.keys
           keys == [k \in DOMAIN old |-> IF op.deposited < k /\ k <= n THEN "deposited" ELSE old[k]]
           used == [op EXCEPT !.deposited = n, !.keys = keys]
<1>1. /\ op \in NodeOperator /\ Sound(op) /\ old \in Seq(Stages) /\ Len(old) \in Nat
      /\ op.exited \in Nat /\ op.stuck \in Nat /\ op.refunded \in Nat /\ op.target \in Nat
      /\ op.deposited \in Nat /\ op.vetted \in Nat /\ op.max \in Nat
      /\ op.exited + op.stuck <= op.deposited /\ op.refunded <= op.deposited
      /\ op.deposited <= op.max /\ op.max <= op.vetted
      /\ op.vetted <= Len(old) /\ Len(old) <= UINT64_MAX
      /\ op.active \/ op.max = op.deposited
  BY GoodFacts
<1>2. DOMAIN op = Fields /\ op.max = Limits(op)
  BY <1>1, TypeOfFields DEF IsOperator, Good
<1>3. WithDeposited(op, n) = used
  BY <1>2 DEF WithDeposited, Fields
<1>4. n \in Counts /\ n \in Nat /\ op.deposited <= n /\ n <= op.max
  BY <1>1, NodeOperatorsRegistryAssumption DEF Counts
<1> HIDE DEF old
<1>5. keys \in Seq(Stages) /\ Len(keys) = Len(old)
      /\ \A k \in 1..Len(old) : keys[k] = IF op.deposited < k /\ k <= n THEN "deposited" ELSE old[k]
  <2>1. DOMAIN old = 1..Len(old) /\ \A k \in 1..Len(old) : old[k] \in Stages
    BY <1>1
  <2>2. keys \in [1..Len(old) -> Stages]
    BY <2>1 DEF Stages
  <2>3. QED
    BY <1>1, <2>1, <2>2
<1> HIDE DEF keys
<1>6. /\ used \in NodeOperator /\ used.keys = keys /\ used.deposited = n
      /\ used.active = op.active /\ used.vetted = op.vetted /\ used.exited = op.exited
      /\ used.stuck = op.stuck /\ used.refunded = op.refunded /\ used.penaltyEnd = op.penaltyEnd
      /\ used.targetActive = op.targetActive /\ used.target = op.target
  BY <1>1, <1>4, <1>5 DEF NodeOperator
<1> HIDE DEF used
<1>7. ASSUME NEW k \in 1..Len(old)
      PROVE  keys[k] = Stage(n, op.vetted, k)
  <2>1. old[k] = Stage(op.deposited, op.vetted, k)
    BY <1>1 DEF Sound, Solid, old
  <2>2. QED
    BY <1>1, <1>4, <1>5, <2>1 DEF Stage
<1>8. Sound(used)
  <2>1. used.exited + used.stuck <= n /\ used.refunded <= n /\ n <= used.vetted
    BY <1>1, <1>4, <1>6
  <2>2. used.active \/ used.vetted = used.deposited
    BY <1>1, <1>4, <1>6 DEF Sound
  <2>3. \A k \in 1..Len(used.keys) : used.keys[k] = Stage(used.deposited, used.vetted, k)
    BY <1>5, <1>6, <1>7
  <2>4. QED
    BY <1>1, <1>5, <1>6, <2>1, <2>2, <2>3 DEF Sound, Solid
<1>9. Limits(used) = op.max
  <2>1. /\ Limits(op) = IF ~Cleared(op) THEN op.deposited
                        ELSE IF ~op.targetActive THEN op.vetted
                        ELSE IF op.vetted <= op.exited + op.target THEN op.vetted
                        ELSE IF op.deposited <= op.exited + op.target THEN op.exited + op.target
                        ELSE op.deposited
    BY <1>1, LimitsValue DEF Sound, Solid
  <2>2. /\ Limits(used) = IF ~Cleared(used) THEN n
                          ELSE IF ~op.targetActive THEN op.vetted
                          ELSE IF op.vetted <= op.exited + op.target THEN op.vetted
                          ELSE IF n <= op.exited + op.target THEN op.exited + op.target
                          ELSE n
    BY <1>6, <1>8, LimitsValue DEF Sound, Solid
  <2>3. Cleared(used) <=> Cleared(op)
    BY <1>6 DEF Cleared
  <2>4. QED
    BY <1>1, <1>2, <1>4, <2>1, <2>2, <2>3
<1>10. Good(new) /\ SameButMax(used, new) /\ new.max = op.max
  BY <1>3, <1>8, <1>9, LimitedIsGood
<1>11. QED
  BY <1>5, <1>6, <1>10 DEF SameButMax, old

(***************************************************************************)
(* Removal.  Each round takes one key away and moves the last key into the *)
(* gap: in the end the keys up to "from" are as they were, and the others  *)
(* came from behind it.                                                    *)
(***************************************************************************)
Closed(rest, i) == SubSeq([rest EXCEPT ![i] = rest[Len(rest)]], 1, Len(rest) - 1)

LEMMA ClosedFacts ==
  ASSUME NEW rest \in Seq(Stages), NEW i
  PROVE  /\ Closed(rest, i) \in Seq(Stages)
         /\ Len(rest) \in Nat
         /\ Len(rest) > 0 =>
              /\ Len(Closed(rest, i)) = Len(rest) - 1
              /\ \A k \in 1..(Len(rest) - 1) :
                   Closed(rest, i)[k] = IF k = i THEN rest[Len(rest)] ELSE rest[k]
<1> DEFINE m == Len(rest)
           moved == [rest EXCEPT ![i] = rest[m]]
<1>1. m \in Nat /\ DOMAIN rest = 1..m /\ rest \in [1..m -> Stages]
  OBVIOUS
<1>2. Closed(rest, i) = SubSeq(moved, 1, m - 1)
  BY DEF Closed
<1> HIDE DEF m
<1>3. CASE m = 0
  <2>1. Closed(rest, i) = <<>>
    <3>1. moved = rest /\ rest = <<>>
      BY <1>1, <1>3
    <3>2. QED
      BY <1>2, <1>3, <3>1
  <2>2. QED
    BY <1>3, <2>1 DEF m
<1>4. CASE m > 0
  <2>1. m \in 1..m /\ rest[m] \in Stages
    BY <1>1, <1>4
  <2>2. moved \in [1..m -> Stages]
        /\ \A k \in 1..m : moved[k] = IF k = i THEN rest[m] ELSE rest[k]
    BY <1>1, <2>1
  <2>3. moved \in Seq(Stages) /\ Len(moved) = m
    BY <1>1, <2>2
  <2> HIDE DEF moved
  <2>4. m - 1 \in 0..m /\ 1..(m - 1) \subseteq 1..m
    BY <1>1, <1>4
  <2>5. SubSeq(moved, 1, m - 1) \in Seq(Stages) /\ Len(SubSeq(moved, 1, m - 1)) = m - 1
        /\ \A k \in 1..(m - 1) : SubSeq(moved, 1, m - 1)[k] = moved[k]
    BY <2>3, <2>4
  <2>6. QED
    BY <1>1, <1>2, <2>2, <2>4, <2>5 DEF m
<1>5. QED
  BY <1>1, <1>3, <1>4

RemovalRounds(from, n) ==
  [pair \in (1..n) \X Seq(Stages) |-> Closed(pair[2], from + n + 1 - pair[1])]

LEMMA RemovalHasTrace ==
  ASSUME NEW keys \in Seq(Stages), NEW from \in Nat, NEW n \in Nat
  PROVE  HasFoldTrace(n, Seq(Stages), keys, RemovalRounds(from, n), KeysRemoved(keys, from, n))
<1> DEFINE V == Seq(Stages)
           S == 1..n
           F == RemovalRounds(from, n)
           body(h) == [s \in SUBSET S |-> IF s = {} THEN keys
                                          ELSE Closed(h[s \ {Max(s)}], from + n + 1 - Max(s))]
<1>1. F \in [S \X V -> V] /\ \A i \in S, rest \in V : F[<<i, rest>>] = Closed(rest, from + n + 1 - i)
  BY ClosedFacts DEF RemovalRounds
<1> HIDE DEF V, F
<1>2. keys \in V
  BY DEF V
<1>3. PICK g : FoldsWith(g, n, V, keys, F)
  BY <1>1, <1>2, FoldExists
<1>4. \A s \in SUBSET S : s # {} => Max(s) \in S
  BY HasGreatest
<1>5. g = body(g)
  <2>1. ASSUME NEW s \in SUBSET S PROVE g[s] = body(g)[s]
    <3>1. CASE s = {}
      BY <1>3, <3>1 DEF FoldsWith
    <3>2. CASE s # {}
      <4>1. s \ {Max(s)} \in SUBSET S
        OBVIOUS
      <4>2. g[s \ {Max(s)}] \in V /\ g[s] = F[<<Max(s), g[s \ {Max(s)}]>>]
        BY <1>3, <3>2, <4>1 DEF FoldsWith
      <4>3. g[s] = Closed(g[s \ {Max(s)}], from + n + 1 - Max(s))
        BY <1>1, <1>4, <3>2, <4>2
      <4>4. QED
        BY <3>2, <4>3
    <3>3. QED
      BY <3>1, <3>2
  <2>2. g = [s \in SUBSET S |-> g[s]]
    BY <1>3 DEF FoldsWith
  <2>3. body(g) = [s \in SUBSET S |-> body(g)[s]]
    OBVIOUS
  <2> HIDE DEF body
  <2>4. QED
    BY <2>1, <2>2, <2>3
<1> DEFINE iter == CHOOSE h : h = body(h)
<1>6. iter = body(iter)
  <2> HIDE DEF body
  <2> QED BY <1>5
<1>7. KeysRemoved(keys, from, n) = iter[S]
  <2> DEFINE seq == [j \in 1..n |-> from + n + 1 - j]
             other(h) == [s \in SUBSET S |-> IF s = {} THEN keys
                            ELSE Closed(h[s \ {Max(s)}], seq[Max(s)])]
  <2>1. KeysRemoved(keys, from, n) = (CHOOSE h : h = other(h))[S]
    BY DEF KeysRemoved, FoldLeft, MapThenFoldSet, Closed
  <2>2. ASSUME NEW h PROVE other(h) = body(h)
    <3>1. \A s \in SUBSET S : s # {} => seq[Max(s)] = from + n + 1 - Max(s)
      BY <1>4
    <3> HIDE DEF seq
    <3>2. \A s \in SUBSET S : other(h)[s] = body(h)[s]
      BY <3>1
    <3>3. other(h) = [s \in SUBSET S |-> other(h)[s]] /\ body(h) = [s \in SUBSET S |-> body(h)[s]]
      OBVIOUS
    <3> HIDE DEF other, body
    <3>4. QED
      BY <3>2, <3>3
  <2> HIDE DEF other, body
  <2>3. QED
    BY <2>1, <2>2
<1> HIDE DEF iter
<1>8. iter[{}] = keys
  BY <1>6
<1>9. \A s \in SUBSET S : s # {} /\ iter[s \ {Max(s)}] \in V =>
         iter[s] = F[<<Max(s), iter[s \ {Max(s)}]>>]
  <2> SUFFICES ASSUME NEW s \in SUBSET S, s # {}, iter[s \ {Max(s)}] \in V
               PROVE  iter[s] = F[<<Max(s), iter[s \ {Max(s)}]>>]
    OBVIOUS
  <2>1. iter[s] = Closed(iter[s \ {Max(s)}], from + n + 1 - Max(s))
    BY <1>6
  <2>2. QED
    BY <1>1, <1>4, <2>1
<1> HIDE DEF body
<1>10. IsFold(iter, n, V, keys, F)
  BY <1>8, <1>9 DEF IsFold
<1>11. HasFoldTrace(n, V, keys, F, iter[1..n])
  BY <1>1, <1>2, <1>10, FoldHasTrace
<1>12. QED
  BY <1>7, <1>11 DEF V, F

LEMMA KeysRemovedFacts ==
  ASSUME NEW keys \in Seq(Stages), NEW from \in Nat, NEW n \in Nat, from + n <= Len(keys)
  PROVE  /\ KeysRemoved(keys, from, n) \in Seq(Stages)
         /\ Len(KeysRemoved(keys, from, n)) = Len(keys) - n
         /\ \A k \in 1..from : KeysRemoved(keys, from, n)[k] = keys[k]
         /\ \A k \in (from + 1)..(Len(keys) - n) : \E q \in (from + 1)..Len(keys) :
              KeysRemoved(keys, from, n)[k] = keys[q]
<1> DEFINE m == Len(keys)
           F == RemovalRounds(from, n)
           Fine(rest, r) ==
             /\ rest \in Seq(Stages)
             /\ Len(rest) = m - r
             /\ \A k \in 1..from : rest[k] = keys[k]
             /\ \A k \in (from + 1)..(m - r) : \E q \in (from + 1)..m : rest[k] = keys[q]
<1>1. m \in Nat /\ from + n <= m
  OBVIOUS
<1>2. PICK trace : FoldTrace(trace, n, Seq(Stages), keys, F) /\ trace[n] = KeysRemoved(keys, from, n)
  BY RemovalHasTrace DEF HasFoldTrace
<1>3. trace[0] = keys /\ \A r \in 1..n : trace[r] = F[<<r, trace[r - 1]>>]
  BY <1>2 DEF FoldTrace
<1>4. \A r \in 1..n, rest \in Seq(Stages) : F[<<r, rest>>] = Closed(rest, from + n + 1 - r)
  BY DEF RemovalRounds
<1> HIDE DEF F, m
<1> DEFINE N == {r \in Nat : r <= n => Fine(trace[r], r)}
<1>5. 0 \in N
  BY <1>1, <1>3 DEF m
<1>6. ASSUME NEW r \in N PROVE r + 1 \in N
  <2> SUFFICES ASSUME r + 1 <= n PROVE Fine(trace[r + 1], r + 1)
    OBVIOUS
  <2> DEFINE rest == trace[r]
             i    == from + n - r
             next == Closed(rest, i)
  <2>1. r \in Nat /\ (r <= n => Fine(rest, r))
    OBVIOUS
  <2>2. Fine(rest, r)
    BY <2>1
  <2> HIDE DEF N, Fine
  <2>3. r + 1 \in 1..n /\ (r + 1) - 1 = r /\ from + n + 1 - (r + 1) = i
    BY <2>1
  <2>4. i \in Nat /\ i > from /\ m - r > from /\ m - r >= i /\ m - r \in Nat
    BY <1>1, <2>1
  <2>5. rest \in Seq(Stages) /\ Len(rest) = m - r
    BY <2>2 DEF Fine
  <2> HIDE DEF rest
  <2>6. trace[r + 1] = next
    <3>1. trace[r + 1] = F[<<r + 1, rest>>]
      BY <1>3, <2>3 DEF rest
    <3>2. QED
      BY <1>4, <2>3, <2>5, <3>1
  <2>7. next \in Seq(Stages) /\ Len(next) = m - (r + 1)
        /\ \A k \in 1..(m - (r + 1)) : next[k] = IF k = i THEN rest[m - r] ELSE rest[k]
    <3> HIDE DEF i
    <3>1. Len(rest) > 0 /\ Len(rest) - 1 = m - (r + 1)
      BY <1>1, <2>1, <2>4, <2>5
    <3>2. QED
      BY <2>5, <3>1, ClosedFacts
  <2> HIDE DEF next
  <2>8. ASSUME NEW k \in 1..from PROVE next[k] = keys[k]
    <3>1. k \in 1..(m - (r + 1)) /\ k # i
      BY <1>1, <2>1, <2>4
    <3>2. next[k] = rest[k]
      BY <2>7, <3>1
    <3>3. QED
      BY <2>2, <3>2 DEF Fine, rest
  <2>9. ASSUME NEW k \in (from + 1)..(m - (r + 1))
        PROVE  \E q \in (from + 1)..m : next[k] = keys[q]
    <3>1. k \in 1..(m - (r + 1)) /\ k \in (from + 1)..(m - r) /\ m - r \in (from + 1)..(m - r)
      BY <1>1, <2>1, <2>4
    <3>2. next[k] = rest[k] \/ next[k] = rest[m - r]
      BY <2>7, <3>1
    <3>3. \A p \in (from + 1)..(m - r) : \E q \in (from + 1)..m : rest[p] = keys[q]
      BY <2>2 DEF Fine, rest
    <3>4. QED
      BY <3>1, <3>2, <3>3
  <2>10. QED
    BY <2>6, <2>7, <2>8, <2>9 DEF Fine
<1> HIDE DEF N
<1>7. N = Nat
  <2>1. N \in SUBSET Nat
    BY DEF N
  <2> QED BY <1>5, <1>6, <2>1, AllNaturals
<1>8. n \in N /\ n <= n
  BY <1>7
<1>9. Fine(trace[n], n)
  BY <1>8 DEF N
<1>10. QED
  BY <1>2, <1>9 DEF m

LEMMA RemovedIsGood ==
  ASSUME Clock, NEW op, Good(op), NEW from \in Nat, NEW n \in Nat,
         from >= op.deposited, from + n <= Len(op.keys), NEW new,
         new = Limited(Removed(op, from, n))
  PROVE  /\ Good(new) /\ new.active = op.active /\ new.exited = op.exited
         /\ new.deposited = op.deposited /\ Len(new.keys) = Len(op.keys) - n
<1> DEFINE old  == op.keys
           keys == KeysRemoved(old, from, n)
           left == [op EXCEPT !.keys = keys]
           m    == Min({op.vetted, from})
           rest == VettedUpTo(left, m)
<1>1. /\ op \in NodeOperator /\ Sound(op) /\ old \in Seq(Stages) /\ Len(old) \in Nat
      /\ op.deposited \in Nat /\ op.vetted \in Nat /\ op.deposited <= op.vetted
      /\ op.vetted <= Len(old) /\ Len(old) <= UINT64_MAX /\ DOMAIN op = Fields
      /\ op.vetted \in Counts
  BY GoodFacts, TypeOfFields DEF Sound, Solid, IsOperator, NodeOperator
<1>2. Removed(op, from, n) = rest
  BY <1>1 DEF Removed, Fields
<1>3. ASSUME NEW k \in 1..Len(old) PROVE old[k] = Stage(op.deposited, op.vetted, k)
  BY <1>1 DEF Sound, Solid
<1> HIDE DEF old
<1>4. /\ keys \in Seq(Stages) /\ Len(keys) = Len(old) - n
      /\ \A k \in 1..from : keys[k] = old[k]
      /\ \A k \in (from + 1)..(Len(old) - n) : \E q \in (from + 1)..Len(old) : keys[k] = old[q]
  BY <1>1, KeysRemovedFacts, ZenonT(30) DEF old
<1> HIDE DEF keys
<1>5. /\ left \in NodeOperator /\ SameCounts(op, left) /\ left.keys = keys
      /\ left.active = op.active
  BY <1>1, <1>4 DEF NodeOperator, SameCounts
<1> HIDE DEF left
<1>6. m = IF from < op.vetted THEN from ELSE op.vetted
  BY <1>1, MinOfTwo
<1> HIDE DEF m
<1>7. /\ m \in Nat /\ m \in Counts /\ op.deposited <= m /\ m <= op.vetted /\ m <= from
      /\ m = from \/ m = op.vetted
  <2>1. m \in Nat /\ op.deposited <= m /\ m <= op.vetted /\ m <= from
    BY <1>1, <1>6
  <2>2. m \in Counts
    BY <1>1, <2>1, NodeOperatorsRegistryAssumption DEF Counts
  <2>3. QED
    BY <1>6, <2>1, <2>2
<1>8. /\ rest \in NodeOperator /\ rest.vetted = m /\ rest.active = op.active
      /\ SameCounts(op, rest) /\ Len(rest.keys) = Len(keys)
      /\ \A k \in 1..Len(keys) : rest.keys[k] =
           IF k > m /\ keys[k] = "vetted" THEN "added" ELSE keys[k]
  BY <1>5, <1>7, VettedUpToFields DEF SameCounts
<1> HIDE DEF rest
<1>9. Len(keys) \in Nat /\ from <= Len(keys) /\ Len(keys) <= UINT64_MAX
  <2>1. from + n <= Len(old)
    BY DEF old
  <2>2. Len(old) - n \in Nat /\ from <= Len(old) - n /\ Len(old) - n <= UINT64_MAX
    BY <1>1, <2>1, NodeOperatorsRegistryAssumption
  <2>3. QED
    BY <1>4, <2>2
<1>10. ASSUME NEW k \in 1..Len(keys)
       PROVE  rest.keys[k] = Stage(op.deposited, m, k)
  <2>1. CASE k <= from
    <3>1. k \in 1..from /\ k \in 1..Len(old)
      BY <1>1, <1>4, <1>9, <2>1
    <3>2. keys[k] = Stage(op.deposited, op.vetted, k)
      BY <1>3, <1>4, <3>1
    <3>3. QED
      BY <1>1, <1>7, <1>8, <2>1, <3>2 DEF Stage
  <2>2. CASE ~(k <= from)
    <3>1. k \in (from + 1)..(Len(old) - n)
      BY <1>4, <1>9, <2>2
    <3>2. PICK q \in (from + 1)..Len(old) : keys[k] = old[q]
      BY <1>4, <3>1
    <3>3. q \in 1..Len(old) /\ q > op.deposited /\ k > op.deposited /\ k > m
      BY <1>1, <1>7, <3>1
    <3>4. old[q] = "vetted" \/ old[q] = "added"
      BY <1>1, <1>3, <3>3 DEF Stage
    <3>5. rest.keys[k] = "added"
      BY <1>8, <3>2, <3>3, <3>4
    <3>6. QED
      BY <1>1, <1>7, <3>1, <3>3, <3>5 DEF Stage
  <2>3. QED
    BY <2>1, <2>2
<1>11. Sound(rest)
  <2>1. m <= Len(keys)
    BY <1>7, <1>9
  <2>2. rest.active \/ rest.vetted = rest.deposited
    BY <1>1, <1>7, <1>8 DEF Sound, SameCounts
  <2>3. \A k \in 1..Len(rest.keys) : rest.keys[k] = Stage(rest.deposited, rest.vetted, k)
    BY <1>8, <1>10 DEF SameCounts
  <2>4. QED
    BY <1>1, <1>7, <1>8, <1>9, <2>1, <2>2, <2>3 DEF Sound, Solid, SameCounts
<1>12. Good(new) /\ SameButMax(rest, new)
  BY <1>2, <1>11, LimitedIsGood
<1>13. QED
  BY <1>4, <1>8, <1>12 DEF SameButMax, SameCounts, old

------------------------------------------------------------------------------

(***************************************************************************)
(* The summary.  Each of its figures is the sum of a column, the figures   *)
(* of all operators.                                                       *)
(***************************************************************************)
Figures == {"max", "exited", "total", "deposited"}

Measure(op) ==
  [max |-> op.max, exited |-> op.exited, total |-> Len(op.keys), deposited |-> op.deposited]

Column(ops, figure) == [id \in DOMAIN ops |-> Measure(ops[id])[figure]]

Roster(ops) ==
  /\ ops \in Seq(NodeOperator)
  /\ \A id \in DOMAIN ops : Good(ops[id])

Tallied(ops, sums) ==
  /\ Roster(ops)
  /\ sums \in [Figures -> Int]
  /\ \A f \in Figures : sums[f] = SumFunction(Column(ops, f))
  /\ sums.total <= UINT64_MAX

LEMMA MeasureOfGood ==
  ASSUME NEW op, Good(op)
  PROVE  /\ \A f \in Figures : Measure(op)[f] \in Nat
         /\ Measure(op)["exited"] <= Measure(op)["deposited"]
         /\ Measure(op)["deposited"] <= Measure(op)["max"]
         /\ Measure(op)["max"] <= Measure(op)["total"]
BY GoodFacts DEF Measure, Figures

LEMMA ColumnFacts ==
  ASSUME NEW ops, Roster(ops), NEW f \in Figures
  PROVE  /\ SumFunction(Column(ops, f)) = SumFunctionOnSet(Column(ops, f), DOMAIN ops)
         /\ IsFiniteSet(DOMAIN ops) /\ Integral(Column(ops, f), DOMAIN ops)
         /\ \A id \in DOMAIN ops : /\ Column(ops, f)[id] = Measure(ops[id])[f]
                                   /\ Column(ops, f)[id] \in Nat
<1>1. DOMAIN Column(ops, f) = DOMAIN ops
  BY DEF Column
<1>2. IsFiniteSet(DOMAIN ops)
  <2>1. DOMAIN ops = 1..Len(ops) /\ Len(ops) \in Nat
    BY DEF Roster
  <2>2. QED
    BY <2>1, FS_Interval
<1>3. \A id \in DOMAIN ops : Column(ops, f)[id] = Measure(ops[id])[f] /\ Column(ops, f)[id] \in Nat
  BY MeasureOfGood DEF Column, Roster
<1>4. QED
  BY <1>1, <1>2, <1>3 DEF SumFunction, Integral

LEMMA FiguresAreOrdered ==
  ASSUME NEW ops, NEW sums, Tallied(ops, sums)
  PROVE  /\ sums.exited \in Nat /\ sums.deposited \in Nat /\ sums.max \in Nat /\ sums.total \in Nat
         /\ sums.exited <= sums.deposited /\ sums.deposited <= sums.max
         /\ sums.max <= sums.total /\ sums.total <= UINT64_MAX
<1> DEFINE S == DOMAIN ops
           Sum(f) == SumFunctionOnSet(Column(ops, f), S)
<1>1. \A f \in Figures : sums[f] = Sum(f)
  BY ColumnFacts DEF Tallied
<1>2. \A f \in Figures : IsFiniteSet(S) /\ Integral(Column(ops, f), S)
                         /\ \A id \in S : Column(ops, f)[id] = Measure(ops[id])[f]
                                          /\ Column(ops, f)[id] \in Nat
  BY ColumnFacts DEF Tallied
<1>3. "max" \in Figures /\ "exited" \in Figures /\ "total" \in Figures /\ "deposited" \in Figures
  BY DEF Figures
<1>4. \A id \in S : /\ Column(ops, "exited")[id] <= Column(ops, "deposited")[id]
                    /\ Column(ops, "deposited")[id] <= Column(ops, "max")[id]
                    /\ Column(ops, "max")[id] <= Column(ops, "total")[id]
  BY <1>2, <1>3, MeasureOfGood DEF Tallied, Roster
<1> HIDE DEF S
<1>5. \A f \in Figures : Sum(f) \in Nat
  BY <1>2, SumOfNaturals
<1>6. Sum("exited") <= Sum("deposited")
  BY <1>2, <1>3, <1>4, SumIsMonotone
<1>7. Sum("deposited") <= Sum("max")
  BY <1>2, <1>3, <1>4, SumIsMonotone
<1>8. Sum("max") <= Sum("total")
  BY <1>2, <1>3, <1>4, SumIsMonotone
<1> HIDE DEF Sum
<1>9. QED
  BY <1>1, <1>3, <1>5, <1>6, <1>7, <1>8 DEF Tallied

(***************************************************************************)
(* A transaction replaces one operator, or several.                        *)
(***************************************************************************)
LEMMA OneIsTallied ==
  ASSUME NEW ops, NEW sums, Tallied(ops, sums), NEW id \in DOMAIN ops, NEW op, Good(op),
         NEW new, new = [ops EXCEPT ![id] = op],
         NEW after, after \in [Figures -> Int], after.total <= UINT64_MAX,
         after.max = sums.max + op.max - ops[id].max,
         after.exited = sums.exited + op.exited - ops[id].exited,
         after.total = sums.total + Len(op.keys) - Len(ops[id].keys),
         after.deposited = sums.deposited + op.deposited - ops[id].deposited
  PROVE  Tallied(new, after)
<1> DEFINE S == DOMAIN ops
<1>1. new \in Seq(NodeOperator) /\ DOMAIN new = S /\ new[id] = op
      /\ \A i \in S \ {id} : new[i] = ops[i]
  <2>1. op \in NodeOperator /\ ops \in Seq(NodeOperator)
    BY GoodFacts DEF Tallied, Roster
  <2>2. QED
    BY <2>1
<1>2. Roster(new)
  BY <1>1 DEF Tallied, Roster
<1>3. ASSUME NEW f \in Figures
      PROVE  SumFunction(Column(new, f))
               = SumFunction(Column(ops, f)) + (Measure(op)[f] - Measure(ops[id])[f])
  <2>1. /\ SumFunction(Column(ops, f)) = SumFunctionOnSet(Column(ops, f), S)
        /\ Integral(Column(ops, f), S)
        /\ \A i \in S : Column(ops, f)[i] = Measure(ops[i])[f]
    BY ColumnFacts DEF Tallied
  <2>2. /\ SumFunction(Column(new, f)) = SumFunctionOnSet(Column(new, f), S)
        /\ \A i \in S : Column(new, f)[i] = Measure(new[i])[f]
        /\ \A i \in S : Column(new, f)[i] \in Nat
    <3>1. /\ SumFunction(Column(new, f)) = SumFunctionOnSet(Column(new, f), DOMAIN new)
          /\ \A i \in DOMAIN new : /\ Column(new, f)[i] = Measure(new[i])[f]
                                   /\ Column(new, f)[i] \in Nat
      BY <1>2, ColumnFacts
    <3>2. QED
      BY <1>1, <3>1
  <2>3. /\ id \in S /\ Column(new, f)[id] \in Int
        /\ \A i \in S \ {id} : Column(new, f)[i] = Column(ops, f)[i]
    <3> HIDE DEF S
    <3>1. \A i \in S \ {id} : Column(new, f)[i] = Column(ops, f)[i]
      BY <1>1, <2>1, <2>2, ZenonT(30)
    <3>2. id \in S
      BY DEF S
    <3>3. Column(new, f)[id] \in Nat
      BY <2>2, <3>2, Zenon
    <3>4. \A x : x \in Nat => x \in Int
      OBVIOUS
    <3>5. QED
      BY <3>1, <3>2, <3>3, <3>4, Zenon
  <2>4. SumFunctionOnSet(Column(new, f), S)
          = SumFunctionOnSet(Column(ops, f), S) + (Column(new, f)[id] - Column(ops, f)[id])
    <3> DEFINE F == Column(ops, f)
               H == Column(new, f)
    <3> HIDE DEF S, F, H
    <3>1. Integral(F, S) /\ id \in S /\ H[id] \in Int /\ \A i \in S \ {id} : H[i] = F[i]
      BY <2>1, <2>3 DEF F, H
    <3>2. SumFunctionOnSet(H, S) = SumFunctionOnSet(F, S) + (H[id] - F[id])
      BY <3>1, SumExcept
    <3>3. QED
      BY <3>2 DEF F, H
  <2>5. QED
    BY <1>1, <2>1, <2>2, <2>3, <2>4
<1>4. ASSUME NEW f \in Figures
      PROVE  after[f] = sums[f] + (Measure(op)[f] - Measure(ops[id])[f])
  <2>1. /\ Measure(op)[f] \in Nat /\ Measure(ops[id])[f] \in Nat /\ sums[f] \in Int
    BY MeasureOfGood DEF Tallied, Roster
  <2>2. after[f] = sums[f] + Measure(op)[f] - Measure(ops[id])[f]
    <3>1. CASE f = "max"
      BY <3>1 DEF Measure
    <3>2. CASE f = "exited"
      BY <3>2 DEF Measure
    <3>3. CASE f = "total"
      BY <3>3 DEF Measure
    <3>4. CASE f = "deposited"
      BY <3>4 DEF Measure
    <3>5. QED
      BY <3>1, <3>2, <3>3, <3>4 DEF Figures
  <2>3. QED
    BY <2>1, <2>2
<1>5. \A f \in Figures : after[f] = SumFunction(Column(new, f))
  BY <1>3, <1>4, ZenonT(30) DEF Tallied
<1>6. QED
  BY <1>1, <1>2, <1>5 DEF Tallied

LEMMA ManyAreTallied ==
  ASSUME NEW ops, NEW sums, Tallied(ops, sums), NEW changed, DOMAIN changed \subseteq DOMAIN ops,
         \A id \in DOMAIN changed : Good(changed[id]),
         NEW new, new = [id \in DOMAIN ops |-> IF id \in DOMAIN changed THEN changed[id] ELSE ops[id]],
         NEW after, after \in [Figures -> Int], after.total <= UINT64_MAX,
         NEW d, \A f \in Figures : after[f] = sums[f] + SumFunctionOnSet(d[f], DOMAIN changed),
         \A f \in Figures, id \in DOMAIN changed :
           d[f][id] = Measure(changed[id])[f] - Measure(ops[id])[f]
  PROVE  Tallied(new, after)
<1> DEFINE S == DOMAIN ops
           D == DOMAIN changed
<1>1. D \in SUBSET S /\ \A i \in D : Good(changed[i]) /\ changed[i] \in NodeOperator
  BY GoodFacts
<1>2. new \in Seq(NodeOperator) /\ DOMAIN new = S
      /\ \A i \in S : new[i] = IF i \in D THEN changed[i] ELSE ops[i]
  <2>1. S = 1..Len(ops) /\ Len(ops) \in Nat /\ \A i \in S : ops[i] \in NodeOperator
    BY DEF Tallied, Roster
  <2> HIDE DEF S
  <2>2. new \in [1..Len(ops) -> NodeOperator]
    BY <1>1, <2>1 DEF S
  <2>3. QED
    BY <2>1, <2>2 DEF S
<1>3. Roster(new)
  BY <1>1, <1>2 DEF Tallied, Roster
<1>4. ASSUME NEW f \in Figures
      PROVE  after[f] = SumFunction(Column(new, f))
  <2>1. /\ SumFunction(Column(ops, f)) = SumFunctionOnSet(Column(ops, f), S)
        /\ Integral(Column(ops, f), S)
        /\ \A i \in S : Column(ops, f)[i] = Measure(ops[i])[f]
    BY ColumnFacts DEF Tallied
  <2>2. /\ SumFunction(Column(new, f)) = SumFunctionOnSet(Column(new, f), S)
        /\ Integral(Column(new, f), S)
        /\ \A i \in S : Column(new, f)[i] = Measure(new[i])[f]
    <3>1. /\ SumFunction(Column(new, f)) = SumFunctionOnSet(Column(new, f), DOMAIN new)
          /\ Integral(Column(new, f), DOMAIN new)
          /\ \A i \in DOMAIN new : Column(new, f)[i] = Measure(new[i])[f]
      BY <1>3, ColumnFacts
    <3>2. QED
      BY <1>2, <3>1
  <2> HIDE DEF S, D
  <2>3. \A i \in S \ D : Column(new, f)[i] = Column(ops, f)[i]
    BY <1>2, <2>1, <2>2
  <2>4. \A i \in D : d[f][i] = Column(new, f)[i] - Column(ops, f)[i]
    BY <1>1, <1>2, <2>1, <2>2 DEF D
  <2>5. SumFunctionOnSet(Column(new, f), S)
          = SumFunctionOnSet(Column(ops, f), S) + SumFunctionOnSet(d[f], D)
    BY <1>1, <2>1, <2>2, <2>3, <2>4, SumChanges
  <2>6. QED
    BY <2>1, <2>2, <2>5 DEF Tallied, D
<1>5. QED
  BY <1>2, <1>3, <1>4 DEF Tallied

(***************************************************************************)
(* The invariant of the registry.                                          *)
(***************************************************************************)
ActiveIn(ops) == {id \in DOMAIN ops : ops[id].active}

Books ==
  /\ Tallied(nodeOperators, summary)
  /\ Len(nodeOperators) <= MAX_NODE_OPERATORS_COUNT
  /\ activeOperatorsCount = Cardinality(ActiveIn(nodeOperators))
  /\ nonce \in {0, 1}

RegistryInv == Clock /\ Books

(***************************************************************************)
(* What a transaction does to the figures that the router sees.            *)
(***************************************************************************)
SameDeposits ==
  summary'.exited = summary.exited /\ summary'.deposited = summary.deposited

KeysManaged == SameDeposits /\ nonce' # nonce

ExitsReported == summary'.deposited = summary.deposited /\ nonce' # nonce

LEMMA OneOfMany ==
  ASSUME RegistryInv, NEW id \in DOMAIN nodeOperators
  PROVE  /\ Good(nodeOperators[id])
         /\ summary \in [Figures -> Int]
         /\ summary.max \in Nat /\ summary.exited \in Nat
         /\ summary.total \in Nat /\ summary.deposited \in Nat
         /\ summary.total <= UINT64_MAX
BY FiguresAreOrdered DEF RegistryInv, Books, Tallied, Roster

LEMMA NonceFlips ==
  ASSUME RegistryInv, IncreaseNonce
  PROVE  nonce' \in {0, 1} /\ nonce' # nonce
BY DEF RegistryInv, Books, IncreaseNonce

LEMMA OneReplaced ==
  ASSUME RegistryInv, NEW id \in DOMAIN nodeOperators, NEW op, Good(op), StoreOne(id, op),
         op.active = nodeOperators[id].active, UNCHANGED activeOperatorsCount, nonce' \in {0, 1},
         summary' \in [Figures -> Int], summary'.total <= UINT64_MAX,
         summary'.max = summary.max + op.max - nodeOperators[id].max,
         summary'.exited = summary.exited + op.exited - nodeOperators[id].exited,
         summary'.total = summary.total + Len(op.keys) - Len(nodeOperators[id].keys),
         summary'.deposited = summary.deposited + op.deposited - nodeOperators[id].deposited
  PROVE  Books'
<1>1. Tallied(nodeOperators, summary) /\ nodeOperators' = [nodeOperators EXCEPT ![id] = op]
      /\ nodeOperators \in Seq(NodeOperator)
  BY DEF RegistryInv, Books, StoreOne, Tallied, Roster
<1>2. Tallied(nodeOperators', summary')
  BY <1>1, OneIsTallied
<1>3. Len(nodeOperators') = Len(nodeOperators) /\ DOMAIN nodeOperators' = DOMAIN nodeOperators
      /\ \A i \in DOMAIN nodeOperators : nodeOperators'[i] = IF i = id THEN op ELSE nodeOperators[i]
  BY <1>1
<1>4. ActiveIn(nodeOperators') = ActiveIn(nodeOperators)
  BY <1>3 DEF ActiveIn
<1>5. QED
  BY <1>2, <1>3, <1>4 DEF RegistryInv, Books

LEMMA MaxTallied ==
  ASSUME RegistryInv, NEW id \in DOMAIN nodeOperators, NEW op, Good(op)
  PROVE  /\ WithMaxOf(id, op) \in [Figures -> Int]
         /\ WithMaxOf(id, op).max = summary.max + op.max - nodeOperators[id].max
         /\ WithMaxOf(id, op).exited = summary.exited
         /\ WithMaxOf(id, op).total = summary.total
         /\ WithMaxOf(id, op).deposited = summary.deposited
<1> DEFINE m == summary.max + op.max - nodeOperators[id].max
<1>1. m \in Int
  <2>1. op.max \in Nat /\ nodeOperators[id].max \in Nat /\ summary.max \in Nat
    BY OneOfMany, GoodFacts
  <2>2. QED
    BY <2>1
<1>2. summary \in [Figures -> Int]
  BY OneOfMany
<1>3. WithMaxOf(id, op) = [summary EXCEPT !.max = m]
  BY <1>2 DEF WithMaxOf, Figures
<1> HIDE DEF m
<1>4. /\ WithMaxOf(id, op) \in [Figures -> Int] /\ WithMaxOf(id, op).max = m
      /\ WithMaxOf(id, op).exited = summary.exited
      /\ WithMaxOf(id, op).total = summary.total
      /\ WithMaxOf(id, op).deposited = summary.deposited
  BY <1>1, <1>2, <1>3 DEF Figures
<1>5. QED
  BY <1>4 DEF m

(***************************************************************************)
(* Most transactions store one operator and recalculate its limit.         *)
(***************************************************************************)
LEMMA LimitStored ==
  ASSUME RegistryInv, NEW id \in DOMAIN nodeOperators, NEW op, Good(op), StoreOne(id, op),
         op.active = nodeOperators[id].active, op.exited = nodeOperators[id].exited,
         op.deposited = nodeOperators[id].deposited, Len(op.keys) = Len(nodeOperators[id].keys),
         summary' = WithMaxOf(id, op), UNCHANGED activeOperatorsCount, nonce' \in {0, 1}
  PROVE  /\ Books' /\ SameDeposits
         /\ summary'.max = summary.max + op.max - nodeOperators[id].max
<1>1. /\ summary' \in [Figures -> Int]
      /\ summary'.max = summary.max + op.max - nodeOperators[id].max
      /\ summary'.exited = summary.exited /\ summary'.total = summary.total
      /\ summary'.deposited = summary.deposited
  BY MaxTallied
<1>2. /\ summary.exited \in Nat /\ summary.total \in Nat /\ summary.deposited \in Nat
      /\ op.exited \in Nat /\ op.deposited \in Nat /\ Len(op.keys) \in Nat
      /\ summary.total <= UINT64_MAX
  BY OneOfMany, GoodFacts
<1>3. /\ summary.exited = summary.exited + op.exited - nodeOperators[id].exited
      /\ summary.total = summary.total + Len(op.keys) - Len(nodeOperators[id].keys)
      /\ summary.deposited = summary.deposited + op.deposited - nodeOperators[id].deposited
  BY <1>2
<1>4. Books'
  BY <1>1, <1>2, <1>3, OneReplaced
<1>5. QED
  BY <1>1, <1>4 DEF SameDeposits

(***************************************************************************)
(* Operators are added, activated and deactivated.                         *)
(***************************************************************************)
LEMMA ActiveIsFinite ==
  ASSUME RegistryInv
  PROVE  /\ IsFiniteSet(ActiveIn(nodeOperators))
         /\ activeOperatorsCount = Cardinality(ActiveIn(nodeOperators))
         /\ activeOperatorsCount \in 0..Len(nodeOperators)
         /\ DOMAIN nodeOperators = 1..Len(nodeOperators) /\ Len(nodeOperators) \in Nat
<1> DEFINE n == Len(nodeOperators)
<1>1. n \in Nat /\ DOMAIN nodeOperators = 1..n
  BY DEF RegistryInv, Books, Tallied, Roster
<1>2. ActiveIn(nodeOperators) \subseteq 1..n
  BY <1>1 DEF ActiveIn
<1> HIDE DEF n
<1>3. IsFiniteSet(1..n) /\ Cardinality(1..n) = n
  BY <1>1, FS_Interval
<1>4. /\ IsFiniteSet(ActiveIn(nodeOperators)) /\ Cardinality(ActiveIn(nodeOperators)) \in Nat
      /\ Cardinality(ActiveIn(nodeOperators)) <= Cardinality(1..n)
  BY <1>2, <1>3, FS_Subset, FS_CardinalityType
<1>5. QED
  BY <1>1, <1>3, <1>4 DEF RegistryInv, Books, n

LEMMA NewOperatorIsGood == Good(NewOperator)
<1> DEFINE op == NewOperator
<1>1. 0 \in Counts /\ 0 <= UINT64_MAX
  BY NodeOperatorsRegistryAssumption DEF Counts
<1>2. <<>> \in Seq(Stages) /\ Len(<<>>) = 0
  OBVIOUS
<1>3. op \in NodeOperator
  BY <1>1, <1>2 DEF NewOperator, NodeOperator
<1>4. Solid(op)
  BY <1>1, <1>3 DEF Solid, NewOperator
<1>5. Sound(op)
  BY <1>4 DEF Sound, NewOperator
<1>6. Limits(op) = 0 /\ op.max = 0
  BY DEF Limits, Cleared, NewOperator
<1>7. QED
  BY <1>5, <1>6 DEF Good

LEMMA AddedIsTallied ==
  ASSUME RegistryInv, AddNodeOperator
  PROVE  Tallied(nodeOperators', summary')
<1> DEFINE ops == nodeOperators
           n   == Len(ops)
           new == Append(ops, NewOperator)
           S   == 1..n
<1>1. Roster(ops) /\ ops \in Seq(NodeOperator) /\ n \in Nat /\ DOMAIN ops = S
  BY DEF RegistryInv, Books, Tallied, Roster
<1>2. Good(NewOperator) /\ NewOperator \in NodeOperator
  BY NewOperatorIsGood, GoodFacts
<1>3. /\ new \in Seq(NodeOperator) /\ DOMAIN new = 1..(n + 1)
      /\ new[n + 1] = NewOperator
      /\ \A i \in S : new[i] = ops[i]
  <2> HIDE DEF NewOperator
  <2> QED BY <1>1, <1>2
<1>4. 1..(n + 1) = S \union {n + 1} /\ n + 1 \notin S
  BY <1>1
<1> HIDE DEF new, ops
<1>5. Roster(new)
  BY <1>1, <1>2, <1>3, <1>4 DEF Roster
<1> HIDE DEF n
<1>6. ASSUME NEW f \in Figures
      PROVE  SumFunction(Column(new, f)) = SumFunction(Column(ops, f))
  <2> DEFINE F == Column(ops, f)
             H == Column(new, f)
  <2>1. /\ SumFunction(F) = SumFunctionOnSet(F, S)
        /\ IsFiniteSet(S) /\ Integral(F, S)
        /\ \A i \in S : F[i] = Measure(ops[i])[f] /\ F[i] \in Nat
    BY <1>1, ColumnFacts
  <2>2. /\ SumFunction(H) = SumFunctionOnSet(H, DOMAIN new)
        /\ \A i \in DOMAIN new : H[i] = Measure(new[i])[f] /\ H[i] \in Nat
    BY <1>5, ColumnFacts
  <2> HIDE DEF F, H, S
  <2>3. \A i \in S \union {n + 1} : H[i] = Measure(new[i])[f] /\ H[i] \in Nat
    BY <1>3, <1>4, <2>2
  <2>4. \A i \in S : H[i] = F[i]
    BY <1>3, <2>1, <2>3
  <2>5. H[n + 1] = 0
    <3>1. Measure(NewOperator)[f] = 0
      BY DEF NewOperator, Measure, Figures
    <3>2. QED
      BY <1>3, <2>3, <3>1
  <2>6. SumFunctionOnSet(H, S \union {n + 1}) = H[n + 1] + SumFunctionOnSet(H, S)
    <3>1. \A y \in S \union {n + 1} : H[y] \in Int
      BY <2>3
    <3> DEFINE x == n + 1
    <3>2. x \notin S
      BY <1>4
    <3> HIDE DEF x
    <3>3. SumFunctionOnSet(H, S \union {x}) = H[x] + SumFunctionOnSet(H, S)
      BY <2>1, <3>1, <3>2, SumAddsElement DEF x
    <3>4. QED
      BY <3>3 DEF x
  <2>7. SumFunctionOnSet(F, S) = SumFunctionOnSet(H, S) /\ SumFunctionOnSet(F, S) \in Int
    BY <2>1, <2>4, SumIsExtensional, SumType
  <2>8. DOMAIN new = S \union {n + 1}
    BY <1>3, <1>4
  <2>9. SumFunction(H) = SumFunctionOnSet(H, S \union {n + 1})
    BY <2>2, <2>8, Zenon
  <2>10. SumFunction(H) = SumFunction(F)
    BY <2>1, <2>5, <2>6, <2>7, <2>9
  <2>11. QED
    BY <2>10 DEF F, H
<1>7. nodeOperators' = new /\ summary' = summary
  BY DEF AddNodeOperator, new, ops
<1>8. QED
  BY <1>5, <1>6, <1>7 DEF Tallied, RegistryInv, Books, ops

LEMMA AddKeeps ==
  ASSUME RegistryInv, AddNodeOperator
  PROVE  Books' /\ SameDeposits /\ summary'.max = summary.max /\ nonce' = nonce
<1> DEFINE n == Len(nodeOperators)
           A == ActiveIn(nodeOperators)
<1>1. nodeOperators \in Seq(NodeOperator) /\ NewOperator \in NodeOperator /\ NewOperator.active
  BY NewOperatorIsGood, GoodFacts DEF RegistryInv, Books, Tallied, Roster, NewOperator
<1>2. /\ IsFiniteSet(A) /\ activeOperatorsCount = Cardinality(A)
      /\ DOMAIN nodeOperators = 1..n /\ n \in Nat
  BY ActiveIsFinite
<1>3. nodeOperators' = Append(nodeOperators, NewOperator) /\ n < MAX_NODE_OPERATORS_COUNT
      /\ activeOperatorsCount' = activeOperatorsCount + 1
      /\ summary' = summary /\ nonce' = nonce
  BY DEF AddNodeOperator
<1> HIDE DEF NewOperator
<1>4. Len(nodeOperators') = n + 1 /\ DOMAIN nodeOperators' = 1..(n + 1)
      /\ nodeOperators'[n + 1] = NewOperator
      /\ \A i \in 1..n : nodeOperators'[i] = nodeOperators[i]
  BY <1>1, <1>3
<1>5. ActiveIn(nodeOperators') = A \union {n + 1} /\ n + 1 \notin A
  BY <1>1, <1>2, <1>4 DEF ActiveIn
<1>6. Cardinality(ActiveIn(nodeOperators')) = Cardinality(A) + 1
  <2> HIDE DEF A
  <2> QED BY <1>2, <1>5, FS_AddElement
<1>7. Len(nodeOperators') <= MAX_NODE_OPERATORS_COUNT
  BY <1>2, <1>3, <1>4, NodeOperatorsRegistryAssumption
<1>8. Tallied(nodeOperators', summary')
  BY AddedIsTallied
<1>9. QED
  BY <1>2, <1>3, <1>6, <1>7, <1>8 DEF RegistryInv, Books, SameDeposits

LEMMA OneSwitched ==
  ASSUME RegistryInv, NEW id \in DOMAIN nodeOperators, NEW op, Good(op), StoreOne(id, op),
         op.active # nodeOperators[id].active,
         activeOperatorsCount' = IF op.active THEN activeOperatorsCount + 1
                                 ELSE activeOperatorsCount - 1,
         op.exited = nodeOperators[id].exited, op.deposited = nodeOperators[id].deposited,
         Len(op.keys) = Len(nodeOperators[id].keys),
         summary' = WithMaxOf(id, op), IncreaseNonce
  PROVE  Books' /\ KeysManaged
<1> DEFINE A == ActiveIn(nodeOperators)
<1>1. Tallied(nodeOperators, summary) /\ nodeOperators' = [nodeOperators EXCEPT ![id] = op]
      /\ nodeOperators \in Seq(NodeOperator)
  BY DEF RegistryInv, Books, StoreOne, Tallied, Roster
<1>2. /\ summary' \in [Figures -> Int]
      /\ summary'.max = summary.max + op.max - nodeOperators[id].max
      /\ summary'.exited = summary.exited /\ summary'.total = summary.total
      /\ summary'.deposited = summary.deposited
  BY MaxTallied
<1>3. /\ summary.exited \in Nat /\ summary.total \in Nat /\ summary.deposited \in Nat
      /\ op.exited \in Nat /\ op.deposited \in Nat /\ Len(op.keys) \in Nat
      /\ summary.total <= UINT64_MAX /\ op.active \in BOOLEAN
      /\ nodeOperators[id].active \in BOOLEAN
  BY OneOfMany, GoodFacts
<1>4. /\ summary.exited = summary.exited + op.exited - nodeOperators[id].exited
      /\ summary.total = summary.total + Len(op.keys) - Len(nodeOperators[id].keys)
      /\ summary.deposited = summary.deposited + op.deposited - nodeOperators[id].deposited
  BY <1>3
<1>5. Tallied(nodeOperators', summary')
  BY <1>1, <1>2, <1>3, <1>4, OneIsTallied
<1>6. Len(nodeOperators') = Len(nodeOperators) /\ DOMAIN nodeOperators' = DOMAIN nodeOperators
      /\ \A i \in DOMAIN nodeOperators : nodeOperators'[i] = IF i = id THEN op ELSE nodeOperators[i]
  BY <1>1
<1>7. IsFiniteSet(A) /\ activeOperatorsCount = Cardinality(A) /\ activeOperatorsCount \in Int
  BY ActiveIsFinite
<1>8. activeOperatorsCount' = Cardinality(ActiveIn(nodeOperators'))
  <2>1. CASE op.active
    <3>1. ActiveIn(nodeOperators') = A \union {id} /\ id \notin A
      BY <1>3, <1>6, <2>1 DEF ActiveIn
    <3> HIDE DEF A
    <3>2. Cardinality(ActiveIn(nodeOperators')) = Cardinality(A) + 1
      BY <1>7, <3>1, FS_AddElement
    <3>3. QED
      BY <1>7, <2>1, <3>2
  <2>2. CASE ~op.active
    <3>1. ActiveIn(nodeOperators') = A \ {id} /\ id \in A
      BY <1>3, <1>6, <2>2 DEF ActiveIn
    <3> HIDE DEF A
    <3>2. Cardinality(ActiveIn(nodeOperators')) = Cardinality(A) - 1
      BY <1>7, <3>1, FS_RemoveElement
    <3>3. QED
      BY <1>7, <2>2, <3>2
  <2>3. QED
    BY <2>1, <2>2
<1>9. nonce' \in {0, 1} /\ nonce' # nonce
  BY NonceFlips
<1>10. QED
  BY <1>2, <1>5, <1>6, <1>8, <1>9 DEF RegistryInv, Books, KeysManaged, SameDeposits

LEMMA UnchangedMax ==
  ASSUME RegistryInv, NEW id \in DOMAIN nodeOperators, NEW op, Good(op),
         op.max = nodeOperators[id].max, UNCHANGED summary
  PROVE  summary' = WithMaxOf(id, op)
<1>1. /\ summary \in [Figures -> Int] /\ summary.max \in Nat
      /\ op.max \in Nat /\ nodeOperators[id].max \in Nat
  BY OneOfMany, GoodFacts
<1>2. summary.max + op.max - nodeOperators[id].max = summary.max
  BY <1>1
<1>3. WithMaxOf(id, op) = [summary EXCEPT !.max = summary.max + op.max - nodeOperators[id].max]
  BY <1>1 DEF WithMaxOf, Figures
<1>4. QED
  BY <1>1, <1>2, <1>3

LEMMA SwitchKeeps ==
  ASSUME RegistryInv, NEW id \in DOMAIN nodeOperators,
         ActivateNodeOperator(id) \/ DeactivateNodeOperator(id)
  PROVE  Books' /\ KeysManaged
<1> DEFINE op == nodeOperators[id]
<1>1. Good(op) /\ Clock
  BY OneOfMany DEF RegistryInv
<1> HIDE DEF op
<1>2. CASE ActivateNodeOperator(id)
  <2> DEFINE new == [op EXCEPT !.active = TRUE]
  <2>1. /\ Good(new) /\ new.active /\ new.keys = op.keys /\ new.max = op.max
        /\ new.exited = op.exited /\ new.deposited = op.deposited
    BY <1>1, ActiveChanged DEF SameCounts
  <2>2. /\ ~op.active /\ StoreOne(id, new) /\ activeOperatorsCount' = activeOperatorsCount + 1
        /\ IncreaseNonce /\ UNCHANGED summary
    BY <1>2 DEF ActivateNodeOperator, op
  <2> HIDE DEF new
  <2>3. summary' = WithMaxOf(id, new)
    BY <2>1, <2>2, UnchangedMax DEF op
  <2>4. QED
    BY <2>1, <2>2, <2>3, OneSwitched DEF op
<1>3. CASE DeactivateNodeOperator(id)
  <2> DEFINE off == [op EXCEPT !.active = FALSE]
             new == Limited(VettedUpTo(off, op.deposited))
  <2>1. /\ op.active /\ activeOperatorsCount' = activeOperatorsCount - 1 /\ IncreaseNonce
        /\ IF off.vetted > off.deposited
           THEN StoreOne(id, Limited(VettedUpTo(off, off.deposited)))
                /\ summary' = WithMaxOf(id, Limited(VettedUpTo(off, off.deposited)))
           ELSE StoreOne(id, off) /\ UNCHANGED summary
    BY <1>3 DEF DeactivateNodeOperator, op
  <2>2. /\ op \in NodeOperator /\ op.vetted \in Nat /\ op.deposited \in Nat
        /\ op.deposited <= op.max /\ op.max <= op.vetted /\ op.max \in Nat
    BY <1>1, GoodFacts
  <2>3. off.vetted = op.vetted /\ off.deposited = op.deposited
    BY <2>2 DEF NodeOperator
  <2>4. CASE op.vetted > op.deposited
    <3>1. StoreOne(id, new) /\ summary' = WithMaxOf(id, new)
      BY <2>1, <2>3, <2>4
    <3>2. /\ Good(new) /\ new.active = FALSE /\ new.exited = op.exited
          /\ new.deposited = op.deposited /\ Len(new.keys) = Len(op.keys)
      BY <1>1, DeactivatedIsGood
    <3> HIDE DEF new
    <3>3. QED
      BY <2>1, <3>1, <3>2, OneSwitched DEF op
  <2>5. CASE ~(op.vetted > op.deposited)
    <3>1. StoreOne(id, off) /\ UNCHANGED summary
      BY <2>1, <2>3, <2>5
    <3>2. op.vetted = op.deposited
      BY <2>2, <2>5
    <3>3. /\ Good(off) /\ off.active = FALSE /\ off.keys = op.keys /\ off.max = op.max
          /\ off.exited = op.exited
      BY <1>1, <3>2, ActiveChanged DEF SameCounts
    <3> HIDE DEF off
    <3>4. summary' = WithMaxOf(id, off)
      BY <3>1, <3>3, UnchangedMax DEF op
    <3>5. QED
      BY <2>1, <2>3, <3>1, <3>3, <3>4, OneSwitched DEF op
  <2>6. QED
    BY <2>4, <2>5
<1>4. QED
  BY <1>2, <1>3

(***************************************************************************)
(* Limits, penalties and refunds.                                          *)
(***************************************************************************)
LEMMA LimitsKeep ==
  ASSUME RegistryInv, NEW id \in DOMAIN nodeOperators,
         \/ \E n \in Counts : SetNodeOperatorStakingLimit(id, n)
         \/ \E target \in Targets : UpdateTargetValidatorsLimits(id, TRUE, target)
         \/ UpdateTargetValidatorsLimits(id, FALSE, 0)
         \/ ClearNodeOperatorPenalty(id)
  PROVE  Books' /\ KeysManaged
<1> DEFINE op == nodeOperators[id]
<1>1. Good(op) /\ Clock
  BY OneOfMany DEF RegistryInv
<1>2. ASSUME NEW new, Good(new), SameKeys(op, new), new.exited = op.exited, StoreOne(id, new),
             summary' = WithMaxOf(id, new), UNCHANGED activeOperatorsCount, IncreaseNonce
      PROVE  Books' /\ KeysManaged
  <2>1. new.active = op.active /\ new.deposited = op.deposited /\ Len(new.keys) = Len(op.keys)
    BY <1>2 DEF SameKeys
  <2>2. nonce' \in {0, 1} /\ nonce' # nonce
    BY <1>2, NonceFlips
  <2>3. Books' /\ SameDeposits
    BY <1>2, <2>1, <2>2, LimitStored
  <2>4. QED
    BY <2>2, <2>3 DEF KeysManaged
<1> HIDE DEF op
<1>3. CASE \E n \in Counts : SetNodeOperatorStakingLimit(id, n)
  <2>1. PICK limit \in Counts : SetNodeOperatorStakingLimit(id, limit)
    BY <1>3
  <2> DEFINE n == Min({Total(op), Max({limit, op.deposited})})
             approved == Approved(op, n)
             new == Limited(approved)
  <2>2. /\ op.active /\ StoreOne(id, new) /\ summary' = WithMaxOf(id, new)
        /\ IncreaseNonce /\ UNCHANGED activeOperatorsCount
    BY <2>1 DEF SetNodeOperatorStakingLimit, op
  <2>3. /\ limit \in Nat /\ op.deposited \in Nat /\ Len(op.keys) \in Nat
        /\ op.vetted \in Nat /\ op.max \in Nat
        /\ op.deposited <= op.max /\ op.max <= op.vetted /\ op.vetted <= Len(op.keys)
    BY <1>1, GoodFacts, CountsAreNaturals
  <2>4. n \in op.deposited..Len(op.keys)
    <3> DEFINE m == Max({limit, op.deposited})
    <3>1. m = IF limit < op.deposited THEN op.deposited ELSE limit
      BY <2>3, MaxOfTwo
    <3> HIDE DEF m
    <3>2. m \in Nat /\ op.deposited <= m
      BY <2>3, <3>1
    <3>3. Min({Len(op.keys), m}) = IF m < Len(op.keys) THEN m ELSE Len(op.keys)
      BY <2>3, <3>2, MinOfTwo
    <3>4. n = Min({Len(op.keys), m})
      BY DEF Total, m
    <3>5. QED
      BY <2>3, <3>2, <3>3, <3>4
  <2> HIDE DEF n
  <2>5. /\ Sound(approved) /\ approved.active /\ SameCounts(op, approved)
        /\ Len(approved.keys) = Len(op.keys)
    BY <1>1, <2>2, <2>4, ApprovedIsSound
  <2> HIDE DEF approved
  <2>6. Good(new) /\ SameButMax(approved, new)
    BY <1>1, <2>5, LimitedIsGood
  <2> HIDE DEF new
  <2>7. /\ new.active = op.active /\ new.exited = op.exited /\ new.deposited = op.deposited
        /\ Len(new.keys) = Len(op.keys)
    <3>1. new.active /\ op.active /\ new.active \in BOOLEAN /\ op.active \in BOOLEAN
      BY <1>1, <2>2, <2>5, <2>6, GoodFacts DEF SameButMax
    <3>2. QED
      BY <2>5, <2>6, <3>1 DEF SameButMax, SameCounts
  <2>8. nonce' \in {0, 1} /\ nonce' # nonce
    BY <2>2, NonceFlips
  <2>9. Books' /\ SameDeposits
    BY <2>2, <2>6, <2>7, <2>8, LimitStored DEF op
  <2>10. QED
    BY <2>8, <2>9 DEF KeysManaged
<1>4. ASSUME NEW isActive \in BOOLEAN, NEW target \in Counts, isActive \/ target = 0,
             UpdateTargetValidatorsLimits(id, isActive, target)
      PROVE  Books' /\ KeysManaged
  <2> DEFINE new == Limited([op EXCEPT !.targetActive = isActive, !.target = target])
  <2>1. (IF isActive THEN target ELSE 0) = target
    BY <1>4
  <2>2. /\ StoreOne(id, new) /\ summary' = WithMaxOf(id, new)
        /\ IncreaseNonce /\ UNCHANGED activeOperatorsCount
    BY <1>4, <2>1 DEF UpdateTargetValidatorsLimits, op
  <2>3. Good(new) /\ SameKeys(op, new) /\ new.exited = op.exited
    BY <1>1, <1>4, TargetIsGood
  <2> HIDE DEF new
  <2>4. QED
    BY <1>2, <2>2, <2>3
<1>5. CASE \E target \in Targets : UpdateTargetValidatorsLimits(id, TRUE, target)
  BY <1>4, <1>5, NodeOperatorsRegistryAssumption DEF Counts
<1>6. CASE UpdateTargetValidatorsLimits(id, FALSE, 0)
  <2>1. 0 \in Counts
    BY NodeOperatorsRegistryAssumption DEF Counts
  <2>2. QED
    BY <1>4, <1>6, <2>1
<1>7. CASE ClearNodeOperatorPenalty(id)
  <2> DEFINE new == Limited([op EXCEPT !.penaltyEnd = 0])
  <2>1. /\ StoreOne(id, new) /\ summary' = WithMaxOf(id, new)
        /\ IncreaseNonce /\ UNCHANGED activeOperatorsCount
    BY <1>7 DEF ClearNodeOperatorPenalty, op
  <2>2. Good(new) /\ SameKeys(op, new) /\ new.exited = op.exited
    BY <1>1, ClearedIsGood
  <2> HIDE DEF new
  <2>3. QED
    BY <1>2, <2>1, <2>2
<1>8. QED
  BY <1>3, <1>5, <1>6, <1>7

LEMMA RefundKeeps ==
  ASSUME RegistryInv, NEW id \in DOMAIN nodeOperators, NEW n \in Counts,
         UpdateRefundedValidatorsCount(id, n)
  PROVE  Books' /\ SameDeposits /\ summary'.max <= summary.max /\ nonce' = nonce
<1> DEFINE op == nodeOperators[id]
           new == Limited([PenaltyEnd(op, op.stuck, n) EXCEPT !.refunded = n])
<1>1. Good(op) /\ Clock /\ op.max \in Nat /\ summary.max \in Nat
  BY OneOfMany, GoodFacts DEF RegistryInv
<1>2. /\ n <= op.deposited /\ StoreOne(id, new) /\ summary' = WithMaxOf(id, new)
      /\ UNCHANGED activeOperatorsCount /\ nonce' = nonce
  BY DEF UpdateRefundedValidatorsCount
<1> HIDE DEF op
<1>3. Good(new) /\ SameKeys(op, new) /\ new.exited = op.exited /\ new.max <= op.max
  BY <1>1, <1>2, RefundedIsGood
<1> HIDE DEF new
<1>4. new.active = op.active /\ new.deposited = op.deposited /\ Len(new.keys) = Len(op.keys)
      /\ new.max \in Nat
  BY <1>3, GoodFacts DEF SameKeys
<1>5. nonce' \in {0, 1}
  BY <1>2 DEF RegistryInv, Books
<1>6. Books' /\ SameDeposits /\ summary'.max = summary.max + new.max - op.max
  BY <1>2, <1>3, <1>4, <1>5, LimitStored DEF op
<1>7. QED
  BY <1>1, <1>2, <1>3, <1>4, <1>6

LEMMA UnsafeUpdateKeeps ==
  ASSUME RegistryInv, NEW id \in DOMAIN nodeOperators, NEW exited \in Counts, NEW stuck \in Counts,
         UnsafeUpdateValidatorsCount(id, exited, stuck)
  PROVE  Books' /\ ExitsReported
<1> DEFINE old == nodeOperators[id]
           op == WithStuck(old, stuck)
           new == WithExited(op, exited)
<1>1. /\ Good(old) /\ Clock /\ summary \in [Figures -> Int] /\ summary.max \in Nat
      /\ summary.exited \in Nat /\ summary.total \in Nat /\ summary.deposited \in Nat
      /\ summary.total <= UINT64_MAX
  BY OneOfMany DEF RegistryInv
<1>2. /\ StuckInRange(old, stuck) /\ ExitedInRange(op, exited, TRUE) /\ StoreOne(id, new)
      /\ summary' = [WithMaxOf(id, new) EXCEPT !.exited = @ + exited - op.exited]
      /\ IncreaseNonce /\ UNCHANGED activeOperatorsCount
  BY DEF UnsafeUpdateValidatorsCount
<1> HIDE DEF old
<1>3. Good(op) /\ SameKeys(old, op) /\ op.exited = old.exited
  BY <1>1, <1>2, WithStuckIsGood
<1> HIDE DEF op
<1>4. Good(new) /\ SameKeys(op, new) /\ new.exited = exited
  BY <1>1, <1>2, <1>3, WithExitedIsGood
<1> HIDE DEF new
<1>5. /\ new.active = old.active /\ new.deposited = old.deposited /\ Len(new.keys) = Len(old.keys)
      /\ old.exited \in Nat /\ exited \in Nat /\ new.deposited \in Nat /\ Len(new.keys) \in Nat
  BY <1>1, <1>3, <1>4, GoodFacts DEF SameKeys
<1>6. /\ WithMaxOf(id, new) \in [Figures -> Int]
      /\ WithMaxOf(id, new).max = summary.max + new.max - old.max
      /\ WithMaxOf(id, new).exited = summary.exited
      /\ WithMaxOf(id, new).total = summary.total
      /\ WithMaxOf(id, new).deposited = summary.deposited
  BY <1>4, MaxTallied DEF old
<1> DEFINE e == summary.exited + exited - old.exited
<1>7. e \in Int
  BY <1>1, <1>5
<1>8. summary' = [WithMaxOf(id, new) EXCEPT !.exited = e]
  BY <1>2, <1>3, <1>6 DEF Figures
<1> HIDE DEF e
<1>9. /\ summary' \in [Figures -> Int] /\ summary'.exited = e
      /\ summary'.max = summary.max + new.max - old.max
      /\ summary'.total = summary.total /\ summary'.deposited = summary.deposited
  BY <1>6, <1>7, <1>8 DEF Figures
<1>10. /\ e = summary.exited + new.exited - old.exited
       /\ summary.total = summary.total + Len(new.keys) - Len(old.keys)
       /\ summary.deposited = summary.deposited + new.deposited - old.deposited
  BY <1>1, <1>4, <1>5 DEF e
<1>11. nonce' \in {0, 1} /\ nonce' # nonce
  BY <1>2, NonceFlips
<1>12. Books'
  BY <1>1, <1>2, <1>4, <1>5, <1>9, <1>10, <1>11, OneReplaced DEF old
<1>13. QED
  BY <1>9, <1>11, <1>12 DEF ExitsReported

(***************************************************************************)
(* Keys are added and removed.                                             *)
(***************************************************************************)
LEMMA AddKeysKeeps ==
  ASSUME RegistryInv, NEW id \in DOMAIN nodeOperators, NEW n \in Counts, AddSigningKeys(id, n)
  PROVE  Books' /\ KeysManaged
<1> DEFINE op == nodeOperators[id]
           new == [op EXCEPT !.keys = @ \o [k \in 1..n |-> "added"]]
           t == summary.total + n
<1>1. /\ Good(op) /\ Clock /\ summary \in [Figures -> Int] /\ summary.max \in Nat
      /\ summary.exited \in Nat /\ summary.total \in Nat /\ summary.deposited \in Nat
  BY OneOfMany DEF RegistryInv
<1>2. /\ Len(op.keys) + n <= UINT64_MAX /\ t <= UINT64_MAX /\ StoreOne(id, new)
      /\ summary' = [summary EXCEPT !.total = @ + n] /\ IncreaseNonce
      /\ UNCHANGED activeOperatorsCount
  BY DEF AddSigningKeys, Total
<1> HIDE DEF op
<1>3. /\ Good(new) /\ new.active = op.active /\ new.exited = op.exited
      /\ new.deposited = op.deposited /\ Len(new.keys) = Len(op.keys) + n /\ new.max = op.max
  BY <1>1, <1>2, KeysAddedIsGood
<1>4. n \in Nat /\ t \in Int
  BY <1>1, CountsAreNaturals
<1>5. summary' = [summary EXCEPT !.total = t]
  BY <1>1, <1>2 DEF Figures
<1> HIDE DEF new, t
<1>6. /\ summary' \in [Figures -> Int] /\ summary'.exited = summary.exited
      /\ summary'.max = summary.max /\ summary'.total = t /\ summary'.deposited = summary.deposited
  BY <1>1, <1>4, <1>5 DEF Figures
<1>7. op.max \in Nat /\ op.exited \in Nat /\ op.deposited \in Nat /\ Len(op.keys) \in Nat
  BY <1>1, GoodFacts
<1>8. /\ summary.max = summary.max + new.max - op.max
      /\ summary.exited = summary.exited + new.exited - op.exited
      /\ t = summary.total + Len(new.keys) - Len(op.keys)
      /\ summary.deposited = summary.deposited + new.deposited - op.deposited
  <2>1. new.max = op.max /\ new.exited = op.exited /\ new.deposited = op.deposited
        /\ Len(new.keys) = Len(op.keys) + n
    BY <1>3
  <2>2. summary.max \in Nat /\ summary.exited \in Nat /\ summary.total \in Nat
        /\ summary.deposited \in Nat
    BY <1>1
  <2>3. QED
    BY <1>4, <1>7, <2>1, <2>2, SMTT(30) DEF t
<1>9. nonce' \in {0, 1} /\ nonce' # nonce
  BY <1>2, NonceFlips
<1>10. Books'
  BY <1>2, <1>3, <1>6, <1>8, <1>9, OneReplaced DEF op
<1>11. QED
  BY <1>6, <1>9, <1>10 DEF KeysManaged, SameDeposits

LEMMA RemoveKeysKeeps ==
  ASSUME RegistryInv, NEW id \in DOMAIN nodeOperators, NEW from \in Counts, NEW n \in Counts,
         RemoveUnusedSigningKeys(id, from, n)
  PROVE  Books' /\ KeysManaged
<1> DEFINE op == nodeOperators[id]
           new == Limited(Removed(op, from, n))
           t == summary.total - n
<1>1. /\ Good(op) /\ Clock /\ summary \in [Figures -> Int] /\ summary.max \in Nat
      /\ summary.exited \in Nat /\ summary.total \in Nat /\ summary.deposited \in Nat
      /\ summary.total <= UINT64_MAX
  BY OneOfMany DEF RegistryInv
<1>2. /\ from >= op.deposited /\ from + n <= Len(op.keys) /\ StoreOne(id, new)
      /\ summary' = [WithMaxOf(id, new) EXCEPT !.total = @ - n] /\ IncreaseNonce
      /\ UNCHANGED activeOperatorsCount
  BY DEF RemoveUnusedSigningKeys, Total
<1> HIDE DEF op
<1>3. n \in Nat /\ from \in Nat /\ t \in Int
  BY <1>1, CountsAreNaturals
<1>4. /\ Good(new) /\ new.active = op.active /\ new.exited = op.exited
      /\ new.deposited = op.deposited /\ Len(new.keys) = Len(op.keys) - n
  BY <1>1, <1>2, <1>3, RemovedIsGood
<1> HIDE DEF new
<1>5. /\ WithMaxOf(id, new) \in [Figures -> Int]
      /\ WithMaxOf(id, new).max = summary.max + new.max - op.max
      /\ WithMaxOf(id, new).exited = summary.exited
      /\ WithMaxOf(id, new).total = summary.total
      /\ WithMaxOf(id, new).deposited = summary.deposited
  BY <1>4, MaxTallied DEF op
<1>6. summary' = [WithMaxOf(id, new) EXCEPT !.total = t]
  BY <1>2, <1>5 DEF Figures
<1>7. t <= UINT64_MAX
  BY <1>1, <1>3, NodeOperatorsRegistryAssumption
<1> HIDE DEF t
<1>8. /\ summary' \in [Figures -> Int] /\ summary'.exited = summary.exited
      /\ summary'.max = summary.max + new.max - op.max
      /\ summary'.total = t /\ summary'.deposited = summary.deposited
  BY <1>3, <1>5, <1>6 DEF Figures
<1>9. op.exited \in Nat /\ op.deposited \in Nat /\ Len(op.keys) \in Nat
  BY <1>1, GoodFacts
<1>10. /\ summary.exited = summary.exited + new.exited - op.exited
       /\ t = summary.total + Len(new.keys) - Len(op.keys)
       /\ summary.deposited = summary.deposited + new.deposited - op.deposited
  BY <1>1, <1>3, <1>4, <1>9, SMTT(30) DEF t
<1>11. nonce' \in {0, 1} /\ nonce' # nonce
  BY <1>2, NonceFlips
<1>12. Books'
  BY <1>2, <1>4, <1>7, <1>8, <1>10, <1>11, OneReplaced DEF op
<1>13. QED
  BY <1>8, <1>11, <1>12 DEF KeysManaged, SameDeposits

(***************************************************************************)
(* Several operators at once.                                              *)
(***************************************************************************)
Changes(changed) ==
  /\ DOMAIN changed \subseteq DOMAIN nodeOperators
  /\ \A id \in DOMAIN changed : /\ Good(changed[id])
                                /\ changed[id].active = nodeOperators[id].active

Difference(changed, figure) ==
  [id \in DOMAIN changed |-> Measure(changed[id])[figure] - Measure(nodeOperators[id])[figure]]

SumOfChange(changed, figure) == SumFunctionOnSet(Difference(changed, figure), DOMAIN changed)

LEMMA ChangeFacts ==
  ASSUME RegistryInv, NEW changed, Changes(changed), NEW f \in Figures
  PROVE  /\ IsFiniteSet(DOMAIN changed)
         /\ \A id \in DOMAIN changed :
              /\ Difference(changed, f)[id] = Measure(changed[id])[f] - Measure(nodeOperators[id])[f]
              /\ Measure(changed[id])[f] \in Nat
              /\ Measure(nodeOperators[id])[f] \in Nat
         /\ Integral(Difference(changed, f), DOMAIN changed)
         /\ SumOfChange(changed, f) \in Int
<1>1. IsFiniteSet(DOMAIN changed)
  <2>1. IsFiniteSet(DOMAIN nodeOperators)
    BY ColumnFacts DEF RegistryInv, Books, Tallied
  <2>2. QED
    BY <2>1, FS_Subset DEF Changes
<1>2. ASSUME NEW id \in DOMAIN changed
      PROVE  /\ Difference(changed, f)[id] = Measure(changed[id])[f] - Measure(nodeOperators[id])[f]
             /\ Measure(changed[id])[f] \in Nat
             /\ Measure(nodeOperators[id])[f] \in Nat
  <2>1. Good(changed[id]) /\ Good(nodeOperators[id])
    BY OneOfMany DEF Changes
  <2>2. QED
    BY <2>1, MeasureOfGood DEF Difference
<1>3. Integral(Difference(changed, f), DOMAIN changed)
  BY <1>1, <1>2 DEF Integral
<1>4. SumOfChange(changed, f) \in Int
  BY <1>3, SumType DEF SumOfChange
<1>5. QED
  BY <1>1, <1>2, <1>3, <1>4

LEMMA NoChange ==
  ASSUME RegistryInv, NEW changed, Changes(changed), NEW f \in Figures,
         \A id \in DOMAIN changed : Measure(changed[id])[f] = Measure(nodeOperators[id])[f]
  PROVE  SumOfChange(changed, f) = 0
<1> DEFINE D == DOMAIN changed
           d == Difference(changed, f)
<1>1. IsFiniteSet(D) /\ \A id \in D : d[id] = 0
  <2>1. ASSUME NEW id \in D PROVE d[id] = 0
    <3> DEFINE a == Measure(changed[id])[f]
               b == Measure(nodeOperators[id])[f]
    <3>1. d[id] = a - b /\ a \in Nat /\ b \in Nat
      BY ChangeFacts
    <3>2. a = b
      OBVIOUS
    <3> HIDE DEF a, b, d
    <3>3. QED
      BY <3>1, <3>2
  <2>2. IsFiniteSet(D)
    BY ChangeFacts
  <2>3. QED
    BY <2>1, <2>2
<1> HIDE DEF D, d
<1>2. SumFunctionOnSet(d, D) = Cardinality(D) * 0
  <2>1. 0 \in Int
    OBVIOUS
  <2>2. QED
    BY <1>1, <2>1, SumOfConstant
<1>3. Cardinality(D) \in Nat
  BY <1>1, FS_CardinalityType
<1>4. QED
  BY <1>2, <1>3 DEF SumOfChange, D, d

LEMMA CachedDifferences ==
  ASSUME NEW changed
  PROVE  /\ MaxDifference(changed) = SumOfChange(changed, "max")
         /\ ExitedDifference(changed) = SumOfChange(changed, "exited")
<1>1. Difference(changed, "max")
        = [id \in DOMAIN changed |-> changed[id].max - nodeOperators[id].max]
  BY DEF Difference, Measure
<1>2. Difference(changed, "exited")
        = [id \in DOMAIN changed |-> changed[id].exited - nodeOperators[id].exited]
  BY DEF Difference, Measure
<1>3. DOMAIN Difference(changed, "max") = DOMAIN changed
      /\ DOMAIN Difference(changed, "exited") = DOMAIN changed
  BY DEF Difference
<1>4. QED
  BY <1>1, <1>2, <1>3 DEF MaxDifference, ExitedDifference, SumOfChange, SumFunction

LEMMA ManyReplaced ==
  ASSUME RegistryInv, NEW changed, Changes(changed), Store(changed),
         UNCHANGED activeOperatorsCount, nonce' \in {0, 1},
         summary' \in [Figures -> Int], summary'.total <= UINT64_MAX,
         \A f \in Figures : summary'[f] = summary[f] + SumOfChange(changed, f)
  PROVE  Books'
<1> DEFINE d == [f \in Figures |-> Difference(changed, f)]
           new == [id \in DOMAIN nodeOperators |->
                     IF id \in DOMAIN changed THEN changed[id] ELSE nodeOperators[id]]
<1>1. Tallied(nodeOperators, summary) /\ nodeOperators' = new
  BY DEF RegistryInv, Books, Store
<1>2. \A f \in Figures : summary'[f] = summary[f] + SumFunctionOnSet(d[f], DOMAIN changed)
  BY DEF SumOfChange
<1>3. \A f \in Figures, id \in DOMAIN changed :
        d[f][id] = Measure(changed[id])[f] - Measure(nodeOperators[id])[f]
  BY DEF Difference
<1>4. DOMAIN changed \subseteq DOMAIN nodeOperators /\ \A id \in DOMAIN changed : Good(changed[id])
  BY DEF Changes
<1> HIDE DEF d, new
<1>5. Tallied(nodeOperators', summary')
  <2>1. nodeOperators' = [id \in DOMAIN nodeOperators |->
                            IF id \in DOMAIN changed THEN changed[id] ELSE nodeOperators[id]]
    BY DEF Store
  <2>2. QED
    BY <1>1, <1>2, <1>3, <1>4, <2>1, ManyAreTallied
<1>6. DOMAIN nodeOperators' = DOMAIN nodeOperators
      /\ \A id \in DOMAIN nodeOperators : nodeOperators'[id].active = nodeOperators[id].active
  BY <1>1 DEF new, Changes
<1>7. ActiveIn(nodeOperators') = ActiveIn(nodeOperators)
  BY <1>6 DEF ActiveIn
<1>8. Len(nodeOperators') = Len(nodeOperators)
  <2>1. nodeOperators \in Seq(NodeOperator) /\ nodeOperators' \in Seq(NodeOperator)
    BY <1>5 DEF Tallied, Roster, RegistryInv, Books
  <2>2. QED
    BY <1>6, <2>1
<1>9. QED
  BY <1>5, <1>7, <1>8 DEF RegistryInv, Books

LEMMA FigureNames ==
  /\ "max" \in Figures /\ "exited" \in Figures /\ "total" \in Figures /\ "deposited" \in Figures
BY DEF Figures

(***************************************************************************)
(* The keys of a range of operators are trimmed to the deposited ones.     *)
(***************************************************************************)
LEMMA InvalidateKeeps ==
  ASSUME RegistryInv, NEW first \in DOMAIN nodeOperators, NEW last \in DOMAIN nodeOperators,
         InvalidateReadyToDepositKeysRange(first, last)
  PROVE  /\ Books' /\ SameDeposits
         /\ nonce' # nonce \/ (nonce' = nonce /\ summary'.max = summary.max)
<1> DEFINE ids == {id \in first..last : Total(nodeOperators[id]) # nodeOperators[id].deposited}
           changed == [id \in ids |-> Limited(Trimmed(nodeOperators[id]))]
           gone == [id \in ids |-> Total(nodeOperators[id]) - nodeOperators[id].deposited]
           trimmed == SumFunction(gone)
<1>1. /\ Store(changed)
      /\ summary' = [summary EXCEPT !.max = @ + MaxDifference(changed), !.total = @ - trimmed]
      /\ IF trimmed > 0 THEN IncreaseNonce ELSE UNCHANGED nonce
      /\ UNCHANGED activeOperatorsCount
  BY DEF InvalidateReadyToDepositKeysRange
<1>2. /\ ids \subseteq DOMAIN nodeOperators
      /\ \A id \in ids : Total(nodeOperators[id]) # nodeOperators[id].deposited
  <2>1. DOMAIN nodeOperators = 1..Len(nodeOperators) /\ Len(nodeOperators) \in Nat
    BY ActiveIsFinite
  <2>2. QED
    BY <2>1
<1>3. /\ summary \in [Figures -> Int] /\ summary.max \in Nat /\ summary.exited \in Nat
      /\ summary.total \in Nat /\ summary.deposited \in Nat /\ summary.total <= UINT64_MAX
      /\ Clock
  BY OneOfMany DEF RegistryInv
<1> HIDE DEF ids
<1>4. ASSUME NEW id \in ids
      PROVE  /\ Good(changed[id]) /\ changed[id].active = nodeOperators[id].active
             /\ changed[id].exited = nodeOperators[id].exited
             /\ changed[id].deposited = nodeOperators[id].deposited
             /\ Len(changed[id].keys) = nodeOperators[id].deposited
             /\ gone[id] = Len(nodeOperators[id].keys) - nodeOperators[id].deposited
             /\ gone[id] \in Nat /\ gone[id] > 0
             /\ Len(nodeOperators[id].keys) \in Nat /\ nodeOperators[id].deposited \in Nat
  <2> DEFINE op == nodeOperators[id]
  <2>1. Good(op)
    BY <1>2, OneOfMany
  <2>2. Total(op) # op.deposited /\ Total(op) = Len(op.keys)
    BY <1>2 DEF Total
  <2>3. Len(op.keys) \in Nat /\ op.deposited \in Nat /\ op.deposited <= op.max /\ op.max \in Nat
        /\ op.max <= op.vetted /\ op.vetted \in Nat /\ op.vetted <= Len(op.keys)
    BY <2>1, GoodFacts
  <2>4. gone[id] = Total(op) - op.deposited /\ changed[id] = Limited(Trimmed(op))
    OBVIOUS
  <2> HIDE DEF op, gone, changed
  <2>5. /\ Good(changed[id]) /\ changed[id].active = op.active
        /\ changed[id].exited = op.exited /\ changed[id].deposited = op.deposited
        /\ Len(changed[id].keys) = op.deposited
    BY <1>3, <2>1, <2>4, TrimmedIsGood
  <2>6. gone[id] = Len(op.keys) - op.deposited /\ gone[id] \in Nat /\ gone[id] > 0
    BY <2>2, <2>3, <2>4
  <2>7. QED
    BY <2>3, <2>5, <2>6 DEF op
<1>5. DOMAIN changed = ids /\ DOMAIN gone = ids
  OBVIOUS
<1> HIDE DEF changed, gone
<1>6. Changes(changed)
  BY <1>2, <1>4, <1>5 DEF Changes
<1>7. IsFiniteSet(ids)
  BY <1>5, <1>6, ChangeFacts, FigureNames
<1>8. trimmed = SumFunctionOnSet(gone, ids) /\ trimmed \in Nat
  <2>1. SumFunctionOnSet(gone, ids) \in Nat
    BY <1>4, <1>7, SumOfNaturals
  <2>2. QED
    BY <1>5, <2>1 DEF SumFunction
<1>9. SumOfChange(changed, "exited") = 0
  <2>1. \A id \in DOMAIN changed : Measure(changed[id])["exited"] = Measure(nodeOperators[id])["exited"]
    BY <1>4, <1>5 DEF Measure
  <2>2. QED
    BY <1>6, <2>1, NoChange, FigureNames
<1>10. SumOfChange(changed, "deposited") = 0
  <2>1. \A id \in DOMAIN changed :
          Measure(changed[id])["deposited"] = Measure(nodeOperators[id])["deposited"]
    BY <1>4, <1>5 DEF Measure
  <2>2. QED
    BY <1>6, <2>1, NoChange, FigureNames
<1>11. SumOfChange(changed, "total") = 0 - trimmed
  <2> DEFINE zero == [id \in ids |-> 0]
             d == Difference(changed, "total")
  <2>1. \A id \in ids : d[id] = Measure(changed[id])["total"] - Measure(nodeOperators[id])["total"]
    BY <1>5, <1>6, ChangeFacts, FigureNames
  <2>2. \A id \in ids : d[id] = nodeOperators[id].deposited - Len(nodeOperators[id].keys)
    BY <1>4, <2>1 DEF Measure
  <2>3. \A id \in ids : zero[id] = 0
    OBVIOUS
  <2> HIDE DEF zero, d
  <2>4. \A id \in ids : d[id] = zero[id] - gone[id]
    BY <1>4, <2>2, <2>3
  <2>5. Integral(zero, ids) /\ Integral(gone, ids)
    BY <1>4, <1>7, <2>3 DEF Integral
  <2>6. SumFunctionOnSet(d, ids) = SumFunctionOnSet(zero, ids) - SumFunctionOnSet(gone, ids)
    BY <2>4, <2>5, SumOfDifferences
  <2>7. SumFunctionOnSet(zero, ids) = Cardinality(ids) * 0 /\ Cardinality(ids) \in Nat
    BY <1>7, <2>3, SumOfConstant, FS_CardinalityType
  <2>8. QED
    BY <1>5, <1>8, <2>6, <2>7 DEF SumOfChange, d
<1> DEFINE m == summary.max + SumOfChange(changed, "max")
           t == summary.total - trimmed
<1>12. m \in Int /\ t \in Int /\ t <= UINT64_MAX
  <2>1. SumOfChange(changed, "max") \in Int
    BY <1>6, ChangeFacts, FigureNames
  <2>2. QED
    BY <1>3, <1>8, <2>1, NodeOperatorsRegistryAssumption
<1>13. summary' = [summary EXCEPT !.max = m, !.total = t]
  BY <1>1, <1>3, CachedDifferences DEF Figures
<1>14. \A f \in Figures : summary'[f] = summary[f] + SumOfChange(changed, f)
  <2> HIDE DEF trimmed
  <2>1. t = summary.total + SumOfChange(changed, "total")
    BY <1>3, <1>8, <1>11
  <2>2. summary.exited = summary.exited + SumOfChange(changed, "exited")
        /\ summary.deposited = summary.deposited + SumOfChange(changed, "deposited")
    BY <1>3, <1>9, <1>10
  <2> HIDE DEF t
  <2>3. QED
    BY <1>3, <1>13, <2>1, <2>2 DEF Figures
<1> HIDE DEF m, t
<1>15. /\ summary' \in [Figures -> Int] /\ summary'.total <= UINT64_MAX
       /\ summary'.exited = summary.exited /\ summary'.deposited = summary.deposited
       /\ summary'.max = m
  BY <1>3, <1>12, <1>13 DEF Figures
<1>16. CASE trimmed > 0
  <2>1. nonce' \in {0, 1} /\ nonce' # nonce
    BY <1>1, <1>16, NonceFlips
  <2>2. QED
    BY <1>1, <1>6, <1>14, <1>15, <2>1, ManyReplaced DEF SameDeposits
<1>17. CASE ~(trimmed > 0)
  <2>1. nonce' = nonce /\ nonce' \in {0, 1}
    BY <1>1, <1>17 DEF RegistryInv, Books
  <2>2. Books' /\ SameDeposits
    BY <1>1, <1>6, <1>14, <1>15, <2>1, ManyReplaced DEF SameDeposits
  <2>3. ids = {}
    <3> SUFFICES ASSUME NEW id \in ids PROVE FALSE
      OBVIOUS
    <3>1. SumFunctionOnSet(gone, ids) >= gone[id]
      BY <1>4, <1>7, SumCoversSummand
    <3>2. QED
      BY <1>4, <1>8, <1>17, <3>1
  <2>4. SumOfChange(changed, "max") = 0
    BY <1>5, <1>6, <2>3, NoChange, FigureNames
  <2>5. summary'.max = summary.max
    BY <1>3, <1>15, <2>4 DEF m
  <2>6. QED
    BY <2>1, <2>2, <2>5
<1>18. QED
  BY <1>16, <1>17

(***************************************************************************)
(* Reports of stuck and exited validators.                                 *)
(***************************************************************************)
LEMMA StuckReportKeeps ==
  ASSUME RegistryInv, NEW ids \in SUBSET DOMAIN nodeOperators, NEW counts \in [ids -> Counts],
         UpdateStuckValidatorsCount(counts)
  PROVE  Books' /\ ExitsReported
<1> DEFINE changed == [id \in DOMAIN counts |-> WithStuck(nodeOperators[id], counts[id])]
           m == summary.max + SumOfChange(changed, "max")
<1>1. /\ \A id \in DOMAIN counts : StuckInRange(nodeOperators[id], counts[id])
      /\ Store(changed) /\ summary' = [summary EXCEPT !.max = @ + MaxDifference(changed)]
      /\ IncreaseNonce /\ UNCHANGED activeOperatorsCount
  BY DEF UpdateStuckValidatorsCount
<1>2. /\ summary \in [Figures -> Int] /\ summary.max \in Nat /\ summary.exited \in Nat
      /\ summary.total \in Nat /\ summary.deposited \in Nat /\ summary.total <= UINT64_MAX
      /\ Clock
  <2>1. Tallied(nodeOperators, summary) /\ Clock
    BY DEF RegistryInv, Books
  <2>2. QED
    BY <2>1, FiguresAreOrdered DEF Tallied
<1>3. DOMAIN changed = ids /\ ids \subseteq DOMAIN nodeOperators
  OBVIOUS
<1>4. ASSUME NEW id \in ids
      PROVE  Good(changed[id]) /\ SameKeys(nodeOperators[id], changed[id])
             /\ changed[id].exited = nodeOperators[id].exited
  <2>1. Good(nodeOperators[id]) /\ counts[id] \in Counts /\ StuckInRange(nodeOperators[id], counts[id])
    BY <1>1, OneOfMany
  <2>2. changed[id] = WithStuck(nodeOperators[id], counts[id])
    OBVIOUS
  <2> HIDE DEF changed
  <2>3. QED
    BY <1>2, <2>1, <2>2, WithStuckIsGood
<1> HIDE DEF changed
<1>5. Changes(changed)
  BY <1>3, <1>4 DEF Changes, SameKeys
<1>6. \A f \in Figures \ {"max"} : SumOfChange(changed, f) = 0
  <2> SUFFICES ASSUME NEW f \in Figures \ {"max"} PROVE SumOfChange(changed, f) = 0
    OBVIOUS
  <2>1. \A id \in DOMAIN changed : Measure(changed[id])[f] = Measure(nodeOperators[id])[f]
    BY <1>3, <1>4 DEF Measure, SameKeys, Figures
  <2>2. QED
    BY <1>5, <2>1, NoChange
<1>7. m \in Int
  <2>1. SumOfChange(changed, "max") \in Int
    BY <1>5, ChangeFacts, FigureNames
  <2>2. QED
    BY <1>2, <2>1
<1>8. summary' = [summary EXCEPT !.max = m]
  BY <1>1, <1>2, CachedDifferences DEF Figures
<1>9. /\ summary' \in [Figures -> Int] /\ summary'.total = summary.total
      /\ summary'.deposited = summary.deposited
      /\ summary'["max"] = m /\ \A f \in Figures \ {"max"} : summary'[f] = summary[f]
  <2> HIDE DEF m
  <2> QED BY <1>2, <1>7, <1>8 DEF Figures
<1>10. \A f \in Figures : summary'[f] = summary[f] + SumOfChange(changed, f)
  BY <1>2, <1>6, <1>9
<1>11. nonce' \in {0, 1} /\ nonce' # nonce
  BY <1>1, NonceFlips
<1>12. Books'
  BY <1>1, <1>2, <1>5, <1>9, <1>10, <1>11, ManyReplaced
<1>13. QED
  BY <1>9, <1>11, <1>12 DEF ExitsReported

LEMMA ExitedReportKeeps ==
  ASSUME RegistryInv, NEW ids \in SUBSET DOMAIN nodeOperators, NEW counts \in [ids -> Counts],
         UpdateExitedValidatorsCount(counts)
  PROVE  Books' /\ ExitsReported
<1> DEFINE changed == [id \in DOMAIN counts |-> WithExited(nodeOperators[id], counts[id])]
           m == summary.max + SumOfChange(changed, "max")
           e == summary.exited + SumOfChange(changed, "exited")
           Others == Figures \ {"max", "exited"}
<1>1. /\ \A id \in DOMAIN counts : ExitedInRange(nodeOperators[id], counts[id], FALSE)
      /\ Store(changed)
      /\ summary' = [summary EXCEPT !.max = @ + MaxDifference(changed),
                                    !.exited = @ + ExitedDifference(changed)]
      /\ IncreaseNonce /\ UNCHANGED activeOperatorsCount
  BY DEF UpdateExitedValidatorsCount
<1>2. /\ summary \in [Figures -> Int] /\ summary.max \in Nat /\ summary.exited \in Nat
      /\ summary.total \in Nat /\ summary.deposited \in Nat /\ summary.total <= UINT64_MAX
      /\ Clock
  <2>1. Tallied(nodeOperators, summary) /\ Clock
    BY DEF RegistryInv, Books
  <2>2. QED
    BY <2>1, FiguresAreOrdered DEF Tallied
<1>3. DOMAIN changed = ids /\ ids \subseteq DOMAIN nodeOperators
  OBVIOUS
<1>4. ASSUME NEW id \in ids
      PROVE  Good(changed[id]) /\ SameKeys(nodeOperators[id], changed[id])
  <2>1. Good(nodeOperators[id]) /\ counts[id] \in Counts
        /\ ExitedInRange(nodeOperators[id], counts[id], FALSE)
    BY <1>1, OneOfMany
  <2>2. changed[id] = WithExited(nodeOperators[id], counts[id])
    OBVIOUS
  <2> HIDE DEF changed
  <2>3. QED
    BY <1>2, <2>1, <2>2, WithExitedIsGood
<1> HIDE DEF changed
<1>5. Changes(changed)
  BY <1>3, <1>4 DEF Changes, SameKeys
<1>6. \A f \in Others : SumOfChange(changed, f) = 0
  <2> SUFFICES ASSUME NEW f \in Others PROVE SumOfChange(changed, f) = 0
    OBVIOUS
  <2>1. \A id \in DOMAIN changed : Measure(changed[id])[f] = Measure(nodeOperators[id])[f]
    BY <1>3, <1>4 DEF Measure, SameKeys, Figures
  <2>2. QED
    BY <1>5, <2>1, NoChange
<1>7. m \in Int /\ e \in Int
  <2>1. SumOfChange(changed, "max") \in Int /\ SumOfChange(changed, "exited") \in Int
    BY <1>5, ChangeFacts, FigureNames
  <2>2. QED
    BY <1>2, <2>1
<1>8. summary' = [summary EXCEPT !.max = m, !.exited = e]
  BY <1>1, <1>2, CachedDifferences DEF Figures
<1>9. /\ summary' \in [Figures -> Int] /\ summary'.total = summary.total
      /\ summary'.deposited = summary.deposited
      /\ summary'["max"] = m /\ summary'["exited"] = e
      /\ \A f \in Others : summary'[f] = summary[f]
  <2> HIDE DEF m, e
  <2> QED BY <1>2, <1>7, <1>8 DEF Figures
<1>10. \A f \in Figures : summary'[f] = summary[f] + SumOfChange(changed, f)
  BY <1>2, <1>6, <1>9
<1>11. nonce' \in {0, 1} /\ nonce' # nonce
  BY <1>1, NonceFlips
<1>12. Books'
  BY <1>1, <1>2, <1>5, <1>9, <1>10, <1>11, ManyReplaced
<1>13. QED
  BY <1>9, <1>11, <1>12 DEF ExitsReported

------------------------------------------------------------------------------

(***************************************************************************)
(* The candidates of an allocation: the operators that wait for deposits,  *)
(* each of them once, in the order of their ids.                           *)
(***************************************************************************)
Waits(id) == nodeOperators[id].deposited # nodeOperators[id].max

Waiting == {id \in DOMAIN nodeOperators : Waits(id)}

Found(found, id) == IF Waits(id) THEN Append(found, id) ELSE found

LEMMA FoundIsSequence ==
  ASSUME NEW found \in Seq(Nat), NEW id \in Nat
  PROVE  Found(found, id) \in Seq(Nat)
BY DEF Found

FindingRounds(n) == [pair \in (1..n) \X Seq(Nat) |-> Found(pair[2], pair[1])]

LEMMA CandidatesHaveTrace ==
  ASSUME NEW n \in Nat, DOMAIN nodeOperators = 1..n
  PROVE  HasFoldTrace(n, Seq(Nat), <<>>, FindingRounds(n), Candidates)
<1> DEFINE V == Seq(Nat)
           S == 1..n
           F == FindingRounds(n)
           body(h) == [s \in SUBSET S |-> IF s = {} THEN <<>>
                                          ELSE Found(h[s \ {Max(s)}], Max(s))]
<1>1. F \in [S \X V -> V] /\ \A i \in S, found \in V : F[<<i, found>>] = Found(found, i)
  <2>1. \A pair \in S \X V : Found(pair[2], pair[1]) \in V
    <3> SUFFICES ASSUME NEW pair \in S \X V PROVE Found(pair[2], pair[1]) \in V
      OBVIOUS
    <3>1. pair[1] \in Nat /\ pair[2] \in V
      OBVIOUS
    <3>2. QED
      BY <3>1, FoundIsSequence
  <2>2. F = [pair \in S \X V |-> Found(pair[2], pair[1])]
    BY DEF FindingRounds
  <2> HIDE DEF F, V, S
  <2>3. QED
    BY <2>1, <2>2
<1>2. <<>> \in V
  OBVIOUS
<1> HIDE DEF V, F
<1>3. PICK g : FoldsWith(g, n, V, <<>>, F)
  BY <1>1, <1>2, FoldExists
<1>4. \A s \in SUBSET S : s # {} => Max(s) \in S
  BY HasGreatest
<1>5. g = body(g)
  <2>1. ASSUME NEW s \in SUBSET S PROVE g[s] = body(g)[s]
    <3>1. CASE s = {}
      BY <1>3, <3>1 DEF FoldsWith
    <3>2. CASE s # {}
      <4>1. s \ {Max(s)} \in SUBSET S
        OBVIOUS
      <4>2. g[s \ {Max(s)}] \in V /\ g[s] = F[<<Max(s), g[s \ {Max(s)}]>>]
        BY <1>3, <3>2, <4>1 DEF FoldsWith
      <4>3. g[s] = Found(g[s \ {Max(s)}], Max(s))
        BY <1>1, <1>4, <3>2, <4>2
      <4>4. QED
        BY <3>2, <4>3
    <3>3. QED
      BY <3>1, <3>2
  <2>2. g = [s \in SUBSET S |-> g[s]]
    BY <1>3 DEF FoldsWith
  <2>3. body(g) = [s \in SUBSET S |-> body(g)[s]]
    OBVIOUS
  <2> HIDE DEF body
  <2>4. QED
    BY <2>1, <2>2, <2>3
<1> DEFINE iter == CHOOSE h : h = body(h)
<1>6. iter = body(iter)
  <2> HIDE DEF body
  <2> QED BY <1>5
<1>7. Candidates = iter[S]
  <2> DEFINE seq == [id \in DOMAIN nodeOperators |-> id]
             other(h) == [s \in SUBSET (DOMAIN seq) |->
                            IF s = {} THEN <<>>
                            ELSE IF nodeOperators[seq[Max(s)]].deposited
                                      = nodeOperators[seq[Max(s)]].max
                                 THEN h[s \ {Max(s)}]
                                 ELSE Append(h[s \ {Max(s)}], seq[Max(s)])]
  <2>1. Candidates = (CHOOSE h : h = other(h))[DOMAIN seq]
    BY DEF Candidates, FoldLeft, MapThenFoldSet
  <2>2. DOMAIN seq = S /\ \A id \in S : seq[id] = id
    OBVIOUS
  <2>3. ASSUME NEW h PROVE other(h) = body(h)
    <3>1. \A s \in SUBSET S : s # {} => seq[Max(s)] = Max(s)
      BY <1>4, <2>2
    <3> HIDE DEF seq
    <3>2. \A s \in SUBSET S : other(h)[s] = body(h)[s]
      BY <2>2, <3>1 DEF Found, Waits
    <3>3. other(h) = [s \in SUBSET S |-> other(h)[s]] /\ body(h) = [s \in SUBSET S |-> body(h)[s]]
      BY <2>2
    <3> HIDE DEF other, body
    <3>4. QED
      BY <3>2, <3>3
  <2> HIDE DEF other, body, seq
  <2>4. QED
    BY <2>1, <2>2, <2>3
<1> HIDE DEF iter
<1>8. iter[{}] = <<>>
  BY <1>6
<1>9. \A s \in SUBSET S : s # {} /\ iter[s \ {Max(s)}] \in V =>
         iter[s] = F[<<Max(s), iter[s \ {Max(s)}]>>]
  <2> SUFFICES ASSUME NEW s \in SUBSET S, s # {}, iter[s \ {Max(s)}] \in V
               PROVE  iter[s] = F[<<Max(s), iter[s \ {Max(s)}]>>]
    OBVIOUS
  <2>1. iter[s] = Found(iter[s \ {Max(s)}], Max(s))
    BY <1>6
  <2>2. QED
    BY <1>1, <1>4, <2>1
<1> HIDE DEF body
<1>10. IsFold(iter, n, V, <<>>, F)
  BY <1>8, <1>9 DEF IsFold
<1>11. HasFoldTrace(n, V, <<>>, F, iter[1..n])
  BY <1>1, <1>2, <1>10, FoldHasTrace
<1>12. QED
  BY <1>7, <1>11 DEF V, F

Lists(found, r) ==
  /\ found \in Seq(Nat)
  /\ \A i \in DOMAIN found : found[i] \in 1..r /\ Waits(found[i])
  /\ \A i, j \in DOMAIN found : found[i] = found[j] => i = j
  /\ \A id \in 1..r : Waits(id) => \E i \in DOMAIN found : found[i] = id

LEMMA FoundLists ==
  ASSUME NEW r \in Nat, NEW found, Lists(found, r)
  PROVE  Lists(Found(found, r + 1), r + 1)
<1>1. /\ found \in Seq(Nat)
      /\ \A i \in DOMAIN found : found[i] \in 1..r /\ Waits(found[i])
      /\ \A i, j \in DOMAIN found : found[i] = found[j] => i = j
      /\ \A id \in 1..r : Waits(id) => \E i \in DOMAIN found : found[i] = id
  BY DEF Lists
<1>2. CASE ~Waits(r + 1)
  <2>1. Found(found, r + 1) = found
    BY <1>2 DEF Found
  <2>2. \A id \in 1..(r + 1) : id \in 1..r \/ id = r + 1
    OBVIOUS
  <2>3. QED
    BY <1>1, <1>2, <2>1, <2>2 DEF Lists
<1>3. CASE Waits(r + 1)
  <2> DEFINE new == Append(found, r + 1)
             m   == Len(found)
  <2>1. Found(found, r + 1) = new
    BY <1>3 DEF Found
  <2>2. /\ new \in Seq(Nat) /\ m \in Nat /\ DOMAIN found = 1..m /\ DOMAIN new = 1..(m + 1)
        /\ new[m + 1] = r + 1 /\ \A i \in 1..m : new[i] = found[i]
    BY <1>1
  <2> HIDE DEF new, m
  <2>3. \A i \in DOMAIN new : i \in DOMAIN found \/ i = m + 1
    BY <2>2
  <2>4. \A i \in DOMAIN found : new[i] = found[i] /\ new[i] \in 1..r /\ new[i] # r + 1
    BY <1>1, <2>2
  <2>5. ASSUME NEW i \in DOMAIN new PROVE new[i] \in 1..(r + 1) /\ Waits(new[i])
    BY <1>1, <1>3, <2>2, <2>3, <2>4
  <2>6. ASSUME NEW i \in DOMAIN new, NEW j \in DOMAIN new, new[i] = new[j] PROVE i = j
    BY <1>1, <2>2, <2>3, <2>4, <2>6
  <2>7. ASSUME NEW id \in 1..(r + 1), Waits(id) PROVE \E i \in DOMAIN new : new[i] = id
    <3>1. CASE id = r + 1
      <4>1. m + 1 \in DOMAIN new
        BY <2>2
      <4>2. QED
        BY <2>2, <3>1, <4>1
    <3>2. CASE id # r + 1
      <4>1. id \in 1..r
        BY <3>2
      <4>2. PICK i \in DOMAIN found : found[i] = id
        BY <1>1, <2>7, <4>1
      <4>3. i \in DOMAIN new
        BY <2>2
      <4>4. QED
        BY <2>4, <4>2, <4>3
    <3>3. QED
      BY <3>1, <3>2
  <2>8. QED
    BY <2>1, <2>2, <2>5, <2>6, <2>7 DEF Lists
<1>4. QED
  BY <1>2, <1>3

LEMMA CandidatesFacts ==
  ASSUME NEW n \in Nat, DOMAIN nodeOperators = 1..n
  PROVE  Lists(Candidates, n)
<1> DEFINE F == FindingRounds(n)
<1>1. PICK trace : FoldTrace(trace, n, Seq(Nat), <<>>, F) /\ trace[n] = Candidates
  BY CandidatesHaveTrace DEF HasFoldTrace
<1>2. trace[0] = <<>> /\ \A r \in 1..n : trace[r] = F[<<r, trace[r - 1]>>]
  BY <1>1 DEF FoldTrace
<1>3. \A r \in 1..n, found \in Seq(Nat) : F[<<r, found>>] = Found(found, r)
  BY DEF FindingRounds
<1> HIDE DEF F
<1> DEFINE N == {r \in Nat : r <= n => Lists(trace[r], r)}
<1>4. 0 \in N
  <2>1. Lists(<<>>, 0)
    BY DEF Lists
  <2>2. QED
    BY <1>2, <2>1
<1>5. ASSUME NEW r \in N PROVE r + 1 \in N
  <2> SUFFICES ASSUME r + 1 <= n PROVE Lists(trace[r + 1], r + 1)
    OBVIOUS
  <2>1. r \in Nat /\ Lists(trace[r], r) /\ r + 1 \in 1..n /\ (r + 1) - 1 = r
    OBVIOUS
  <2>2. trace[r] \in Seq(Nat)
    BY <2>1 DEF Lists
  <2>3. trace[r + 1] = F[<<r + 1, trace[r]>>]
    BY <1>2, <2>1
  <2>4. trace[r + 1] = Found(trace[r], r + 1)
    BY <1>3, <2>1, <2>2, <2>3
  <2>5. QED
    BY <2>1, <2>4, FoundLists
<1>6. N \in SUBSET Nat
  OBVIOUS
<1>7. n \in N => Lists(trace[n], n)
  OBVIOUS
<1> HIDE DEF N
<1>8. N = Nat
  BY <1>4, <1>5, <1>6, AllNaturals
<1>9. QED
  BY <1>1, <1>7, <1>8

(***************************************************************************)
(* The candidates as buckets: what the summary calls depositable is the    *)
(* space in them, and they are no more than the active operators.          *)
(***************************************************************************)
Room == [id \in DOMAIN nodeOperators |-> nodeOperators[id].max - nodeOperators[id].deposited]

LEMMA CandidateFacts ==
  ASSUME RegistryInv, NEW k, k = Len(Candidates)
  PROVE  /\ k \in Nat /\ DOMAIN Candidates = 1..k
         /\ ActiveKeys \in [1..k -> Nat] /\ Capacities \in [1..k -> Nat]
         /\ \A i \in 1..k :
              /\ Candidates[i] \in DOMAIN nodeOperators /\ Waits(Candidates[i])
              /\ ActiveKeys[i] = nodeOperators[Candidates[i]].deposited - nodeOperators[Candidates[i]].exited
              /\ Capacities[i] = nodeOperators[Candidates[i]].max - nodeOperators[Candidates[i]].exited
              /\ ActiveKeys[i] < Capacities[i]
         /\ \A i, j \in 1..k : Candidates[i] = Candidates[j] => i = j
         /\ {Candidates[i] : i \in 1..k} = Waiting
<1>1. DOMAIN nodeOperators = 1..Len(nodeOperators) /\ Len(nodeOperators) \in Nat
  BY ActiveIsFinite
<1>2. Lists(Candidates, Len(nodeOperators))
  BY <1>1, CandidatesFacts
<1>3. k \in Nat /\ DOMAIN Candidates = 1..k
  BY <1>2 DEF Lists
<1>4. /\ \A i \in 1..k : Candidates[i] \in DOMAIN nodeOperators /\ Waits(Candidates[i])
      /\ \A i, j \in 1..k : Candidates[i] = Candidates[j] => i = j
      /\ \A id \in DOMAIN nodeOperators : Waits(id) => \E i \in 1..k : Candidates[i] = id
  BY <1>1, <1>2, <1>3 DEF Lists
<1>5. {Candidates[i] : i \in 1..k} = Waiting
  BY <1>4 DEF Waiting
<1>6. ASSUME NEW i \in 1..k
      PROVE  /\ ActiveKeys[i] = nodeOperators[Candidates[i]].deposited - nodeOperators[Candidates[i]].exited
             /\ Capacities[i] = nodeOperators[Candidates[i]].max - nodeOperators[Candidates[i]].exited
             /\ ActiveKeys[i] < Capacities[i] /\ ActiveKeys[i] \in Nat /\ Capacities[i] \in Nat
  <2> DEFINE op == nodeOperators[Candidates[i]]
  <2>1. /\ op.deposited \in Nat /\ op.exited \in Nat /\ op.stuck \in Nat /\ op.max \in Nat
        /\ op.exited + op.stuck <= op.deposited /\ op.deposited <= op.max
    BY <1>4, OneOfMany, GoodFacts
  <2>2. op.deposited # op.max
    BY <1>4 DEF Waits
  <2>3. ActiveKeys[i] = op.deposited - op.exited /\ Capacities[i] = op.max - op.exited
    BY <1>3 DEF ActiveKeys, Capacities
  <2> HIDE DEF op
  <2>4. op.deposited - op.exited \in Nat /\ op.max - op.exited \in Nat
        /\ op.deposited - op.exited < op.max - op.exited
    BY <2>1, <2>2
  <2>5. QED
    BY <2>3, <2>4 DEF op
<1>7. ActiveKeys = [i \in 1..k |-> ActiveKeys[i]] /\ Capacities = [i \in 1..k |-> Capacities[i]]
  BY <1>3 DEF ActiveKeys, Capacities
<1>8. ActiveKeys \in [1..k -> Nat] /\ Capacities \in [1..k -> Nat]
  BY <1>6, <1>7
<1>9. QED
  BY <1>3, <1>4, <1>5, <1>6, <1>8

LEMMA CandidatesAreActive ==
  ASSUME RegistryInv
  PROVE  Len(Candidates) <= activeOperatorsCount
<1> DEFINE k == Len(Candidates)
           A == ActiveIn(nodeOperators)
           c == [i \in 1..k |-> Candidates[i]]
<1>1. /\ k \in Nat
      /\ \A i \in 1..k : Candidates[i] \in DOMAIN nodeOperators /\ Waits(Candidates[i])
      /\ \A i, j \in 1..k : Candidates[i] = Candidates[j] => i = j
  BY CandidateFacts
<1>2. \A id \in DOMAIN nodeOperators : Waits(id) => id \in A
  BY OneOfMany, GoodFacts DEF Waits, ActiveIn
<1>3. IsFiniteSet(A) /\ activeOperatorsCount = Cardinality(A)
  BY ActiveIsFinite
<1> HIDE DEF A, k
<1>4. c \in Injection(1..k, A)
  BY <1>1, <1>2 DEF Injection, IsInjective
<1> HIDE DEF c
<1>5. Cardinality(1..k) <= Cardinality(A)
  BY <1>3, <1>4, FS_Injection
<1>6. Cardinality(1..k) = k
  BY <1>1, FS_Interval
<1>7. QED
  BY <1>3, <1>5, <1>6 DEF k

LEMMA RoomIsDepositable ==
  ASSUME RegistryInv
  PROVE  /\ SumFunctionOnSet(Room, DOMAIN nodeOperators) = summary.max - summary.deposited
         /\ Integral(Room, DOMAIN nodeOperators)
<1> DEFINE S == DOMAIN nodeOperators
           M == Column(nodeOperators, "max")
           D == Column(nodeOperators, "deposited")
<1>1. Tallied(nodeOperators, summary) /\ Roster(nodeOperators)
  BY DEF RegistryInv, Books, Tallied
<1>2. /\ SumFunction(M) = SumFunctionOnSet(M, S) /\ Integral(M, S)
      /\ SumFunction(D) = SumFunctionOnSet(D, S) /\ Integral(D, S)
      /\ \A id \in S : M[id] = Measure(nodeOperators[id])["max"] /\ M[id] \in Nat
      /\ \A id \in S : D[id] = Measure(nodeOperators[id])["deposited"] /\ D[id] \in Nat
  BY <1>1, ColumnFacts, FigureNames
<1>3. summary["max"] = SumFunction(M) /\ summary["deposited"] = SumFunction(D)
  BY <1>1, FigureNames DEF Tallied
<1>4. \A id \in S : Room[id] = M[id] - D[id]
  BY <1>2 DEF Room, Measure
<1> HIDE DEF S, M, D
<1>5. SumFunctionOnSet(Room, S) = SumFunctionOnSet(M, S) - SumFunctionOnSet(D, S)
  BY <1>2, <1>4, SumOfDifferences
<1>6. Integral(Room, S)
  BY <1>2, <1>4 DEF Integral
<1>7. QED
  BY <1>2, <1>3, <1>5, <1>6 DEF S

LEMMA SpaceIsDepositable ==
  ASSUME RegistryInv
  PROVE  Space(ActiveKeys, Capacities) = summary.max - summary.deposited
<1> DEFINE k == Len(Candidates)
           S == 1..k
           T == DOMAIN nodeOperators
           space == [i \in DOMAIN ActiveKeys |-> Capacities[i] - ActiveKeys[i]]
           c == Candidates
<1>1. /\ k \in Nat /\ ActiveKeys \in [1..k -> Nat] /\ Capacities \in [1..k -> Nat]
      /\ \A i \in S :
           /\ c[i] \in T /\ Waits(c[i])
           /\ ActiveKeys[i] = nodeOperators[c[i]].deposited - nodeOperators[c[i]].exited
           /\ Capacities[i] = nodeOperators[c[i]].max - nodeOperators[c[i]].exited
           /\ ActiveKeys[i] < Capacities[i]
      /\ \A i, j \in S : c[i] = c[j] => i = j
      /\ {c[i] : i \in S} = Waiting
  BY CandidateFacts
<1>2. DOMAIN ActiveKeys = S
  BY <1>1
<1>3. Free(ActiveKeys, Capacities) = S
  BY <1>1, <1>2 DEF Free
<1>4. ASSUME NEW i \in S
      PROVE  space[i] \in Int /\ space[i] = Room[c[i]]
  <2> DEFINE op == nodeOperators[c[i]]
  <2>1. op.deposited \in Nat /\ op.exited \in Nat /\ op.max \in Nat
    BY <1>1, OneOfMany, GoodFacts
  <2>2. ActiveKeys[i] = op.deposited - op.exited /\ Capacities[i] = op.max - op.exited
        /\ Room[c[i]] = op.max - op.deposited
    BY <1>1 DEF Room
  <2>3. space[i] = Capacities[i] - ActiveKeys[i]
    BY <1>2
  <2> HIDE DEF op, space, c
  <2>4. QED
    BY <2>1, <2>2, <2>3
<1>5. Integral(space, S)
  <2>1. IsFiniteSet(S)
    BY <1>1, FS_Interval
  <2> HIDE DEF space
  <2>2. QED
    BY <1>4, <2>1 DEF Integral
<1>6. Integral(Room, T) /\ SumFunctionOnSet(Room, T) = summary.max - summary.deposited
  BY RoomIsDepositable
<1>7. Waiting \in SUBSET T /\ \A id \in T \ Waiting : Room[id] = 0
  <2> SUFFICES ASSUME NEW id \in T \ Waiting PROVE Room[id] = 0
    BY DEF Waiting
  <2>1. nodeOperators[id].deposited = nodeOperators[id].max /\ nodeOperators[id].max \in Nat
    BY OneOfMany, GoodFacts DEF Waiting, Waits
  <2>2. QED
    BY <2>1 DEF Room
<1>8. SumFunctionOnSet(Room, T) = SumFunctionOnSet(Room, Waiting)
  <2> HIDE DEF T
  <2> QED BY <1>6, <1>7, SumOnSubset
<1>9. SumFunctionOnSet(Room, {c[i] : i \in S}) = SumFunctionOnSet(space, S)
  <2> HIDE DEF T, S, space, c
  <2>1. IsFiniteSet(T) /\ \A i \in S : c[i] \in T
    BY <1>1, <1>6 DEF Integral
  <2>2. \A i, j \in S : c[i] = c[j] => i = j
    BY <1>1
  <2>3. \A i \in S : Room[c[i]] = space[i]
    BY <1>4
  <2>4. QED
    BY <1>5, <2>1, <2>2, <2>3, SumRenamed
<1>10. Space(ActiveKeys, Capacities) = SumFunctionOnSet(space, S)
  BY <1>3 DEF Space
<1> HIDE DEF space, S, c, T
<1>11. QED
  BY <1>1, <1>6, <1>8, <1>9, <1>10

LEMMA AllocationOfCandidates ==
  ASSUME RegistryInv, NEW n \in Nat, NEW after, after = Allocate(ActiveKeys, Capacities, n),
         NEW k, k = Len(Candidates)
  PROVE  /\ IsInput(k, ActiveKeys, Capacities, n)
         /\ after \in [1..k -> Nat]
         /\ \A i \in 1..k : ActiveKeys[i] <= after[i] /\ after[i] <= Capacities[i]
         /\ Allocated(ActiveKeys, after) \in Int
         /\ Allocated(ActiveKeys, after)
              = IF summary.max - summary.deposited < n THEN summary.max - summary.deposited ELSE n
<1>1. /\ k \in Nat /\ ActiveKeys \in [1..k -> Nat] /\ Capacities \in [1..k -> Nat]
      /\ \A i \in 1..k : ActiveKeys[i] < Capacities[i]
  BY CandidateFacts
<1>2. IsInput(k, ActiveKeys, Capacities, n)
  BY <1>1 DEF IsInput
<1>3. after \in Partial(k, ActiveKeys, Capacities, n)
  BY <1>2, AllocationEnds
<1>4. /\ after \in [1..k -> Nat]
      /\ \A i \in 1..k : after[i] >= ActiveKeys[i]
      /\ \A i \in 1..k : after[i] > ActiveKeys[i] => after[i] <= Capacities[i]
  BY <1>3 DEF Partial
<1>5. \A i \in 1..k : ActiveKeys[i] <= after[i] /\ after[i] <= Capacities[i]
  BY <1>1, <1>4
<1>6. IsMinFirst(ActiveKeys, Capacities, n, after)
  BY <1>2, AllocateIsMinFirst
<1>7. Allocated(ActiveKeys, after) = Min({n, summary.max - summary.deposited})
  BY <1>6, SpaceIsDepositable DEF IsMinFirst
<1>8. Min({n, summary.max - summary.deposited})
        = IF summary.max - summary.deposited < n THEN summary.max - summary.deposited ELSE n
  <2>1. summary.max \in Nat /\ summary.deposited \in Nat
    BY FiguresAreOrdered DEF RegistryInv, Books
  <2>2. QED
    BY <2>1, MinOfTwo
<1>9. Allocated(ActiveKeys, after) \in Int
  BY <1>1, <1>4, AllocatedIsSum
<1>10. QED
  BY <1>2, <1>4, <1>5, <1>7, <1>8, <1>9

(***************************************************************************)
(* A deposit.                                                              *)
(***************************************************************************)
LEMMA GivenIsDeposited ==
  ASSUME RegistryInv, NEW k, k = Len(Candidates), NEW after \in [1..k -> Nat],
         NEW J, J = {j \in 1..k : after[j] # ActiveKeys[j]},
         NEW h, \A i \in J : h[Candidates[i]] = after[i] - ActiveKeys[i]
  PROVE  SumFunctionOnSet(h, {Candidates[i] : i \in J}) = Allocated(ActiveKeys, after)
<1> DEFINE given == Given(ActiveKeys, after)
           S == 1..k
           T == DOMAIN nodeOperators
           c == Candidates
<1>1. /\ k \in Nat /\ ActiveKeys \in [1..k -> Nat]
      /\ \A i \in S : c[i] \in T
      /\ \A i, j \in S : c[i] = c[j] => i = j
  BY CandidateFacts
<1>2. /\ Allocated(ActiveKeys, after) = SumFunctionOnSet(given, S) /\ Integral(given, S)
      /\ \A i \in S : given[i] = after[i] - ActiveKeys[i]
  BY <1>1, AllocatedIsSum, ZenonT(30)
<1>3. J \in SUBSET S /\ \A i \in S \ J : given[i] = 0
  <2> HIDE DEF given
  <2>1. J \in SUBSET S
    OBVIOUS
  <2>2. ASSUME NEW i \in S \ J PROVE given[i] = 0
    <3>1. after[i] = ActiveKeys[i] /\ after[i] \in Nat /\ given[i] = after[i] - ActiveKeys[i]
      BY <1>2
    <3>2. QED
      BY <3>1
  <2>3. QED
    BY <2>1, <2>2
<1>4. IsFiniteSet(T)
  BY ColumnFacts, FigureNames DEF RegistryInv, Books, Tallied
<1>5. \A i \in J : h[c[i]] = given[i]
  BY <1>2, <1>3
<1> HIDE DEF given, S, T, c
<1>6. SumFunctionOnSet(given, S) = SumFunctionOnSet(given, J)
  BY <1>2, <1>3, SumOnSubset, ZenonT(30)
<1>7. SumFunctionOnSet(h, {c[i] : i \in J}) = SumFunctionOnSet(given, J)
  <2>1. Integral(given, J)
    BY <1>2, <1>3, FS_Subset DEF Integral
  <2>2. \A i \in J : c[i] \in T
    BY <1>1, <1>3
  <2>3. \A i, j \in J : c[i] = c[j] => i = j
    BY <1>1, <1>3
  <2>4. ASSUME NEW K, K = J PROVE SumFunctionOnSet(h, {c[i] : i \in K}) = SumFunctionOnSet(given, K)
    <3>1. IsFiniteSet(T) /\ Integral(given, K) /\ (\A i \in K : c[i] \in T)
          /\ (\A i, j \in K : c[i] = c[j] => i = j) /\ (\A i \in K : h[c[i]] = given[i])
      BY <1>4, <1>5, <2>1, <2>2, <2>3, <2>4
    <3>2. QED
      BY ONLY <3>1, SumRenamed
  <2>5. QED
    BY <2>4
<1>8. QED
  BY <1>2, <1>6, <1>7 DEF c

LEMMA ObtainKeeps ==
  ASSUME RegistryInv, NEW n \in Counts, ObtainDepositData(n)
  PROVE  /\ Books' /\ nonce' # nonce /\ n > 0 /\ n <= summary.max - summary.deposited
         /\ summary'.exited = summary.exited /\ summary'.max = summary.max
         /\ summary'.deposited = summary.deposited + n
<1> DEFINE after == Allocate(ActiveKeys, Capacities, n)
           J == {j \in DOMAIN after : after[j] # ActiveKeys[j]}
           ids == {Candidates[i] : i \in J}
           Index(id) == CHOOSE i \in DOMAIN after : Candidates[i] = id
           changed == [id \in ids |-> Limited(WithDeposited(nodeOperators[id],
                                                nodeOperators[id].exited + after[Index(id)]))]
           k == Len(Candidates)
           given == Difference(changed, "deposited")
           d == summary.deposited + n
           Others == Figures \ {"deposited"}
<1>1. /\ n > 0
      /\ CanObtain(n)
      /\ Store(changed)
      /\ summary' = [summary EXCEPT !.max = @ + MaxDifference(changed), !.deposited = @ + n]
      /\ IncreaseNonce /\ UNCHANGED activeOperatorsCount
  BY DEF ObtainDepositData
<1>2. /\ summary \in [Figures -> Int] /\ summary.max \in Nat /\ summary.exited \in Nat
      /\ summary.total \in Nat /\ summary.deposited \in Nat /\ summary.total <= UINT64_MAX
      /\ Clock
  <2>1. Tallied(nodeOperators, summary) /\ Clock
    BY DEF RegistryInv, Books
  <2>2. QED
    BY <2>1, FiguresAreOrdered DEF Tallied
<1>3. n \in Nat
  BY CountsAreNaturals
<1>4. /\ after \in [1..k -> Nat]
      /\ \A i \in 1..k : ActiveKeys[i] <= after[i] /\ after[i] <= Capacities[i]
      /\ Allocated(ActiveKeys, after)
           = IF summary.max - summary.deposited < n THEN summary.max - summary.deposited ELSE n
  BY <1>3, AllocationOfCandidates
<1>5. Allocated(ActiveKeys, after) = n
  BY <1>1 DEF CanObtain
<1> HIDE DEF after
<1>6. n <= summary.max - summary.deposited
  BY <1>2, <1>3, <1>4, <1>5
<1>7. DOMAIN after = 1..k
  BY <1>4
<1>8. \A i \in 1..k : Candidates[i] \in DOMAIN nodeOperators
  BY CandidateFacts
<1>9. \A i \in 1..k : Index(Candidates[i]) = i
  <2>1. \A i, j \in 1..k : Candidates[i] = Candidates[j] => i = j
    BY CandidateFacts
  <2>2. QED
    BY <1>7, <2>1
<1>10. DOMAIN changed = ids /\ ids \subseteq DOMAIN nodeOperators
       /\ \A id \in ids : \E i \in J : id = Candidates[i] /\ i \in 1..k
  BY <1>7, <1>8
<1>11. ASSUME NEW i \in J
       PROVE  LET op  == nodeOperators[Candidates[i]]
                  new == changed[Candidates[i]]
              IN  /\ Good(new) /\ new.active = op.active /\ new.exited = op.exited
                  /\ new.deposited = op.exited + after[i]
                  /\ Len(new.keys) = Len(op.keys) /\ new.max = op.max
                  /\ new.deposited - op.deposited = after[i] - ActiveKeys[i]
  <2> DEFINE op == nodeOperators[Candidates[i]]
             new == changed[Candidates[i]]
             m == op.exited + after[i]
  <2>1. i \in 1..k /\ Candidates[i] \in ids /\ Candidates[i] \in DOMAIN nodeOperators
    BY <1>7, <1>8
  <2>2. Good(op)
    BY <2>1, OneOfMany
  <2>3. op.exited \in Nat /\ op.deposited \in Nat /\ op.max \in Nat
    BY <2>2, GoodFacts
  <2>4. ActiveKeys[i] = op.deposited - op.exited /\ Capacities[i] = op.max - op.exited
    BY <2>1, CandidateFacts
  <2>5. after[i] \in Nat /\ ActiveKeys[i] <= after[i] /\ after[i] <= Capacities[i]
    BY <1>4, <2>1
  <2>6. m \in op.deposited..op.max /\ m - op.deposited = after[i] - ActiveKeys[i]
    <3> HIDE DEF op
    <3> QED BY <2>3, <2>4, <2>5
  <2>7. new = Limited(WithDeposited(op, m))
    BY <1>9, <2>1
  <2> HIDE DEF op, new, m
  <2>8. /\ Good(new) /\ new.active = op.active /\ new.exited = op.exited
        /\ new.deposited = m /\ Len(new.keys) = Len(op.keys) /\ new.max = op.max
    BY <1>2, <2>2, <2>6, <2>7, DepositedIsGood
  <2>9. QED
    BY <2>6, <2>8 DEF op, new, m
<1> HIDE DEF changed, ids, J, Index
<1>12. Changes(changed)
  BY <1>10, <1>11 DEF Changes
<1>13. \A f \in Others : SumOfChange(changed, f) = 0
  <2> SUFFICES ASSUME NEW f \in Others PROVE SumOfChange(changed, f) = 0
    OBVIOUS
  <2>1. \A id \in DOMAIN changed : Measure(changed[id])[f] = Measure(nodeOperators[id])[f]
    BY <1>10, <1>11 DEF Measure, Figures
  <2>2. QED
    BY <1>12, <2>1, NoChange
<1>14. SumOfChange(changed, "deposited") = n
  <2>1. \A i \in J : given[Candidates[i]] = after[i] - ActiveKeys[i]
    <3> SUFFICES ASSUME NEW i \in J PROVE given[Candidates[i]] = after[i] - ActiveKeys[i]
      OBVIOUS
    <3>1. Candidates[i] \in DOMAIN changed
      BY <1>10 DEF ids
    <3>2. given[Candidates[i]] = changed[Candidates[i]].deposited - nodeOperators[Candidates[i]].deposited
      BY <3>1 DEF Difference, Measure
    <3>3. QED
      BY <1>11, <3>2
  <2> HIDE DEF given
  <2>2. J = {j \in 1..k : after[j] # ActiveKeys[j]}
    BY <1>7 DEF J
  <2>3. SumFunctionOnSet(given, {Candidates[i] : i \in J}) = Allocated(ActiveKeys, after)
    BY <1>4, <2>1, <2>2, GivenIsDeposited
  <2>4. QED
    BY <1>5, <1>10, <2>3 DEF SumOfChange, given, ids
<1>15. MaxDifference(changed) = 0
  BY <1>13, CachedDifferences DEF Figures
<1>16. d \in Int
  BY <1>2, <1>3
<1>17. summary' = [summary EXCEPT !.deposited = d]
  <2>1. summary' = [summary EXCEPT !.max = summary.max + 0, !.deposited = d]
    BY <1>1, <1>2, <1>15 DEF Figures
  <2>2. summary.max + 0 = summary["max"]
    BY <1>2
  <2> HIDE DEF d
  <2>3. QED
    BY <1>2, <2>1, <2>2 DEF Figures
<1>18. /\ summary' \in [Figures -> Int]
       /\ summary'["deposited"] = d
       /\ \A f \in Others : summary'[f] = summary[f]
  <2> HIDE DEF d
  <2> QED BY <1>2, <1>16, <1>17 DEF Figures
<1>19. /\ summary'.total = summary.total /\ summary'.exited = summary.exited
       /\ summary'.max = summary.max /\ summary'.deposited = d
  BY <1>18 DEF Figures
<1>20. \A f \in Figures : summary'[f] = summary[f] + SumOfChange(changed, f)
  BY <1>2, <1>13, <1>14, <1>18
<1>21. nonce' \in {0, 1} /\ nonce' # nonce
  BY <1>1, NonceFlips
<1>22. Books'
  BY <1>1, <1>2, <1>12, <1>18, <1>19, <1>20, <1>21, ManyReplaced
<1>23. QED
  BY <1>1, <1>6, <1>19, <1>21, <1>22

------------------------------------------------------------------------------

(***************************************************************************)
(* The invariant is inductive, and what a step means to the router.        *)
(***************************************************************************)
Withheld == SameDeposits /\ summary'.max <= summary.max /\ nonce' = nonce

Obtained(n) ==
  /\ n > 0
  /\ n <= summary.max - summary.deposited
  /\ summary'.exited = summary.exited /\ summary'.max = summary.max
  /\ summary'.deposited = summary.deposited + n
  /\ nonce' # nonce

RouterStep == \/ KeysManaged \/ ExitsReported \/ Withheld
              \/ \E n \in Counts : Obtained(n)

LEMMA RegistryInvInit == Init => RegistryInv
<1> SUFFICES ASSUME Init PROVE RegistryInv
  OBVIOUS
<1>1. Clock
  BY NodeOperatorsRegistryAssumption DEF Init, Clock
<1>2. nodeOperators = <<>> /\ DOMAIN nodeOperators = {} /\ Len(nodeOperators) = 0
  BY DEF Init
<1>3. Roster(nodeOperators)
  BY <1>2 DEF Roster
<1>4. /\ summary \in [Figures -> Int] /\ \A f \in Figures : summary[f] = 0
      /\ summary.total = 0
  BY DEF Init, Figures
<1>5. \A f \in Figures : SumFunction(Column(nodeOperators, f)) = 0
  BY <1>2, <1>3, ColumnFacts, SumEmpty
<1>6. Tallied(nodeOperators, summary)
  BY <1>3, <1>4, <1>5, NodeOperatorsRegistryAssumption DEF Tallied
<1>7. ActiveIn(nodeOperators) = {} /\ Cardinality(ActiveIn(nodeOperators)) = 0
  BY <1>2, FS_EmptySet DEF ActiveIn
<1>8. activeOperatorsCount = 0 /\ nonce \in {0, 1}
  BY DEF Init
<1>9. QED
  BY <1>1, <1>2, <1>6, <1>7, <1>8, NodeOperatorsRegistryAssumption DEF RegistryInv, Books

LEMMA RegistryHasPenaltyInv ==
  ASSUME RegistryInv
  PROVE  PenaltyInv
<1>1. nodeOperators \in Seq(NodeOperator) /\ Clock
  BY DEF RegistryInv, Books, Tallied, Roster
<1>2. AllOperators
  BY OneOfMany, GoodFacts, TypeOfFields DEF AllOperators
<1>3. nodeOperators \in Seq(Operators)
  BY <1>1 DEF Operators
<1>4. QED
  BY <1>1, <1>2, <1>3 DEF PenaltyInv

LEMMA RegistryUntouched ==
  ASSUME RegistryInv, UNCHANGED <<nodeOperators, activeOperatorsCount, summary, nonce>>
  PROVE  Books' /\ Withheld
<1>1. Books'
  BY DEF RegistryInv, Books, Tallied, Roster, Column, ActiveIn
<1>2. summary.max <= summary.max
  <2>1. summary.max \in Nat
    BY FiguresAreOrdered DEF RegistryInv, Books
  <2>2. QED
    BY <2>1
<1>3. QED
  BY <1>1, <1>2 DEF Withheld, SameDeposits

LEMMA OperatorStepKeeps ==
  ASSUME RegistryInv, NEW id \in DOMAIN nodeOperators,
         \/ ActivateNodeOperator(id)
         \/ DeactivateNodeOperator(id)
         \/ \E n \in Counts : SetNodeOperatorStakingLimit(id, n)
         \/ \E target \in Targets : UpdateTargetValidatorsLimits(id, TRUE, target)
         \/ UpdateTargetValidatorsLimits(id, FALSE, 0)
         \/ \E n \in Counts : AddSigningKeys(id, n)
         \/ \E from, n \in Counts : RemoveUnusedSigningKeys(id, from, n)
         \/ \E last \in DOMAIN nodeOperators : InvalidateReadyToDepositKeysRange(id, last)
         \/ \E exited, stuck \in Counts : UnsafeUpdateValidatorsCount(id, exited, stuck)
         \/ \E n \in Counts : UpdateRefundedValidatorsCount(id, n)
         \/ ClearNodeOperatorPenalty(id)
  PROVE  Books' /\ RouterStep
<1>1. CASE ActivateNodeOperator(id) \/ DeactivateNodeOperator(id)
  BY <1>1, SwitchKeeps DEF RouterStep
<1>2. CASE \/ \E n \in Counts : SetNodeOperatorStakingLimit(id, n)
           \/ \E target \in Targets : UpdateTargetValidatorsLimits(id, TRUE, target)
           \/ UpdateTargetValidatorsLimits(id, FALSE, 0)
           \/ ClearNodeOperatorPenalty(id)
  BY <1>2, LimitsKeep DEF RouterStep
<1>3. CASE \E n \in Counts : AddSigningKeys(id, n)
  BY <1>3, AddKeysKeeps DEF RouterStep
<1>4. CASE \E from, n \in Counts : RemoveUnusedSigningKeys(id, from, n)
  BY <1>4, RemoveKeysKeeps DEF RouterStep
<1>5. ASSUME NEW last \in DOMAIN nodeOperators, InvalidateReadyToDepositKeysRange(id, last)
      PROVE  Books' /\ RouterStep
  <2>1. /\ Books' /\ SameDeposits
        /\ nonce' # nonce \/ (nonce' = nonce /\ summary'.max = summary.max)
    BY <1>5, InvalidateKeeps
  <2>2. summary.max \in Nat
    BY FiguresAreOrdered DEF RegistryInv, Books
  <2>3. KeysManaged \/ Withheld
    BY <2>1, <2>2 DEF KeysManaged, Withheld
  <2>4. QED
    BY <2>1, <2>3 DEF RouterStep
<1>6. CASE \E exited, stuck \in Counts : UnsafeUpdateValidatorsCount(id, exited, stuck)
  BY <1>6, UnsafeUpdateKeeps DEF RouterStep
<1>7. CASE \E n \in Counts : UpdateRefundedValidatorsCount(id, n)
  BY <1>7, RefundKeeps DEF RouterStep, Withheld
<1>8. QED
  BY <1>1, <1>2, <1>3, <1>4, <1>5, <1>6, <1>7

LEMMA NextKeepsBooks ==
  ASSUME RegistryInv, Next
  PROVE  Books' /\ RouterStep
<1>1. CASE AddNodeOperator
  <2>1. Books' /\ SameDeposits /\ summary'.max = summary.max /\ nonce' = nonce
    BY <1>1, AddKeeps
  <2>2. summary.max \in Nat
    BY FiguresAreOrdered DEF RegistryInv, Books
  <2>3. QED
    BY <2>1, <2>2 DEF RouterStep, Withheld
<1>2. ASSUME NEW ids \in SUBSET DOMAIN nodeOperators, NEW counts \in [ids -> Counts],
             UpdateStuckValidatorsCount(counts) \/ UpdateExitedValidatorsCount(counts)
      PROVE  Books' /\ RouterStep
  BY <1>2, StuckReportKeeps, ExitedReportKeeps DEF RouterStep
<1>3. ASSUME NEW n \in Counts, ObtainDepositData(n)
      PROVE  Books' /\ RouterStep
  BY <1>3, ObtainKeeps DEF RouterStep, Obtained
<1>4. ASSUME NEW delay \in Delays, SetStuckPenaltyDelay(delay)
      PROVE  Books' /\ RouterStep
  BY <1>4, RegistryUntouched DEF SetStuckPenaltyDelay, RouterStep
<1>5. CASE AdvanceClock
  BY <1>5, RegistryUntouched DEF AdvanceClock, RouterStep
<1>6. QED
  BY <1>1, <1>2, <1>3, <1>4, <1>5, OperatorStepKeeps DEF Next

LEMMA RegistryInvStep == RegistryInv /\ [Next]_vars => RegistryInv' /\ RouterStep
<1> SUFFICES ASSUME RegistryInv, [Next]_vars PROVE RegistryInv' /\ RouterStep
  OBVIOUS
<1>1. CASE Next
  BY <1>1, NextKeepsBooks, RegistryHasPenaltyInv, ClockStep DEF RegistryInv
<1>2. CASE UNCHANGED vars
  <2>1. Clock'
    BY <1>2 DEF vars, RegistryInv, Clock
  <2>2. Books' /\ RouterStep
    BY <1>2, RegistryUntouched DEF vars, RouterStep
  <2>3. QED
    BY <2>1, <2>2 DEF RegistryInv
<1>3. QED
  BY <1>1, <1>2

LEMMA RegistryInvHolds == Spec => []RegistryInv
<1>1. Init => RegistryInv
  BY RegistryInvInit
<1>2. RegistryInv /\ [Next]_vars => RegistryInv'
  BY RegistryInvStep
<1>3. QED
  BY <1>1, <1>2, PTL DEF Spec

------------------------------------------------------------------------------

(***************************************************************************)
(* Every counter stays in the range of the packed word it is stored in,    *)
(* and no operator's counters contradict each other, which is what the     *)
(* assertions and unchecked subtractions of the contract take for granted. *)
(***************************************************************************)
THEOREM CountersAreInRange == Spec => []TypeOK
<1>1. RegistryInv => TypeOK
  <2> SUFFICES ASSUME RegistryInv PROVE TypeOK
    OBVIOUS
  <2>1. nodeOperators \in Seq(NodeOperator) /\ Clock /\ nonce \in {0, 1}
    BY DEF RegistryInv, Books, Tallied, Roster
  <2>2. \A id \in DOMAIN nodeOperators : InRange(nodeOperators[id])
    BY OneOfMany, GoodFacts DEF InRange, Total
  <2>3. activeOperatorsCount \in 0..MAX_NODE_OPERATORS_COUNT
    BY ActiveIsFinite, NodeOperatorsRegistryAssumption DEF RegistryInv, Books
  <2>4. summary \in [max : Counts, exited : Counts, total : Counts, deposited : Counts]
    <3>1. summary \in [Figures -> Int]
      BY DEF RegistryInv, Books, Tallied
    <3>2. /\ summary.exited \in Nat /\ summary.deposited \in Nat
          /\ summary.max \in Nat /\ summary.total \in Nat
          /\ summary.exited <= summary.deposited /\ summary.deposited <= summary.max
          /\ summary.max <= summary.total /\ summary.total <= UINT64_MAX
      BY FiguresAreOrdered DEF RegistryInv, Books
    <3>3. /\ summary.exited \in Counts /\ summary.deposited \in Counts
          /\ summary.max \in Counts /\ summary.total \in Counts
      BY <3>2, NodeOperatorsRegistryAssumption DEF Counts
    <3>4. QED
      BY <3>1, <3>3 DEF Figures
  <2>5. QED
    BY <2>1, <2>2, <2>3, <2>4 DEF TypeOK, Clock
<1>2. QED
  BY <1>1, RegistryInvHolds, PTL

(***************************************************************************)
(* The cached values never lag behind: each operator's stored maximum is   *)
(* what _applyNodeOperatorLimits would store now, and the summary, only    *)
(* ever updated by differences, is the sum over the operators.             *)
(***************************************************************************)
THEOREM SummaryIsCurrent == Spec => []CachesAreCurrent
<1>1. RegistryInv => CachesAreCurrent
  <2> SUFFICES ASSUME RegistryInv PROVE CachesAreCurrent
    OBVIOUS
  <2>1. \A id \in DOMAIN nodeOperators : nodeOperators[id].max = MaxValidators(nodeOperators[id])
    BY OneOfMany, GoodFacts, MaxValidatorsIsLimits DEF RegistryInv, Good
  <2>2. \A f \in Figures : summary[f] = SumFunction(Column(nodeOperators, f))
    BY DEF RegistryInv, Books, Tallied
  <2>3. /\ Column(nodeOperators, "max") = [id \in DOMAIN nodeOperators |-> nodeOperators[id].max]
        /\ Column(nodeOperators, "exited") = [id \in DOMAIN nodeOperators |-> nodeOperators[id].exited]
        /\ Column(nodeOperators, "total") = [id \in DOMAIN nodeOperators |-> Total(nodeOperators[id])]
        /\ Column(nodeOperators, "deposited")
             = [id \in DOMAIN nodeOperators |-> nodeOperators[id].deposited]
    BY DEF Column, Measure, Total
  <2>4. QED
    BY <2>1, <2>2, <2>3, FigureNames DEF CachesAreCurrent, SumOf
<1>2. QED
  BY <1>1, RegistryInvHolds, PTL

(***************************************************************************)
(* Through removals that move keys, trims, approvals and deposits, exactly *)
(* the first keys of an operator are deposited, exactly the next ones are  *)
(* approved, and every key bears the decision last made about it.          *)
(***************************************************************************)
THEOREM KeysKeepTheirStage == Spec => []KeysAreWhereTheirStageIs
<1>1. RegistryInv => KeysAreWhereTheirStageIs
  <2> SUFFICES ASSUME RegistryInv, NEW id \in DOMAIN nodeOperators,
                      NEW k \in DOMAIN nodeOperators[id].keys
               PROVE  nodeOperators[id].keys[k]
                        = Stage(nodeOperators[id].deposited, nodeOperators[id].vetted, k)
    BY DEF KeysAreWhereTheirStageIs, Stage
  <2>1. Good(nodeOperators[id])
    BY OneOfMany
  <2>2. k \in 1..Len(nodeOperators[id].keys)
    BY <2>1, GoodFacts
  <2>3. QED
    BY <2>1, <2>2 DEF Good, Sound, Solid
<1>2. QED
  BY <1>1, RegistryInvHolds, PTL

(***************************************************************************)
(* obtainDepositData never reverts for a number of deposits the summary    *)
(* calls depositable: the arrays, sized by the number of active operators, *)
(* hold every candidate, and the allocation does not stop short.           *)
(***************************************************************************)
THEOREM DepositableIsObtainable == Spec => []DepositableCanBeObtained
<1>1. RegistryInv => DepositableCanBeObtained
  <2> SUFFICES ASSUME RegistryInv, NEW n \in 1..(summary.max - summary.deposited)
               PROVE  CanObtain(n)
    BY DEF DepositableCanBeObtained
  <2>1. summary.max \in Nat /\ summary.deposited \in Nat
    BY FiguresAreOrdered DEF RegistryInv, Books
  <2>2. n \in Nat /\ ~(summary.max - summary.deposited < n)
    BY <2>1
  <2>3. Allocated(ActiveKeys, Allocate(ActiveKeys, Capacities, n)) = n
    BY <2>2, AllocationOfCandidates
  <2>4. QED
    BY <2>3, CandidatesAreActive DEF CanObtain
<1>2. QED
  BY <1>1, RegistryInvHolds, PTL

(***************************************************************************)
(* The library's allocation fills the least full buckets first, as evenly  *)
(* as their capacities allow.  The property names three buckets; the lemma *)
(* it follows from, AllocateIsMinFirst, is for any number of them.         *)
(***************************************************************************)
THEOREM RegistryAllocatesMinFirst == Spec => []AllocationIsMinFirst
<1>1. AllocationIsMinFirst
  <2> SUFFICES ASSUME NEW buckets \in [1..3 -> Counts], NEW capacities \in [1..3 -> Counts],
                      NEW n \in 0..(3 * UINT64_MAX)
               PROVE  IsMinFirst(buckets, capacities, n, Allocate(buckets, capacities, n))
    BY DEF AllocationIsMinFirst
  <2>1. n \in Nat /\ 3 \in Nat
    BY NodeOperatorsRegistryAssumption
  <2>2. buckets \in [1..3 -> Nat] /\ capacities \in [1..3 -> Nat]
    BY CountsAreNaturals
  <2>3. IsInput(3, buckets, capacities, n)
    BY <2>1, <2>2 DEF IsInput
  <2>4. QED
    BY <2>3, AllocateIsMinFirst
<1>2. QED
  BY <1>1, PTL

(***************************************************************************)
(* The registry is a staking module.                                       *)
(***************************************************************************)
LEMMA InitIsModuleInit == Init => SM!Init
BY DEF Init, SM!Init

LEMMA RouterStepIsModuleStep ==
  ASSUME RegistryInv, RegistryInv', RouterStep
  PROVE  [SM!Next]_SM!vars
<1>1. /\ summary.exited \in Nat /\ summary.deposited \in Nat /\ summary.max \in Nat
      /\ summary.exited <= summary.deposited /\ summary.deposited <= summary.max
  BY FiguresAreOrdered DEF RegistryInv, Books
<1>2. /\ summary'.exited \in Nat /\ summary'.deposited \in Nat /\ summary'.max \in Nat
      /\ summary'.exited <= summary'.deposited /\ summary'.deposited <= summary'.max
  BY FiguresAreOrdered DEF RegistryInv, Books
<1>3. CASE KeysManaged
  BY <1>1, <1>2, <1>3 DEF KeysManaged, SameDeposits, SM!ManageKeys, SM!Next
<1>4. CASE ExitsReported
  BY <1>1, <1>2, <1>4 DEF ExitsReported, SM!ReportExits, SM!Next
<1>5. CASE Withheld
  BY <1>1, <1>2, <1>5 DEF Withheld, SameDeposits, SM!Withhold, SM!Next
<1>6. ASSUME NEW n \in Counts, Obtained(n) PROVE SM!Next
  <2>1. n \in 1..(summary.max - summary.deposited)
    BY <1>1, <1>6, CountsAreNaturals DEF Obtained
  <2>2. SM!ObtainDepositData(n)
    BY <1>1, <1>2, <1>6, <2>1 DEF Obtained, SM!ObtainDepositData
  <2>3. QED
    BY <2>1, <2>2 DEF SM!Next
<1>7. QED
  BY <1>3, <1>4, <1>5, <1>6 DEF RouterStep

(***************************************************************************)
(* Whatever the operators, the DAO and the oracle do, the registry keeps   *)
(* what IStakingModule promises the router: exactly the number of deposits *)
(* asked for is made, exits stay below deposits, and the nonce moves with  *)
(* every deposit and whenever more becomes depositable.                    *)
(***************************************************************************)
THEOREM RegistryIsStakingModule == Spec => ImplementsStakingModule
<1>1. Init => SM!Init
  BY InitIsModuleInit
<1>2. RegistryInv /\ RegistryInv' /\ [Next]_vars => [SM!Next]_SM!vars
  BY RegistryInvStep, RouterStepIsModuleStep
<1>3. QED
  BY <1>1, <1>2, RegistryInvHolds, PTL DEF Spec, ImplementsStakingModule, SM!Spec
===============================================================================

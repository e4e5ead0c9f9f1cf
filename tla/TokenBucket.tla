----------------------------- MODULE TokenBucket -----------------------------
(***************************************************************************)
(* What the staking rate limit promises: a bucket that is filled by a      *)
(* fixed amount per block up to its capacity and drained by what is        *)
(* staked.  Only giving a limit to an unlimited or a closed bucket may     *)
(* fill it; every other change of its settings may only drain it.          *)
(***************************************************************************)
EXTENDS Integers

VARIABLES
  open,       \* staking is possible
  capacity,   \* 0 if staking is unlimited
  refill,     \* what a block adds
  level,      \* what can be staked now
  staked      \* what has been staked in all

vars == <<open, capacity, refill, level, staked>>

Unlimited == capacity = 0

Init ==
  /\ ~open
  /\ capacity = 0
  /\ refill = 0
  /\ level = 0
  /\ staked \in Nat

Fill ==
  /\ open
  /\ level' = IF level + refill < capacity THEN level + refill ELSE capacity
  /\ UNCHANGED <<open, capacity, refill, staked>>

Take ==
  /\ open
  /\ staked' > staked
  /\ ~Unlimited => staked' - staked = level - level' /\ level' >= 0
  /\ Unlimited => level' = level
  /\ UNCHANGED <<open, capacity, refill>>

(***************************************************************************)
(* Opening and closing never add to the bucket.                            *)
(***************************************************************************)
Switch ==
  /\ level' \in 0..level
  /\ UNCHANGED <<capacity, refill, staked>>

Limit ==
  /\ capacity' > 0
  /\ level' \in 0..(IF open /\ ~Unlimited THEN level ELSE capacity')
  /\ UNCHANGED <<open, staked>>

Unlimit ==
  /\ capacity' = 0
  /\ level' = 0
  /\ UNCHANGED <<open, staked>>

Next == Fill \/ Take \/ Switch \/ Limit \/ Unlimit

Spec == Init /\ [][Next]_vars

==============================================================================

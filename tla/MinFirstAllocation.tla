-------------------------- MODULE MinFirstAllocation --------------------------
(***************************************************************************)
(* MinFirstAllocationStrategy: shares an amount among buckets, the least   *)
(* filled first.  Used for the keys of node operators and for the          *)
(* validators of staking modules.  Indices count from 1.                   *)
(***************************************************************************)
EXTENDS Integers, SequencesExt

FloorDiv(a, b) == a \div b   \* mutant: the remainder is never given out

CeilDiv(a, b) == (a - 1) \div b + 1

Free(buckets, capacities) == {i \in DOMAIN buckets : buckets[i] < capacities[i]}

(***************************************************************************)
(* allocateToBestCandidate, for a size and some bucket with space: the     *)
(* first of the least filled buckets takes its share of the size, but no   *)
(* more than its capacity or the level of the next bucket.                 *)
(***************************************************************************)
AllocateToBestCandidate(buckets, capacities, allocationSize) ==
  LET free    == Free(buckets, capacities)
      least   == Min({buckets[i] : i \in free})
      best    == {i \in free : buckets[i] = least}
      index   == Min(best)
      share   == CeilDiv(allocationSize, Cardinality(best))
      bounds  == {capacities[index]} \union {buckets[i] : i \in free \ best}
  IN  [buckets EXCEPT ![index] = Min({@ + share} \union bounds)]

(***************************************************************************)
(* allocate: every round allocates at least one, so that allocationSize    *)
(* rounds are enough.                                                      *)
(***************************************************************************)
Allocated(before, after) == SumFunction([i \in DOMAIN before |-> after[i] - before[i]])

Allocate(buckets, capacities, allocationSize) ==
  FoldLeft(LAMBDA now, round :
             LET rest == allocationSize - Allocated(buckets, now)
             IN  IF rest = 0 \/ Free(now, capacities) = {} THEN now
                 ELSE AllocateToBestCandidate(now, capacities, rest),
           buckets, [round \in 1..allocationSize |-> round])

------------------------------------------------------------------------------

(***************************************************************************)
(* What an allocation should be: within the capacities, as much as there   *)
(* is space for, and level: no bucket that got something ends more than    *)
(* one above a bucket with space left.                                     *)
(***************************************************************************)
Space(buckets, capacities) ==
  SumFunctionOnSet([i \in DOMAIN buckets |-> capacities[i] - buckets[i]], Free(buckets, capacities))

IsMinFirst(buckets, capacities, allocationSize, after) ==
  /\ \A i \in DOMAIN buckets : after[i] >= buckets[i]
  /\ \A i \in DOMAIN buckets : after[i] > buckets[i] => after[i] <= capacities[i]
  /\ Allocated(buckets, after) = Min({allocationSize, Space(buckets, capacities)})
  /\ \A i \in DOMAIN buckets : \A j \in Free(after, capacities) :
       after[i] > buckets[i] => after[i] <= after[j] + 1

==============================================================================

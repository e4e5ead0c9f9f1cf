--------------------------- MODULE AllocationProofs ---------------------------
(***************************************************************************)
(* The allocation is min-first, for any number of buckets, any capacities  *)
(* and any size.                                                           *)
(*                                                                         *)
(* Between two rounds the buckets are not level yet: the first of the      *)
(* least filled ones may be ahead of the others by its whole share.  What  *)
(* holds is that enough is left to lift the others after it: Partial says, *)
(* of every bucket that got something, that filling the ones with space up *)
(* to one below it takes no more than the rest ("Fill").  When nothing is  *)
(* left, nothing needs to be filled, which is the levelness of IsMinFirst. *)
(***************************************************************************)
EXTENDS MinFirstAllocation, DataLemmas

Missing(now, capacities, level) ==
  [i \in DOMAIN now |->
     IF now[i] < capacities[i] /\ now[i] < level
     THEN (IF capacities[i] < level THEN capacities[i] ELSE level) - now[i]
     ELSE 0]

Fill(now, capacities, level) == SumFunctionOnSet(Missing(now, capacities, level), DOMAIN now)

IsInput(k, buckets, capacities, size) ==
  /\ k \in Nat
  /\ buckets \in [1..k -> Nat]
  /\ capacities \in [1..k -> Nat]
  /\ size \in Nat

(***************************************************************************)
(* What has been given to each bucket.                                     *)
(***************************************************************************)
Given(buckets, now) == [i \in DOMAIN buckets |-> now[i] - buckets[i]]

Partial(k, buckets, capacities, size) ==
  {now \in [1..k -> Nat] :
     /\ \A i \in 1..k : now[i] >= buckets[i]
     /\ \A i \in 1..k : now[i] > buckets[i] => now[i] <= capacities[i]
     /\ Allocated(buckets, now) <= size
     /\ \A i \in 1..k : now[i] > buckets[i] =>
          Fill(now, capacities, now[i] - 1) <= size - Allocated(buckets, now)}

LEMMA AllocatedIsSum ==
  ASSUME NEW k \in Nat, NEW buckets \in [1..k -> Nat], NEW now \in [1..k -> Nat]
  PROVE  /\ Allocated(buckets, now) = SumFunctionOnSet(Given(buckets, now), 1..k)
         /\ Integral(Given(buckets, now), 1..k)
         /\ Allocated(buckets, now) \in Int
         /\ \A i \in 1..k : Given(buckets, now)[i] = now[i] - buckets[i]
<1>1. DOMAIN buckets = 1..k /\ IsFiniteSet(1..k)
  BY FS_Interval
<1>2. Allocated(buckets, now) = SumFunctionOnSet(Given(buckets, now), 1..k)
  BY <1>1 DEF Allocated, SumFunction, Given
<1>3. \A i \in 1..k : Given(buckets, now)[i] = now[i] - buckets[i] /\ Given(buckets, now)[i] \in Int
  BY <1>1 DEF Given
<1>4. Integral(Given(buckets, now), 1..k)
  BY <1>1, <1>3 DEF Integral
<1>5. QED
  BY <1>2, <1>3, <1>4, SumType

LEMMA MissingType ==
  ASSUME NEW k \in Nat, NEW now \in [1..k -> Nat], NEW capacities \in [1..k -> Nat], NEW level \in Int
  PROVE  /\ Integral(Missing(now, capacities, level), 1..k)
         /\ \A i \in 1..k : /\ Missing(now, capacities, level)[i] \in Nat
                            /\ Missing(now, capacities, level)[i] =
                                 IF now[i] < capacities[i] /\ now[i] < level
                                 THEN (IF capacities[i] < level THEN capacities[i] ELSE level) - now[i]
                                 ELSE 0
         /\ Fill(now, capacities, level) = SumFunctionOnSet(Missing(now, capacities, level), 1..k)
         /\ Fill(now, capacities, level) \in Nat
<1>1. DOMAIN now = 1..k /\ IsFiniteSet(1..k)
  BY FS_Interval
<1>2. \A i \in 1..k : /\ Missing(now, capacities, level)[i] \in Nat
                      /\ Missing(now, capacities, level)[i] =
                           IF now[i] < capacities[i] /\ now[i] < level
                           THEN (IF capacities[i] < level THEN capacities[i] ELSE level) - now[i]
                           ELSE 0
  BY <1>1 DEF Missing
<1>3. Integral(Missing(now, capacities, level), 1..k)
  BY <1>1, <1>2 DEF Integral
<1>4. QED
  BY <1>1, <1>2, <1>3, SumOfNaturals DEF Fill

------------------------------------------------------------------------------

(***************************************************************************)
(* One round: the chosen bucket, its share, and what it ends with.         *)
(***************************************************************************)
Least(now, capacities) == Min({now[i] : i \in Free(now, capacities)})
Best(now, capacities) == {i \in Free(now, capacities) : now[i] = Least(now, capacities)}
Chosen(now, capacities) == Min(Best(now, capacities))
Share(now, capacities, rest) == CeilDiv(rest, Cardinality(Best(now, capacities)))

LEMMA BestIsLeast ==
  ASSUME NEW k \in Nat, NEW now \in [1..k -> Nat], NEW capacities \in [1..k -> Nat],
         Free(now, capacities) # {}
  PROVE  /\ Best(now, capacities) \in SUBSET (1..k)
         /\ Chosen(now, capacities) \in Best(now, capacities)
         /\ Cardinality(Best(now, capacities)) \in Nat \ {0}
         /\ \A i \in Best(now, capacities) : now[i] = Least(now, capacities) /\ now[i] < capacities[i]
         /\ \A i \in Free(now, capacities) \ Best(now, capacities) : Least(now, capacities) < now[i]
         /\ Least(now, capacities) \in Nat
<1> DEFINE free == Free(now, capacities)
           levels == {now[i] : i \in free}
           best == Best(now, capacities)
<1>1. free \in SUBSET (1..k) /\ IsFiniteSet(free) /\ \A i \in free : now[i] < capacities[i]
  <2>1. free \in SUBSET (1..k) /\ \A i \in free : now[i] < capacities[i]
    BY DEF Free
  <2> HIDE DEF free
  <2>2. IsFiniteSet(1..k)
    BY FS_Interval
  <2>3. QED
    BY <2>1, <2>2, FS_Subset
<1>2. levels # {} /\ levels \subseteq Nat /\ levels \subseteq Int /\ IsFiniteSet(levels)
  <2>1. IsFiniteSet(levels)
    <3> HIDE DEF free
    <3> QED BY <1>1, ImageIsFinite
  <2>2. QED
    BY <1>1, <2>1
<1>3. Min(levels) \in levels /\ \A x \in levels : Min(levels) <= x
  <2> HIDE DEF levels
  <2> QED BY <1>2, LeastOfFinite
<1>4. Least(now, capacities) = Min(levels)
  BY DEF Least
<1>5. best = {i \in free : now[i] = Min(levels)}
  BY <1>4 DEF Best
<1>6. best # {} /\ best \in SUBSET (1..k) /\ IsFiniteSet(best) /\ best \subseteq Int
  <2>1. best # {} /\ best \subseteq free
    BY <1>3, <1>5
  <2> HIDE DEF best, free
  <2>2. best \in SUBSET free /\ best \in SUBSET (1..k) /\ best \subseteq Int
    BY <1>1, <2>1
  <2>3. QED
    BY <1>1, <2>1, <2>2, FS_Subset
<1>7. Min(best) \in best
  <2> HIDE DEF best
  <2> QED BY <1>6, LeastOfFinite
<1>8. Cardinality(best) \in Nat \ {0}
  <2> HIDE DEF best
  <2> QED BY <1>6, FS_CardinalityType, FS_EmptySet
<1>9. \A i \in free \ best : Min(levels) < now[i]
  <2> SUFFICES ASSUME NEW i \in free, now[i] # Min(levels) PROVE Min(levels) < now[i]
    BY <1>5
  <2>1. now[i] \in levels /\ now[i] \in Nat /\ Min(levels) \in Nat /\ Min(levels) <= now[i]
    BY <1>1, <1>2, <1>3
  <2>2. QED
    BY <2>1
<1>10. Min(levels) \in Nat
  BY <1>2, <1>3
<1>11. Chosen(now, capacities) = Min(best)
  BY DEF Chosen
<1> HIDE DEF free, levels, best
<1>12. QED
  BY <1>1, <1>4, <1>5, <1>6, <1>7, <1>8, <1>9, <1>10, <1>11 DEF free, best

LEMMA ShareFacts ==
  ASSUME NEW rest \in Nat \ {0}, NEW count \in Nat \ {0}
  PROVE  /\ CeilDiv(rest, count) \in Nat \ {0}
         /\ CeilDiv(rest, count) <= rest
         /\ (count - 1) * (CeilDiv(rest, count) - 1) <= rest - CeilDiv(rest, count)
<1> DEFINE q == (rest - 1) \div count
<1>1. rest - 1 \in Nat
  OBVIOUS
<1>2. q \in Nat /\ q * count <= rest - 1
  <2> DEFINE a == rest - 1
  <2>1. a \in Nat
    BY <1>1
  <2> HIDE DEF a
  <2>2. a \div count \in Nat /\ (a \div count) * count <= a
    BY <2>1, Division
  <2>3. QED
    BY <2>2 DEF a
<1>3. CeilDiv(rest, count) = q + 1
  BY DEF CeilDiv
<1> HIDE DEF q
<1>4. q <= q * count
  BY <1>2
<1>5. (count - 1) * q = q * count - q /\ q * count \in Nat
  BY <1>2
<1>6. (q + 1) - 1 = q
  BY <1>2
<1>7. QED
  BY <1>2, <1>3, <1>4, <1>5, <1>6

(***************************************************************************)
(* A round gives the chosen bucket at least one, and keeps Partial.        *)
(***************************************************************************)
NewLevel(now, capacities, rest) ==
  AllocateToBestCandidate(now, capacities, rest)[Chosen(now, capacities)]

LEMMA RoundLiftsChosen ==
  ASSUME NEW k \in Nat, NEW now \in [1..k -> Nat], NEW capacities \in [1..k -> Nat],
         Free(now, capacities) # {}, NEW rest \in Nat \ {0}
  PROVE  /\ NewLevel(now, capacities, rest) \in Nat
         /\ Least(now, capacities) < NewLevel(now, capacities, rest)
         /\ NewLevel(now, capacities, rest) <= Least(now, capacities) + Share(now, capacities, rest)
         /\ NewLevel(now, capacities, rest) <= capacities[Chosen(now, capacities)]
         /\ \A i \in Free(now, capacities) \ Best(now, capacities) :
              NewLevel(now, capacities, rest) <= now[i]
         /\ AllocateToBestCandidate(now, capacities, rest) \in [1..k -> Nat]
         /\ \A i \in 1..k : i # Chosen(now, capacities) =>
              AllocateToBestCandidate(now, capacities, rest)[i] = now[i]
<1> DEFINE free == Free(now, capacities)
           best == Best(now, capacities)
           index == Chosen(now, capacities)
           least == Least(now, capacities)
           share == Share(now, capacities, rest)
           others == {now[i] : i \in free \ best}
           bounds == {capacities[index]} \union others
           levels == {now[index] + share} \union bounds
           v == NewLevel(now, capacities, rest)
<1>1. /\ best \in SUBSET (1..k) /\ index \in best /\ index \in 1..k
      /\ \A i \in best : now[i] = least /\ now[i] < capacities[i]
      /\ \A i \in free \ best : least < now[i]
      /\ least \in Nat
  BY BestIsLeast
<1>2. share \in Nat \ {0}
  BY BestIsLeast, ShareFacts DEF Share
<1>3. AllocateToBestCandidate(now, capacities, rest) = [now EXCEPT ![index] = Min(levels)]
  BY DEF AllocateToBestCandidate, Chosen, Best, Least, Share
<1>4. v = Min(levels)
  <2> HIDE DEF levels, index
  <2> QED BY <1>1, <1>3 DEF NewLevel, index
<1>5. free \in SUBSET (1..k)
  BY DEF Free
<1>6. IsFiniteSet(levels)
  <2>1. IsFiniteSet(free \ best)
    <3>1. IsFiniteSet(1..k) /\ free \ best \in SUBSET (1..k)
      BY <1>5, FS_Interval
    <3> HIDE DEF free, best
    <3> QED BY <3>1, FS_Subset
  <2>2. IsFiniteSet(others)
    <3> DEFINE S == free \ best
    <3>1. IsFiniteSet(S)
      BY <2>1
    <3>2. IsFiniteSet({now[i] : i \in S})
      <4> HIDE DEF S
      <4> QED BY <3>1, ImageIsFinite
    <3> QED BY <3>2
  <2>3. IsFiniteSet({now[index] + share, capacities[index]})
    <3> DEFINE a == now[index] + share
               b == capacities[index]
    <3> HIDE DEF a, b
    <3>1. IsFiniteSet({a}) /\ {a, b} = {a} \union {b}
      BY FS_Singleton
    <3>2. IsFiniteSet({a} \union {b})
      BY <3>1, FS_AddElement
    <3>3. QED
      BY <3>1, <3>2 DEF a, b
  <2>4. levels = {now[index] + share, capacities[index]} \union others
    OBVIOUS
  <2> HIDE DEF others, levels, index, share
  <2>5. QED
    BY <2>2, <2>3, <2>4, FS_Union
<1>7. \A x \in levels : x \in Nat /\ least < x
  <2>1. now[index] + share \in Nat /\ least < now[index] + share
    <3> HIDE DEF share, least, index, best, free
    <3> QED BY <1>1, <1>2
  <2>2. capacities[index] \in Nat /\ least < capacities[index]
    <3> HIDE DEF share, least, index, best, free
    <3> QED BY <1>1
  <2>3. \A i \in free \ best : now[i] \in Nat /\ least < now[i]
    BY <1>1, <1>5
  <2> HIDE DEF share, least, index, best, free
  <2>4. QED
    BY <2>1, <2>2, <2>3
<1>8. Min(levels) \in levels /\ \A x \in levels : Min(levels) <= x
  <2>1. levels # {}
    OBVIOUS
  <2> HIDE DEF levels
  <2>2. levels \subseteq Int
    BY <1>7
  <2> QED BY <1>6, <2>1, <2>2, LeastOfFinite
<1>9. now[index] + share \in levels /\ capacities[index] \in levels
      /\ \A i \in free \ best : now[i] \in levels
  OBVIOUS
<1> HIDE DEF levels, share, least, index, best, free, v
<1>10. now[index] = least
  BY <1>1
<1>11. v \in Nat /\ least < v /\ v <= least + share /\ v <= capacities[index]
       /\ \A i \in free \ best : v <= now[i]
  BY <1>4, <1>7, <1>8, <1>9, <1>10
<1> DEFINE after == AllocateToBestCandidate(now, capacities, rest)
<1>12. after \in [1..k -> Nat] /\ \A i \in 1..k : i # index => after[i] = now[i]
  <2>1. after = [now EXCEPT ![index] = v] /\ v \in Nat
    BY <1>3, <1>4, <1>11
  <2> HIDE DEF after
  <2>2. QED
    BY <2>1
<1>13. QED
  BY <1>11, <1>12 DEF share, least, index, best, free, v

LEMMA RoundAllocates ==
  ASSUME NEW k, NEW buckets, NEW capacities, NEW size, IsInput(k, buckets, capacities, size),
         NEW now \in Partial(k, buckets, capacities, size),
         Free(now, capacities) # {}, Allocated(buckets, now) # size
  PROVE  LET rest == size - Allocated(buckets, now)
             after == AllocateToBestCandidate(now, capacities, rest)
         IN  /\ rest \in Nat \ {0}
             /\ after \in [1..k -> Nat]
             /\ Allocated(buckets, after)
                  = Allocated(buckets, now) + (NewLevel(now, capacities, rest) - Least(now, capacities))
<1> DEFINE rest == size - Allocated(buckets, now)
           after == AllocateToBestCandidate(now, capacities, rest)
           index == Chosen(now, capacities)
           least == Least(now, capacities)
           v == NewLevel(now, capacities, rest)
<1>1. k \in Nat /\ buckets \in [1..k -> Nat] /\ capacities \in [1..k -> Nat] /\ now \in [1..k -> Nat]
      /\ size \in Nat
  BY DEF IsInput, Partial
<1>2. rest \in Nat \ {0}
  <2>1. Allocated(buckets, now) \in Int /\ Allocated(buckets, now) <= size
    BY <1>1, AllocatedIsSum DEF Partial
  <2> QED BY <1>1, <2>1
<1> HIDE DEF rest
<1>3. v \in Nat /\ after \in [1..k -> Nat] /\ after[index] = v
      /\ \A i \in 1..k : i # index => after[i] = now[i]
  <2>1. ASSUME NEW r \in Nat \ {0}
        PROVE  NewLevel(now, capacities, r) \in Nat
    BY <1>1, RoundLiftsChosen
  <2>2. NewLevel(now, capacities, rest) \in Nat
    BY <1>2, <2>1
  <2>3. AllocateToBestCandidate(now, capacities, rest) \in [1..k -> Nat]
    BY <1>1, <1>2, RoundLiftsChosen
  <2> QED BY <1>1, <1>2, <2>2, RoundLiftsChosen, ZenonT(30) DEF NewLevel
<1>4. index \in 1..k /\ now[index] = least /\ least \in Nat
  BY <1>1, BestIsLeast
<1> HIDE DEF v, index, least
<1>5. after \in [1..k -> Nat] /\ after[index] = v /\ \A i \in (1..k) \ {index} : after[i] = now[i]
  BY <1>1, <1>3, <1>4
<1> HIDE DEF after
<1>6. Allocated(buckets, after) = Allocated(buckets, now) + (v - least)
  <2> DEFINE f == Given(buckets, now)
             h == Given(buckets, after)
             S == 1..k
  <2>1. /\ Allocated(buckets, now) = SumFunctionOnSet(f, S) /\ Integral(f, S)
        /\ Allocated(buckets, now) \in Int
        /\ \A i \in S : f[i] = now[i] - buckets[i]
    BY <1>1, AllocatedIsSum
  <2>2. Allocated(buckets, after) = SumFunctionOnSet(h, S) /\ \A i \in S : h[i] = after[i] - buckets[i]
    BY <1>1, <1>5, AllocatedIsSum
  <2> HIDE DEF f, h
  <2>3. index \in S /\ h[index] \in Int /\ \A i \in S \ {index} : h[i] = f[i]
    <3>1. index \in S /\ h[index] = after[index] - buckets[index]
          /\ \A i \in S \ {index} : h[i] = after[i] - buckets[i]
      BY <1>4, <2>2
    <3>2. after[index] \in Nat /\ buckets[index] \in Nat
      BY <1>1, <1>4, <1>5
    <3>3. h[index] \in Int
      BY <3>1, <3>2
    <3>4. \A i \in S \ {index} : h[i] = f[i]
      BY <1>5, <2>1, <3>1
    <3>5. QED
      BY <3>1, <3>3, <3>4
  <2>4. h[index] - f[index] = v - least
    BY <1>1, <1>3, <1>4, <1>5, <2>1, <2>2
  <2> HIDE DEF S
  <2>5. SumFunctionOnSet(h, S) = SumFunctionOnSet(f, S) + (h[index] - f[index])
    BY <2>1, <2>3, SumExcept
  <2>6. QED
    BY <2>1, <2>2, <2>4, <2>5
<1>7. QED
  BY <1>2, <1>5, <1>6 DEF rest, after, v, least

(***************************************************************************)
(* After a round, lifting the others up to one below the chosen bucket     *)
(* takes no more than the rest: each of them is a share below it at most.  *)
(***************************************************************************)
LEMMA OthersCanFollow ==
  ASSUME NEW k \in Nat, NEW now \in [1..k -> Nat], NEW capacities \in [1..k -> Nat],
         Free(now, capacities) # {}, NEW rest \in Nat \ {0},
         NEW level \in Int, level < NewLevel(now, capacities, rest)
  PROVE  Fill(AllocateToBestCandidate(now, capacities, rest), capacities, level)
           <= rest - Share(now, capacities, rest)
<1> DEFINE free == Free(now, capacities)
           best == Best(now, capacities)
           index == Chosen(now, capacities)
           least == Least(now, capacities)
           share == Share(now, capacities, rest)
           v == NewLevel(now, capacities, rest)
           after == AllocateToBestCandidate(now, capacities, rest)
           f == Missing(after, capacities, level)
           S == 1..k
           T == best \ {index}
           b == [i \in S |-> IF i \in T THEN share - 1 ELSE 0]
<1>1. /\ best \in SUBSET S /\ index \in best
      /\ Cardinality(best) \in Nat \ {0}
      /\ \A i \in best : now[i] = least
      /\ least \in Nat
  BY BestIsLeast
<1>2. share \in Nat \ {0} /\ (Cardinality(best) - 1) * (share - 1) <= rest - share
  BY <1>1, ShareFacts DEF Share
<1>3. v \in Nat /\ v <= least + share /\ \A i \in free \ best : v <= now[i]
  BY RoundLiftsChosen
<1>4. after \in [1..k -> Nat] /\ after[index] = v
  BY RoundLiftsChosen DEF NewLevel
<1>5. \A i \in 1..k : i # index => after[i] = now[i]
  BY RoundLiftsChosen, ZenonT(30)
<1>6. free = {i \in S : now[i] < capacities[i]}
  BY DEF Free
<1> HIDE DEF after, share, least, v, free, best, index
<1>7. Fill(after, capacities, level) = SumFunctionOnSet(f, S) /\ Integral(f, S)
      /\ \A i \in S : f[i] = IF after[i] < capacities[i] /\ after[i] < level
                             THEN (IF capacities[i] < level THEN capacities[i] ELSE level) - after[i]
                             ELSE 0
  BY <1>4, MissingType, ZenonT(30)
<1> HIDE DEF f
<1>8. ASSUME NEW i \in S PROVE f[i] <= b[i]
  <2>1. b[i] = (IF i \in T THEN share - 1 ELSE 0) /\ after[i] \in Nat /\ capacities[i] \in Nat /\ now[i] \in Nat
    BY <1>4
  <2>2. v - 1 <= least + (share - 1) /\ level <= v - 1
    BY <1>1, <1>2, <1>3 DEF v
  <2> HIDE DEF b
  <2>3. CASE i = index
    <3>1. after[i] = v /\ i \notin T
      BY <1>4, <2>3
    <3>2. ~(after[i] < level) /\ b[i] = 0
      BY <1>3, <2>1, <2>2, <3>1
    <3>3. f[i] = 0
      BY <1>7, <3>2
    <3>4. QED
      BY <3>2, <3>3
  <2>4. CASE i \in T
    <3>1. after[i] = least
      BY <1>1, <1>5, <2>4
    <3>2. f[i] = IF least < capacities[i] /\ least < level
                 THEN (IF capacities[i] < level THEN capacities[i] ELSE level) - least
                 ELSE 0
      BY <1>7, <3>1
    <3>3. f[i] <= share - 1
      <4> DEFINE c == capacities[i]
      <4>1. c \in Nat
        BY <2>1
      <4> HIDE DEF c
      <4>2. (IF least < c /\ least < level THEN (IF c < level THEN c ELSE level) - least ELSE 0)
              <= share - 1
        BY <1>1, <1>2, <1>3, <2>2, <4>1
      <4> QED BY <3>2, <4>2 DEF c
    <3>4. b[i] = share - 1
      BY <2>1, <2>4
    <3>5. QED
      BY <3>3, <3>4
  <2>5. CASE i \in free \ best
    <3>1. after[i] = now[i] /\ v <= now[i] /\ i \notin T
      BY <1>1, <1>3, <1>5, <2>5
    <3>2. QED
      BY <1>3, <1>7, <2>1, <2>2, <3>1
  <2>6. CASE i \notin free /\ i # index
    <3>1. after[i] = now[i] /\ ~(now[i] < capacities[i])
      BY <1>5, <1>6, <2>6
    <3>2. b[i] >= 0
      BY <1>2, <2>1
    <3>3. QED
      BY <1>7, <2>1, <3>1, <3>2
  <2>7. QED
    BY <2>3, <2>4, <2>5, <2>6
<1>9. Integral(b, S) /\ T \in SUBSET S /\ IsFiniteSet(T) /\ IsFiniteSet(best)
  <2>1. IsFiniteSet(S)
    BY FS_Interval
  <2>2. best \in SUBSET S /\ T \in SUBSET S
    BY <1>1
  <2>3. \A i \in S : b[i] \in Int
    BY <1>2
  <2> HIDE DEF S, T, b
  <2>4. QED
    BY <2>1, <2>2, <2>3, FS_Subset DEF Integral
<1>10. SumFunctionOnSet(f, S) <= SumFunctionOnSet(b, S)
  <2> HIDE DEF S, b
  <2> QED BY <1>7, <1>8, <1>9, SumIsMonotone
<1>11. SumFunctionOnSet(b, S) = SumFunctionOnSet(b, T)
  <2>1. \A x \in S \ T : b[x] = 0
    OBVIOUS
  <2> HIDE DEF S, T, b
  <2> QED BY <1>9, <2>1, SumOnSubset
<1>12. SumFunctionOnSet(b, T) = Cardinality(T) * (share - 1)
  <2>1. \A x \in T : b[x] = share - 1
    BY <1>9
  <2>2. share - 1 \in Int
    BY <1>2
  <2> HIDE DEF S, T, b
  <2> QED BY <1>9, <2>1, <2>2, SumOfConstant
<1>13. Cardinality(T) = Cardinality(best) - 1
  BY <1>1, <1>9, FS_RemoveElement
<1>14. SumFunctionOnSet(f, S) <= rest - share
  <2> DEFINE x == SumFunctionOnSet(f, S)
             y == SumFunctionOnSet(b, S)
  <2>1. x <= y /\ y <= rest - share
    BY <1>2, <1>10, <1>11, <1>12, <1>13
  <2>2. x \in Int /\ y \in Int
    <3> HIDE DEF S, b
    <3> QED BY <1>7, <1>9, SumType
  <2> HIDE DEF x, y
  <2>3. x <= rest - share
    BY <1>2, <2>1, <2>2
  <2> QED BY <2>3 DEF x
<1>15. QED
  BY <1>7, <1>14 DEF after, share

(***************************************************************************)
(* Lifting to a level the chosen bucket is below of takes as much less.    *)
(***************************************************************************)
LEMMA HigherIsNearer ==
  ASSUME NEW k \in Nat, NEW now \in [1..k -> Nat], NEW capacities \in [1..k -> Nat],
         Free(now, capacities) # {}, NEW rest \in Nat \ {0},
         NEW level \in Int, NewLevel(now, capacities, rest) <= level
  PROVE  Fill(AllocateToBestCandidate(now, capacities, rest), capacities, level)
           = Fill(now, capacities, level)
               - (NewLevel(now, capacities, rest) - Least(now, capacities))
<1> DEFINE best == Best(now, capacities)
           index == Chosen(now, capacities)
           least == Least(now, capacities)
           v == NewLevel(now, capacities, rest)
           after == AllocateToBestCandidate(now, capacities, rest)
           f == Missing(now, capacities, level)
           h == Missing(after, capacities, level)
           S == 1..k
<1>1. index \in S /\ now[index] = least /\ least \in Nat /\ least < capacities[index]
  BY BestIsLeast, SMTT(30)
<1>2. v \in Nat /\ least < v /\ v <= capacities[index]
  BY RoundLiftsChosen
<1>3. after \in [1..k -> Nat] /\ after[index] = v
  BY RoundLiftsChosen DEF NewLevel
<1>4. \A i \in 1..k : i # index => after[i] = now[i]
  BY RoundLiftsChosen, ZenonT(30)
<1> HIDE DEF after, least, v, best, index
<1>5. Fill(now, capacities, level) = SumFunctionOnSet(f, S) /\ Integral(f, S)
      /\ \A i \in S : f[i] = IF now[i] < capacities[i] /\ now[i] < level
                             THEN (IF capacities[i] < level THEN capacities[i] ELSE level) - now[i]
                             ELSE 0
  BY MissingType
<1>6. Fill(after, capacities, level) = SumFunctionOnSet(h, S) /\ Integral(h, S)
      /\ \A i \in S : h[i] = IF after[i] < capacities[i] /\ after[i] < level
                             THEN (IF capacities[i] < level THEN capacities[i] ELSE level) - after[i]
                             ELSE 0
  BY <1>3, MissingType, ZenonT(30)
<1> HIDE DEF f, h
<1>7. \A i \in S \ {index} : h[i] = f[i]
  BY <1>4, <1>5, <1>6
<1>8. h[index] \in Int /\ f[index] \in Int /\ h[index] - f[index] = least - v
  <2>1. capacities[index] \in Nat /\ v <= level
    BY <1>1 DEF v
  <2>2. f[index] = (IF capacities[index] < level THEN capacities[index] ELSE level) - least
    BY <1>1, <1>2, <1>5, <2>1, SMTT(30)
  <2>3. h[index] = (IF capacities[index] < level THEN capacities[index] ELSE level) - v
    <3>1. CASE v < capacities[index] /\ v < level
      BY <1>1, <1>3, <1>6, <3>1
    <3>2. CASE ~(v < capacities[index] /\ v < level)
      <4>1. h[index] = 0
        BY <1>1, <1>3, <1>6, <3>2
      <4>2. v = IF capacities[index] < level THEN capacities[index] ELSE level
        BY <1>2, <2>1, <3>2
      <4>3. QED
        BY <1>2, <4>1, <4>2
    <3>3. QED
      BY <3>1, <3>2
  <2>4. QED
    BY <1>1, <1>2, <2>1, <2>2, <2>3, SMTT(30)
<1>9. SumFunctionOnSet(h, S) = SumFunctionOnSet(f, S) + (h[index] - f[index])
  <2> HIDE DEF S
  <2> QED BY <1>1, <1>5, <1>7, <1>8, SumExcept
<1>10. SumFunctionOnSet(f, S) \in Int
  BY <1>5, SumType
<1>11. SumFunctionOnSet(h, S) = SumFunctionOnSet(f, S) - (v - least)
  <2> DEFINE x == SumFunctionOnSet(h, S)
             y == SumFunctionOnSet(f, S)
  <2>1. x = y + (least - v) /\ y \in Int
    BY <1>8, <1>9, <1>10
  <2> HIDE DEF x, y
  <2>2. x = y - (v - least)
    BY <1>1, <1>2, <2>1
  <2> QED BY <2>2 DEF x, y
<1>12. QED
  BY <1>5, <1>6, <1>11 DEF after, v, least

LEMMA RoundKeepsPartial ==
  ASSUME NEW k, NEW buckets, NEW capacities, NEW size, IsInput(k, buckets, capacities, size),
         NEW now \in Partial(k, buckets, capacities, size),
         Free(now, capacities) # {}, Allocated(buckets, now) # size,
         NEW after,
         after = AllocateToBestCandidate(now, capacities, size - Allocated(buckets, now))
  PROVE  /\ after \in Partial(k, buckets, capacities, size)
         /\ Allocated(buckets, after) > Allocated(buckets, now)
<1> DEFINE before == Allocated(buckets, now)
           rest == size - before
           index == Chosen(now, capacities)
           least == Least(now, capacities)
           share == Share(now, capacities, rest)
           v == NewLevel(now, capacities, rest)
<1>1. k \in Nat /\ buckets \in [1..k -> Nat] /\ capacities \in [1..k -> Nat] /\ now \in [1..k -> Nat]
      /\ size \in Nat /\ before \in Int
      /\ (\A i \in 1..k : now[i] >= buckets[i])
      /\ (\A i \in 1..k : now[i] > buckets[i] => now[i] <= capacities[i])
      /\ (\A i \in 1..k : now[i] > buckets[i] => Fill(now, capacities, now[i] - 1) <= rest)
  <2>1. k \in Nat /\ buckets \in [1..k -> Nat] /\ now \in [1..k -> Nat]
    BY DEF IsInput, Partial
  <2>2. before \in Int
    BY <2>1, AllocatedIsSum
  <2>3. QED
    BY <2>1, <2>2 DEF IsInput, Partial
<1>2. k \in Nat /\ capacities \in [1..k -> Nat] /\ now \in [1..k -> Nat]
  BY <1>1
<1>3. /\ rest \in Nat \ {0}
      /\ after \in [1..k -> Nat]
      /\ Allocated(buckets, after) = before + (v - least)
  BY RoundAllocates
<1> HIDE DEF rest, before
<1>4. ASSUME NEW level \in Int
       PROVE  Fill(now, capacities, level) \in Int /\ Fill(after, capacities, level) \in Int
  <2>1. after \in [1..k -> Nat]
    BY <1>3
  <2>2. Fill(now, capacities, level) \in Nat
    BY <1>2, MissingType
  <2>3. Fill(after, capacities, level) \in Nat
    BY <1>2, <2>1, MissingType
  <2> QED BY <2>2, <2>3
<1>5. v \in Nat /\ least < v /\ v <= least + share /\ v <= capacities[index]
  BY <1>1, <1>3, RoundLiftsChosen
<1>6. index \in 1..k /\ now[index] = least /\ least \in Nat
  BY <1>1, BestIsLeast
<1>7. share \in Nat \ {0} /\ share <= rest
  BY <1>1, <1>3, BestIsLeast, ShareFacts DEF Share
<1>8. after[index] = v
  BY DEF NewLevel, rest, before
<1>9. \A i \in 1..k : i # index => after[i] = now[i]
  <2>1. after = AllocateToBestCandidate(now, capacities, rest)
    BY DEF rest, before
  <2>2. rest \in Nat \ {0}
    BY <1>3
  <2>3. \A i \in 1..k : i # index => AllocateToBestCandidate(now, capacities, rest)[i] = now[i]
    BY <1>2, <2>2, RoundLiftsChosen, ZenonT(30)
  <2> QED BY <2>1, <2>3
<1>10. \A level \in Int : level < v => Fill(after, capacities, level) <= rest - share
  BY <1>1, <1>3, OthersCanFollow DEF rest, before
<1>11. \A level \in Int : v <= level =>
        Fill(after, capacities, level) = Fill(now, capacities, level) - (v - least)
  BY <1>1, <1>3, HigherIsNearer, ZenonT(30) DEF rest, before
<1> HIDE DEF v, least, share, index
<1>12. Allocated(buckets, after) > before /\ Allocated(buckets, after) <= size
       /\ size - Allocated(buckets, after) = rest - (v - least)
  BY <1>1, <1>3, <1>5, <1>6, <1>7, SMTT(30) DEF rest
<1>13. \A i \in 1..k : after[i] >= buckets[i] /\ (after[i] > buckets[i] => after[i] <= capacities[i])
  <2> SUFFICES ASSUME NEW i \in 1..k
               PROVE  after[i] >= buckets[i] /\ (after[i] > buckets[i] => after[i] <= capacities[i])
    OBVIOUS
  <2>1. CASE i = index
    BY <1>1, <1>5, <1>6, <1>8, <2>1
  <2>2. CASE i # index
    BY <1>1, <1>9, <2>2
  <2>3. QED
    BY <2>1, <2>2
<1>14. ASSUME NEW i \in 1..k, after[i] > buckets[i]
       PROVE  Fill(after, capacities, after[i] - 1) <= rest - (v - least)
  <2>1. after[i] \in Nat
    BY <1>3
  <2>2. CASE after[i] - 1 < v
    <3> DEFINE x == Fill(after, capacities, after[i] - 1)
    <3>1. x <= rest - share
      BY <1>10, <2>1, <2>2
    <3>2. x \in Int
      <4>1. after[i] - 1 \in Int
        BY <2>1
      <4> QED BY <1>4, <4>1
    <3> HIDE DEF x
    <3>3. x <= rest - (v - least)
      BY <1>3, <1>5, <1>6, <1>7, <3>1, <3>2
    <3> QED BY <3>3 DEF x
  <2>3. CASE v <= after[i] - 1
    <3>1. i # index
      BY <1>5, <1>8, <2>3
    <3>2. now[i] = after[i]
      BY <1>9, <3>1
    <3> DEFINE x == Fill(after, capacities, after[i] - 1)
               y == Fill(now, capacities, after[i] - 1)
    <3>3. x = y - (v - least) /\ y <= rest
      BY <1>1, <1>11, <1>14, <2>1, <2>3, <3>2
    <3>4. y \in Int
      <4>1. after[i] - 1 \in Int
        BY <2>1
      <4> QED BY <1>4, <4>1
    <3> HIDE DEF x, y
    <3>5. x <= rest - (v - least)
      BY <1>3, <1>5, <1>6, <3>3, <3>4
    <3> QED BY <3>5 DEF x
  <2>4. QED
    BY <1>5, <2>1, <2>2, <2>3
<1>15. QED
  BY <1>3, <1>12, <1>13, <1>14 DEF Partial, before

(***************************************************************************)
(* All rounds: as each but an idle one allocates, the size is used up or   *)
(* there is no space when they are over.                                   *)
(***************************************************************************)
Round(buckets, capacities, size, now) ==
  IF size - Allocated(buckets, now) = 0 \/ Free(now, capacities) = {} THEN now
  ELSE AllocateToBestCandidate(now, capacities, size - Allocated(buckets, now))

LEMMA RoundType ==
  ASSUME NEW k, NEW buckets, NEW capacities, NEW size, IsInput(k, buckets, capacities, size),
         NEW now \in Partial(k, buckets, capacities, size)
  PROVE  /\ Round(buckets, capacities, size, now) \in Partial(k, buckets, capacities, size)
         /\ Allocated(buckets, now) \in Int /\ Allocated(buckets, now) <= size
         /\ Allocated(buckets, Round(buckets, capacities, size, now)) \in Int
         /\ \/ Allocated(buckets, Round(buckets, capacities, size, now)) > Allocated(buckets, now)
            \/ /\ Round(buckets, capacities, size, now) = now
               /\ Allocated(buckets, now) = size \/ Free(now, capacities) = {}
<1> DEFINE given == Allocated(buckets, now)
           after == Round(buckets, capacities, size, now)
<1>1. \A x \in Partial(k, buckets, capacities, size) :
        Allocated(buckets, x) \in Int /\ Allocated(buckets, x) <= size
  <2> SUFFICES ASSUME NEW x \in Partial(k, buckets, capacities, size)
               PROVE  Allocated(buckets, x) \in Int /\ Allocated(buckets, x) <= size
    OBVIOUS
  <2>1. k \in Nat /\ buckets \in [1..k -> Nat] /\ x \in [1..k -> Nat] /\ Allocated(buckets, x) <= size
    BY DEF IsInput, Partial
  <2> QED BY <2>1, AllocatedIsSum
<1>2. size \in Nat
  BY DEF IsInput
<1>3. CASE given = size \/ Free(now, capacities) = {}
  <2>1. after = now
    BY <1>1, <1>2, <1>3 DEF Round
  <2>2. QED
    BY <1>1, <1>3, <2>1
<1>4. CASE given # size /\ Free(now, capacities) # {}
  <2>1. after = AllocateToBestCandidate(now, capacities, size - given)
    BY <1>1, <1>2, <1>4 DEF Round
  <2> HIDE DEF after
  <2>2. after \in Partial(k, buckets, capacities, size) /\ Allocated(buckets, after) > given
    BY <1>4, <2>1, RoundKeepsPartial
  <2>3. QED
    BY <1>1, <2>2 DEF after
<1>5. QED
  BY <1>3, <1>4

LEMMA NothingGivenIsPartial ==
  ASSUME NEW k, NEW buckets, NEW capacities, NEW size, IsInput(k, buckets, capacities, size)
  PROVE  buckets \in Partial(k, buckets, capacities, size) /\ Allocated(buckets, buckets) = 0
<1>1. k \in Nat /\ buckets \in [1..k -> Nat] /\ size \in Nat
  BY DEF IsInput
<1>2. Allocated(buckets, buckets) = 0
  <2> DEFINE f == Given(buckets, buckets)
             S == 1..k
  <2>1. Allocated(buckets, buckets) = SumFunctionOnSet(f, S) /\ \A i \in S : f[i] = buckets[i] - buckets[i]
        /\ Integral(f, S)
    BY <1>1, AllocatedIsSum
  <2> HIDE DEF f
  <2>2. \A i \in S \ {} : f[i] = 0
    BY <1>1, <2>1
  <2> HIDE DEF S
  <2>3. SumFunctionOnSet(f, S) = SumFunctionOnSet(f, {})
    BY <2>1, <2>2, SumOnSubset
  <2>4. QED
    BY <2>1, <2>3, SumEmpty
<1>3. QED
  BY <1>1, <1>2 DEF Partial

LEMMA AllocationHasTrace ==
  ASSUME NEW k, NEW buckets, NEW capacities, NEW size, IsInput(k, buckets, capacities, size)
  PROVE  LET P == Partial(k, buckets, capacities, size)
             F == [pair \in (1..size) \X P |-> Round(buckets, capacities, size, pair[2])]
         IN  HasFoldTrace(size, P, buckets, F, Allocate(buckets, capacities, size))
<1> DEFINE P == Partial(k, buckets, capacities, size)
           S == 1..size
           F == [pair \in S \X P |-> Round(buckets, capacities, size, pair[2])]
           body(h) == [s \in SUBSET S |-> IF s = {} THEN buckets
                                          ELSE LET now == h[s \ {Max(s)}]
                                                   rest == size - Allocated(buckets, now)
                                               IN  IF rest = 0 \/ Free(now, capacities) = {} THEN now
                                                   ELSE AllocateToBestCandidate(now, capacities, rest)]
<1>1. size \in Nat /\ buckets \in P
  BY NothingGivenIsPartial DEF IsInput
<1>2. F \in [(1..size) \X P -> P]
  <2> SUFFICES ASSUME NEW pair \in S \X P
               PROVE  Round(buckets, capacities, size, pair[2]) \in P
    OBVIOUS
  <2>1. pair[2] \in P
    OBVIOUS
  <2>2. QED
    BY <2>1, RoundType
<1> HIDE DEF P
<1>3. PICK g : FoldsWith(g, size, P, buckets, F)
  <2> HIDE DEF F
  <2> QED BY <1>1, <1>2, FoldExists
<1>4. \A s \in SUBSET S : s # {} => Max(s) \in S
  BY <1>1, HasGreatest
<1>5. ASSUME NEW h, NEW s \in SUBSET S, s # {}, h[s \ {Max(s)}] \in P
      PROVE  F[<<Max(s), h[s \ {Max(s)}]>>] = body(h)[s]
  <2>1. <<Max(s), h[s \ {Max(s)}]>> \in S \X P
    BY <1>4, <1>5
  <2>2. F[<<Max(s), h[s \ {Max(s)}]>>] = Round(buckets, capacities, size, h[s \ {Max(s)}])
    BY <2>1
  <2>3. QED
    BY <1>5, <2>2 DEF Round
<1>6. g = body(g)
  <2>1. ASSUME NEW s \in SUBSET S PROVE g[s] = body(g)[s]
    <3>1. CASE s = {}
      BY <1>3, <3>1 DEF FoldsWith
    <3>2. CASE s # {}
      <4>1. s \ {Max(s)} \in SUBSET S
        OBVIOUS
      <4>2. g[s \ {Max(s)}] \in P /\ g[s] = F[<<Max(s), g[s \ {Max(s)}]>>]
        BY <1>3, <3>2, <4>1 DEF FoldsWith
      <4> HIDE DEF body, F
      <4>3. QED
        BY <1>5, <3>2, <4>2
    <3>3. QED
      BY <3>1, <3>2
  <2>2. g = [s \in SUBSET S |-> g[s]]
    BY <1>3 DEF FoldsWith
  <2>3. body(g) = [s \in SUBSET S |-> body(g)[s]]
    OBVIOUS
  <2> HIDE DEF body
  <2>4. QED
    BY <2>1, <2>2, <2>3
<1> DEFINE iter == CHOOSE h : h = body(h)
<1>7. iter = body(iter)
  <2> HIDE DEF body
  <2> QED BY <1>6
<1>8. Allocate(buckets, capacities, size) = iter[S]
  BY DEF Allocate, FoldLeft, MapThenFoldSet
<1> HIDE DEF iter, F
<1>9. iter[{}] = buckets
  BY <1>7
<1>10. \A s \in SUBSET S : s # {} /\ iter[s \ {Max(s)}] \in P =>
         iter[s] = F[<<Max(s), iter[s \ {Max(s)}]>>]
  <2> HIDE DEF body
  <2> QED BY <1>5, <1>7
<1>11. IsFold(iter, size, P, buckets, F)
  BY <1>9, <1>10 DEF IsFold
<1>12. HasFoldTrace(size, P, buckets, F, iter[1..size])
  BY <1>1, <1>2, <1>11, FoldHasTrace
<1>13. QED
  BY <1>8, <1>12 DEF P, F

LEMMA AllocationEnds ==
  ASSUME NEW k, NEW buckets, NEW capacities, NEW size, IsInput(k, buckets, capacities, size),
         NEW after, after = Allocate(buckets, capacities, size)
  PROVE  /\ after \in Partial(k, buckets, capacities, size)
         /\ Allocated(buckets, after) = size \/ Free(after, capacities) = {}
<1> DEFINE P == Partial(k, buckets, capacities, size)
           F == [pair \in (1..size) \X P |-> Round(buckets, capacities, size, pair[2])]
           Got(x) == Allocated(buckets, x)
           Ended(x) == Got(x) = size \/ Free(x, capacities) = {}
<1>1. PICK trace : FoldTrace(trace, size, P, buckets, F) /\ trace[size] = after
  <2>1. HasFoldTrace(size, P, buckets, F, after)
    BY AllocationHasTrace
  <2> HIDE DEF P, F
  <2> QED BY <2>1 DEF HasFoldTrace
<1>2. size \in Nat /\ Got(buckets) = 0
  BY NothingGivenIsPartial DEF IsInput
<1>3. trace \in [0..size -> P] /\ trace[0] = buckets
  BY <1>1 DEF FoldTrace
<1>4. ASSUME NEW i \in 1..size
      PROVE  trace[i] = Round(buckets, capacities, size, trace[i - 1]) /\ trace[i - 1] \in P
  <2>1. trace[i] = F[<<i, trace[i - 1]>>]
    BY <1>1 DEF FoldTrace
  <2>2. i - 1 \in 0..size
    BY <1>2
  <2>3. trace[i - 1] \in P
    BY <1>3, <2>2
  <2> HIDE DEF P
  <2>4. QED
    BY <2>1, <2>3
<1>5. \A x \in P : Got(x) \in Int /\ Got(x) <= size
  BY RoundType
<1>6. ASSUME NEW x \in P
      PROVE  \/ Got(Round(buckets, capacities, size, x)) > Got(x)
             \/ Round(buckets, capacities, size, x) = x /\ Ended(x)
  BY RoundType
<1> HIDE DEF P, F, Got
<1> DEFINE N == {i \in Nat : i <= size => Got(trace[i]) >= i \/ Ended(trace[i])}
<1>7. 0 \in N
  BY <1>2, <1>3
<1>8. ASSUME NEW i \in N PROVE i + 1 \in N
  <2> SUFFICES ASSUME i + 1 <= size
               PROVE  Got(trace[i + 1]) >= i + 1 \/ Ended(trace[i + 1])
    OBVIOUS
  <2>1. i \in Nat /\ (Got(trace[i]) >= i \/ Ended(trace[i]))
    BY <1>2
  <2>2. trace[i + 1] = Round(buckets, capacities, size, trace[i]) /\ trace[i] \in P
    <3>1. i + 1 \in 1..size /\ (i + 1) - 1 = i
      BY <2>1
    <3> HIDE DEF N
    <3>2. QED
      BY <1>4, <3>1
  <2>3. trace[i + 1] \in P
    BY <1>3, <2>1
  <2> HIDE DEF N, Ended
  <2>4. \/ Got(trace[i + 1]) > Got(trace[i])
        \/ trace[i + 1] = trace[i] /\ Ended(trace[i])
    BY <1>6, <2>2
  <2>5. CASE trace[i + 1] = trace[i] /\ Ended(trace[i])
    BY <2>5
  <2>6. CASE Got(trace[i + 1]) > Got(trace[i])
    <3>1. Got(trace[i + 1]) \in Int /\ Got(trace[i]) \in Int
      BY <1>5, <2>2, <2>3
    <3>2. CASE Got(trace[i]) >= i
      BY <2>1, <2>6, <3>1, <3>2
    <3>3. CASE Ended(trace[i])
      <4>1. Round(buckets, capacities, size, trace[i]) = trace[i]
        BY <1>2, <1>5, <2>2, <3>3 DEF Round, Ended, Got
      <4>2. QED
        BY <2>2, <3>3, <4>1
    <3>4. QED
      BY <2>1, <3>2, <3>3
  <2>7. QED
    BY <2>4, <2>5, <2>6
<1>9. N = Nat
  <2> HIDE DEF N
  <2> QED BY <1>7, <1>8, AllNaturals DEF N
<1>10. Got(after) >= size \/ Ended(after)
  BY <1>1, <1>2, <1>9
<1>11. after \in P
  BY <1>1, <1>2, <1>3
<1>12. QED
  BY <1>2, <1>5, <1>10, <1>11 DEF P, Got

(***************************************************************************)
(* A bucket that got something had space; what there is space for is the   *)
(* most that can be allocated, and all of it if no space is left.          *)
(***************************************************************************)
LEMMA AllocatedIsWithinSpace ==
  ASSUME NEW k, NEW buckets, NEW capacities, NEW size, IsInput(k, buckets, capacities, size),
         NEW after \in Partial(k, buckets, capacities, size)
  PROVE  /\ Space(buckets, capacities) \in Int
         /\ Allocated(buckets, after) <= Space(buckets, capacities)
         /\ Free(after, capacities) = {} => Allocated(buckets, after) = Space(buckets, capacities)
<1> DEFINE S == 1..k
           T == Free(buckets, capacities)
           f == Given(buckets, after)
           room == [i \in S |-> capacities[i] - buckets[i]]
<1>1. k \in Nat /\ buckets \in [S -> Nat] /\ capacities \in [S -> Nat] /\ after \in [S -> Nat]
      /\ \A i \in S : after[i] >= buckets[i] /\ (after[i] > buckets[i] => after[i] <= capacities[i])
  BY DEF IsInput, Partial
<1>2. Allocated(buckets, after) = SumFunctionOnSet(f, S) /\ Integral(f, S)
      /\ \A i \in S : f[i] = after[i] - buckets[i]
  BY <1>1, AllocatedIsSum
<1>3. T \in SUBSET S /\ \A i \in S : i \in T <=> buckets[i] < capacities[i]
  BY <1>1 DEF Free
<1>4. Space(buckets, capacities) = SumFunctionOnSet(room, T)
  BY <1>1 DEF Space
<1>5. \A i \in S : room[i] = capacities[i] - buckets[i] /\ room[i] \in Int
  BY <1>1
<1> HIDE DEF f, room, T
<1>6. ASSUME NEW i \in S
      PROVE  (i \notin T => f[i] = 0) /\ (i \in T => f[i] <= room[i])
  <2>1. /\ after[i] \in Nat /\ buckets[i] \in Nat /\ capacities[i] \in Nat
        /\ after[i] >= buckets[i] /\ (after[i] > buckets[i] => after[i] <= capacities[i])
    BY <1>1
  <2>2. f[i] = after[i] - buckets[i] /\ room[i] = capacities[i] - buckets[i]
        /\ (i \in T <=> buckets[i] < capacities[i])
    BY <1>2, <1>3, <1>5
  <2>3. QED
    BY <2>1, <2>2
<1>7. (\A i \in S \ T : f[i] = 0) /\ (\A i \in T : f[i] <= room[i])
  BY <1>3, <1>6
<1>8. IsFiniteSet(S)
  BY <1>1, FS_Interval
<1> HIDE DEF S
<1>9. Integral(f, T) /\ Integral(room, T)
  BY <1>2, <1>3, <1>5, <1>8, FS_Subset DEF Integral
<1>10. SumFunctionOnSet(f, S) = SumFunctionOnSet(f, T)
  BY <1>2, <1>3, <1>7, SumOnSubset
<1>11. SumFunctionOnSet(f, T) <= SumFunctionOnSet(room, T)
  BY <1>7, <1>9, SumIsMonotone
<1>12. ASSUME Free(after, capacities) = {}
       PROVE  SumFunctionOnSet(f, T) = SumFunctionOnSet(room, T)
  <2>1. \A i \in S : ~(after[i] < capacities[i])
    BY <1>1, <1>12 DEF Free
  <2>2. \A i \in T : f[i] = room[i]
    BY <1>1, <1>2, <1>3, <1>5, <2>1
  <2>3. QED
    BY <1>9, <2>2, SumIsExtensional
<1>13. QED
  BY <1>2, <1>4, <1>9, <1>10, <1>11, <1>12, SumType

(***************************************************************************)
(* The allocation is min-first.                                            *)
(***************************************************************************)
LEMMA AllocateIsMinFirst ==
  ASSUME NEW k, NEW buckets, NEW capacities, NEW size, IsInput(k, buckets, capacities, size)
  PROVE  IsMinFirst(buckets, capacities, size, Allocate(buckets, capacities, size))
<1> DEFINE after == Allocate(buckets, capacities, size)
           space == Space(buckets, capacities)
           given == Allocated(buckets, after)
<1>1. after \in Partial(k, buckets, capacities, size) /\ (given = size \/ Free(after, capacities) = {})
  BY AllocationEnds
<1> HIDE DEF after
<1>2. /\ k \in Nat /\ size \in Nat /\ buckets \in [1..k -> Nat] /\ capacities \in [1..k -> Nat]
      /\ after \in [1..k -> Nat]
      /\ \A i \in 1..k : after[i] >= buckets[i]
      /\ \A i \in 1..k : after[i] > buckets[i] => after[i] <= capacities[i]
      /\ \A i \in 1..k : after[i] > buckets[i] => Fill(after, capacities, after[i] - 1) <= size - given
  BY <1>1 DEF IsInput, Partial
<1>3. given \in Int /\ given <= size
  BY <1>1, RoundType
<1>4. space \in Int /\ given <= space /\ (Free(after, capacities) = {} => given = space)
  BY <1>1, AllocatedIsWithinSpace
<1> HIDE DEF given, space
<1>5. given = Min({size, space})
  <2>1. given \in {size, space} /\ \A x \in {size, space} : given <= x
    BY <1>1, <1>3, <1>4
  <2>2. QED
    BY <1>2, <1>3, <1>4, <2>1 DEF Min
<1>6. ASSUME NEW i \in 1..k, NEW j \in Free(after, capacities), after[i] > buckets[i]
      PROVE  after[i] <= after[j] + 1
  <2> DEFINE level == after[i] - 1
             f == Missing(after, capacities, level)
  <2>1. j \in 1..k /\ after[j] < capacities[j] /\ after[j] \in Nat /\ after[i] \in Nat /\ capacities[j] \in Nat
    BY <1>2 DEF Free
  <2>2. level \in Int
    BY <2>1
  <2>3. Fill(after, capacities, level) = 0
    <3>1. given = size
      BY <1>1, <1>6
    <3>2. Fill(after, capacities, level) <= 0
      BY <1>2, <1>6, <3>1
    <3>3. Fill(after, capacities, level) \in Nat
      <4> HIDE DEF level
      <4> QED BY <1>2, <2>2, MissingType
    <3>4. QED
      BY <3>2, <3>3
  <2> HIDE DEF level
  <2>4. SumFunctionOnSet(f, 1..k) = 0 /\ \A x \in 1..k : f[x] \in Nat
    <3>1. Fill(after, capacities, level) = SumFunctionOnSet(f, 1..k)
      BY <1>2, <2>2, MissingType
    <3>2. \A x \in 1..k : f[x] \in Nat
      BY <1>2, <2>2, MissingType
    <3>3. QED
      BY <2>3, <3>1, <3>2
  <2>5. f[j] = IF after[j] < capacities[j] /\ after[j] < level
               THEN (IF capacities[j] < level THEN capacities[j] ELSE level) - after[j]
               ELSE 0
    BY <1>2, <2>1, <2>2, MissingType, ZenonT(30)
  <2> HIDE DEF f
  <2>6. IsFiniteSet(1..k)
    BY <1>2, FS_Interval
  <2>7. SumFunctionOnSet(f, 1..k) >= f[j]
    BY <2>1, <2>4, <2>6, SumCoversSummand
  <2>8. ~(after[j] < level)
    <3> SUFFICES ASSUME after[j] < level PROVE FALSE
      OBVIOUS
    <3>1. f[j] > 0
      BY <2>1, <2>2, <2>5
    <3>2. QED
      BY <2>1, <2>4, <2>7, <3>1
  <2>9. QED
    BY <2>1, <2>2, <2>8 DEF level
<1>7. DOMAIN buckets = 1..k
  BY <1>2
<1>8. QED
  BY <1>2, <1>5, <1>6, <1>7 DEF IsMinFirst, after, given, space
===============================================================================

------------------------ MODULE WithdrawalQueueProofs ------------------------
(***************************************************************************)
(* Theorems about WithdrawalQueue, for any accounts, amounts, states of    *)
(* the stETH pool, budgets, precision of the share rate and length of the  *)
(* queue.                                                                  *)
(***************************************************************************)
EXTENDS WithdrawalQueue, DataLemmas

------------------------------------------------------------------------------

(***************************************************************************)
(* A batch is worth at most the stETH asked for, whatever the rate; and at *)
(* least a wei if its shares are.                                          *)
(***************************************************************************)
Batch(stETH, shares) ==
  [shareRate |-> (stETH * E27_PRECISION_BASE) \div shares, stETH |-> stETH, shares |-> shares]

LEMMA BatchIsWorthItsAmountAtMost ==
  ASSUME NEW stETH \in Nat, NEW shares \in Nat, NEW rate \in Nat
  PROVE  EtherOf(Batch(stETH, shares), rate) \in 0..stETH
<1> DEFINE q == (stETH * E27_PRECISION_BASE) \div shares
           E == E27_PRECISION_BASE
           worth == (shares * rate) \div E
<1>1. E \in Nat \ {0}
  BY WithdrawalMathAssumption
<1>2. shares * rate \in Nat /\ stETH * E \in Nat
  BY <1>1
<1>3. worth \in Nat /\ worth * E <= shares * rate
  BY <1>1, <1>2, Division
<1>4. ASSUME q > rate PROVE worth <= stETH
  <2>1. CASE shares = 0
    <3>1. shares * rate = 0
      BY <2>1
    <3>2. worth = 0
      BY <1>1, <3>1
    <3>3. QED
      BY <3>2
  <2>2. CASE shares # 0
    <3>1. shares \in Nat \ {0}
      BY <2>2
    <3>2. q \in Nat /\ q * shares <= stETH * E
      BY <1>2, <3>1, Division
    <3> HIDE DEF q
    <3>3. rate * shares <= q * shares
      BY <1>4, <3>2, MultipleMonotone
    <3>4. rate * shares = shares * rate
      OBVIOUS
    <3>5. worth * E <= stETH * E
      <4>1. /\ rate * shares \in Int /\ q * shares \in Int /\ worth * E \in Int
        BY <1>1, <1>3, <3>2
      <4>2. QED
        BY <1>2, <1>3, <3>2, <3>3, <3>4, <4>1
    <3>6. ASSUME stETH + 1 <= worth PROVE FALSE
      <4>1. (stETH + 1) * E <= worth * E
        BY <1>1, <1>3, <3>6, MultipleMonotone
      <4>2. (stETH + 1) * E = stETH * E + E
        BY <1>1
      <4>3. worth * E \in Int
        BY <1>1, <1>3
      <4>4. QED
        BY <1>1, <1>2, <3>5, <4>1, <4>2, <4>3
    <3>7. QED
      BY <1>3, <3>6
  <2>3. QED
    BY <2>1, <2>2
<1>5. EtherOf(Batch(stETH, shares), rate) = IF q > rate THEN worth ELSE stETH
  BY DEF EtherOf, Batch
<1>6. QED
  <2> HIDE DEF q, worth
  <2> QED BY <1>3, <1>4, <1>5

LEMMA BatchIsWorthAWei ==
  ASSUME NEW stETH \in Nat \ {0}, NEW shares \in Nat, NEW rate \in Nat,
         shares * rate >= E27_PRECISION_BASE
  PROVE  EtherOf(Batch(stETH, shares), rate) > 0
<1> DEFINE q == (stETH * E27_PRECISION_BASE) \div shares
           E == E27_PRECISION_BASE
           worth == (shares * rate) \div E
<1>1. E \in Nat \ {0}
  BY WithdrawalMathAssumption
<1>2. shares * rate \in Nat /\ shares * rate >= E
  BY <1>1
<1>3. worth \in Nat /\ shares * rate < worth * E + E
  BY <1>1, <1>2, Division
<1>4. worth # 0
  <2> SUFFICES ASSUME worth = 0 PROVE FALSE
    OBVIOUS
  <2>1. worth * E = 0
    BY <1>1
  <2>2. QED
    BY <1>1, <1>2, <1>3, <2>1
<1>5. EtherOf(Batch(stETH, shares), rate) = IF q > rate THEN worth ELSE stETH
  BY DEF EtherOf, Batch
<1>6. QED
  <2> HIDE DEF q, worth
  <2> QED BY <1>3, <1>4, <1>5

------------------------------------------------------------------------------

(***************************************************************************)
(* The cumulative values of a queue grow by the amount of each request,    *)
(* which is within the limits, and by shares that are worth a wei at any   *)
(* rate a report may come at.                                              *)
(***************************************************************************)
Grows(q, id) ==
  LET shares == CumulativeShares(q, id) - CumulativeShares(q, id - 1)
  IN  /\ CumulativeStETH(q, id) - CumulativeStETH(q, id - 1)
           \in MIN_STETH_WITHDRAWAL_AMOUNT..MAX_STETH_WITHDRAWAL_AMOUNT
      /\ shares \in Nat
      /\ \A pool \in Pools : shares * ShareRate(pool) >= E27_PRECISION_BASE

IsQueue(q) == q \in Seq(WithdrawalRequest) /\ \A id \in 1..Len(q) : Grows(q, id)

LEMMA CumulativeType ==
  ASSUME NEW q \in Seq(WithdrawalRequest), NEW id \in 0..Len(q)
  PROVE  CumulativeStETH(q, id) \in Nat /\ CumulativeShares(q, id) \in Nat
<1>1. id # 0 => q[id] \in WithdrawalRequest
  OBVIOUS
<1>2. QED
  BY <1>1 DEF CumulativeStETH, CumulativeShares, WithdrawalRequest

LEMMA CumulativeValuesGrow ==
  ASSUME NEW q, IsQueue(q), NEW i \in 0..Len(q), NEW j \in 0..Len(q), i <= j
  PROVE  /\ CumulativeStETH(q, i) <= CumulativeStETH(q, j)
         /\ CumulativeShares(q, i) <= CumulativeShares(q, j)
<1> DEFINE N == {k \in Nat : i + k <= Len(q) => /\ CumulativeStETH(q, i) <= CumulativeStETH(q, i + k)
                                                /\ CumulativeShares(q, i) <= CumulativeShares(q, i + k)}
<1>1. q \in Seq(WithdrawalRequest) /\ Len(q) \in Nat
  BY DEF IsQueue
<1>2. 0 \in N
  <2>1. i + 0 = i /\ CumulativeStETH(q, i) \in Nat /\ CumulativeShares(q, i) \in Nat
    BY <1>1, CumulativeType
  <2>2. QED
    BY <2>1
<1>3. ASSUME NEW k \in N PROVE k + 1 \in N
  <2> SUFFICES ASSUME i + (k + 1) <= Len(q)
               PROVE  /\ CumulativeStETH(q, i) <= CumulativeStETH(q, i + (k + 1))
                      /\ CumulativeShares(q, i) <= CumulativeShares(q, i + (k + 1))
    OBVIOUS
  <2>1. /\ k \in Nat
        /\ CumulativeStETH(q, i) <= CumulativeStETH(q, i + k)
        /\ CumulativeShares(q, i) <= CumulativeShares(q, i + k)
    BY <1>1
  <2> HIDE DEF N
  <2> DEFINE m == i + (k + 1)
  <2>2. m \in 1..Len(q) /\ m - 1 = i + k /\ i + k \in 0..Len(q)
    BY <1>1, <2>1
  <2>3. Grows(q, m)
    BY <2>2 DEF IsQueue
  <2>4. /\ CumulativeStETH(q, m) - CumulativeStETH(q, i + k) \in Nat
        /\ CumulativeShares(q, m) - CumulativeShares(q, i + k) \in Nat
    BY <2>2, <2>3, WithdrawalQueueAssumption DEF Grows
  <2>5. /\ CumulativeStETH(q, i) \in Nat /\ CumulativeShares(q, i) \in Nat
        /\ CumulativeStETH(q, i + k) \in Nat /\ CumulativeShares(q, i + k) \in Nat
        /\ CumulativeStETH(q, m) \in Nat /\ CumulativeShares(q, m) \in Nat
    BY <1>1, <2>2, CumulativeType
  <2> HIDE DEF m
  <2>6. QED
    BY <2>1, <2>4, <2>5 DEF m
<1>4. N = Nat
  <2> HIDE DEF N
  <2> QED BY <1>2, <1>3, AllNaturals DEF N
<1>5. j - i \in Nat /\ i + (j - i) = j
  BY <1>1
<1>6. j - i \in N
  <2> HIDE DEF N
  <2> QED BY <1>4, <1>5
<1>7. QED
  BY <1>5, <1>6

(***************************************************************************)
(* So each part of a queue is a batch of its own: it is worth at most its  *)
(* amount, and at least a wei.                                             *)
(***************************************************************************)
LEMMA RateType ==
  ASSUME NEW pool \in Pools
  PROVE  ShareRate(pool) \in Nat /\ pool.ether \in Nat \ {0} /\ pool.shares \in Nat \ {0}
<1>1. pool.ether \in Nat \ {0} /\ pool.shares \in Nat \ {0}
  BY WithdrawalQueueAssumption DEF Pool
<1>2. pool.ether * E27_PRECISION_BASE \in Nat
  BY <1>1, WithdrawalMathAssumption
<1>3. QED
  BY <1>1, <1>2, Division DEF ShareRate

LEMMA BatchFacts ==
  ASSUME NEW q, IsQueue(q), NEW i \in 0..Len(q), NEW j \in 0..Len(q), i < j
  PROVE  LET b == CalcBatch(q, i, j)
         IN  /\ b = Batch(b.stETH, b.shares)
             /\ b.stETH = CumulativeStETH(q, j) - CumulativeStETH(q, i)
             /\ b.shares = CumulativeShares(q, j) - CumulativeShares(q, i)
             /\ b.stETH \in Nat \ {0} /\ b.shares \in Nat
             /\ \A pool \in Pools : b.shares * ShareRate(pool) >= E27_PRECISION_BASE
<1> DEFINE b == CalcBatch(q, i, j)
<1>1. q \in Seq(WithdrawalRequest) /\ Len(q) \in Nat /\ j \in 1..Len(q) /\ j - 1 \in 0..Len(q) /\ i <= j - 1
  BY DEF IsQueue
<1>2. /\ b.stETH = CumulativeStETH(q, j) - CumulativeStETH(q, i)
      /\ b.shares = CumulativeShares(q, j) - CumulativeShares(q, i)
      /\ b = Batch(b.stETH, b.shares)
  BY DEF CalcBatch, Batch
<1>3. /\ CumulativeStETH(q, i) <= CumulativeStETH(q, j - 1)
      /\ CumulativeShares(q, i) <= CumulativeShares(q, j - 1)
  BY <1>1, CumulativeValuesGrow
<1>4. Grows(q, j)
  BY <1>1 DEF IsQueue
<1>5. /\ CumulativeStETH(q, i) \in Nat /\ CumulativeShares(q, i) \in Nat
      /\ CumulativeStETH(q, j - 1) \in Nat /\ CumulativeShares(q, j - 1) \in Nat
      /\ CumulativeStETH(q, j) \in Nat /\ CumulativeShares(q, j) \in Nat
  BY <1>1, CumulativeType
<1>6. /\ CumulativeStETH(q, j) - CumulativeStETH(q, j - 1) \in Nat \ {0}
      /\ CumulativeShares(q, j) - CumulativeShares(q, j - 1) \in Nat
  BY <1>4, WithdrawalQueueAssumption DEF Grows
<1>7. b.stETH \in Nat \ {0} /\ b.shares \in Nat
      /\ CumulativeShares(q, j) - CumulativeShares(q, j - 1) <= b.shares
  <2> HIDE DEF b
  <2> QED BY <1>2, <1>3, <1>5, <1>6, SMTT(30)
<1>8. ASSUME NEW pool \in Pools PROVE b.shares * ShareRate(pool) >= E27_PRECISION_BASE
  <2> DEFINE last == CumulativeShares(q, j) - CumulativeShares(q, j - 1)
             rate == ShareRate(pool)
  <2>1. rate \in Nat
    BY RateType
  <2>2. last * rate >= E27_PRECISION_BASE
    BY <1>4 DEF Grows
  <2> HIDE DEF last, rate, b
  <2>3. last \in Nat /\ last <= b.shares
    BY <1>6, <1>7 DEF last
  <2>4. last * rate <= b.shares * rate
    BY <1>7, <2>1, <2>3, MultipleMonotone
  <2>5. last * rate \in Int /\ b.shares * rate \in Int
    BY <1>7, <2>1, <2>3
  <2>6. QED
    BY <2>2, <2>4, <2>5, WithdrawalMathAssumption DEF rate
<1>9. QED
  BY <1>2, <1>7, <1>8

LEMMA WorthOfBatch ==
  ASSUME NEW q, IsQueue(q), NEW i \in 0..Len(q), NEW j \in 0..Len(q), i < j, NEW rate \in Nat
  PROVE  EtherOf(CalcBatch(q, i, j), rate) \in 0..(CumulativeStETH(q, j) - CumulativeStETH(q, i))
<1> DEFINE b == CalcBatch(q, i, j)
<1>1. /\ b = Batch(b.stETH, b.shares)
      /\ b.stETH = CumulativeStETH(q, j) - CumulativeStETH(q, i)
      /\ b.stETH \in Nat /\ b.shares \in Nat
  BY BatchFacts
<1>2. EtherOf(Batch(b.stETH, b.shares), rate) \in 0..b.stETH
  <2> HIDE DEF b
  <2> QED BY <1>1, BatchIsWorthItsAmountAtMost
<1>3. QED
  BY <1>1, <1>2

LEMMA BatchHasWorth ==
  ASSUME NEW q, IsQueue(q), NEW i \in 0..Len(q), NEW j \in 0..Len(q), i < j, NEW pool \in Pools
  PROVE  EtherOf(CalcBatch(q, i, j), ShareRate(pool)) > 0
<1> DEFINE b == CalcBatch(q, i, j)
<1>1. /\ b = Batch(b.stETH, b.shares)
      /\ b.stETH \in Nat \ {0} /\ b.shares \in Nat
      /\ b.shares * ShareRate(pool) >= E27_PRECISION_BASE
  BY BatchFacts
<1>2. EtherOf(Batch(b.stETH, b.shares), ShareRate(pool)) > 0
  <2> HIDE DEF b
  <2> QED BY <1>1, BatchIsWorthAWei, RateType
<1>3. QED
  BY <1>1, <1>2

------------------------------------------------------------------------------

(***************************************************************************)
(* The calculation of the batches to finalize.                             *)
(***************************************************************************)
Accumulator == [remainingEthBudget : Int, batches : Seq(Nat), prevShareRate : Int, stopped : BOOLEAN]

LEMMA HandleRequestType ==
  ASSUME NEW q, IsQueue(q), Pools # {}, NEW rate \in Nat, NEW time \in Int,
         NEW acc \in Accumulator, NEW id \in 1..Len(q)
  PROVE  HandleRequest(q, rate, time, acc, id) \in Accumulator
<1> DEFINE batch == CalcBatch(q, id - 1, id)
           eth == EtherOf(batch, rate)
<1>1. id - 1 \in 0..Len(q) /\ id \in 0..Len(q) /\ id - 1 < id /\ id \in Nat
  BY DEF IsQueue
<1>2. eth \in Nat
  <2>1. eth \in 0..(CumulativeStETH(q, id) - CumulativeStETH(q, id - 1))
    BY <1>1, WorthOfBatch
  <2>2. QED
    <3> HIDE DEF eth
    <3> QED BY <2>1
<1>3. batch.shareRate \in Int
  <2> DEFINE stETH == batch.stETH
             shares == batch.shares
  <2>1. PICK pool \in Pools : TRUE
    OBVIOUS
  <2> DEFINE poolRate == ShareRate(pool)
  <2>2. /\ batch = Batch(stETH, shares)
        /\ stETH \in Nat \ {0} /\ shares \in Nat
        /\ shares * poolRate >= E27_PRECISION_BASE
    BY <1>1, BatchFacts
  <2>3. batch.shareRate = (stETH * E27_PRECISION_BASE) \div shares
    BY <2>2 DEF Batch
  <2> HIDE DEF stETH, shares, batch, poolRate
  <2>4. shares # 0
    <3>1. 0 * poolRate = 0
      BY RateType DEF poolRate
    <3>2. QED
      BY <2>2, <3>1, WithdrawalMathAssumption
  <2>5. stETH * E27_PRECISION_BASE \in Nat
    BY <2>2, WithdrawalMathAssumption
  <2>6. QED
    BY <2>2, <2>3, <2>4, <2>5, Division
<1>4. acc.remainingEthBudget \in Int /\ acc.batches \in Seq(Nat) /\ acc.stopped \in BOOLEAN
  BY DEF Accumulator
<1>5. acc.remainingEthBudget - eth \in Int /\ Append(acc.batches, id) \in Seq(Nat)
      /\ [acc.batches EXCEPT ![Len(acc.batches)] = id] \in Seq(Nat)
  <2> HIDE DEF eth
  <2>1. Append(acc.batches, id) \in Seq(Nat)
    BY <1>1, <1>4, AppendProperties
  <2>2. [acc.batches EXCEPT ![Len(acc.batches)] = id] \in Seq(Nat)
    <3> DEFINE bs == acc.batches
    <3>1. bs \in Seq(Nat) /\ bs \in [1..Len(bs) -> Nat] /\ Len(bs) \in Nat
      BY <1>4, LenProperties
    <3>2. CASE Len(bs) = 0
      <4>1. [bs EXCEPT ![Len(bs)] = id] = bs
        BY <3>1, <3>2
      <4>2. QED
        BY <3>1, <4>1
    <3>3. CASE Len(bs) # 0
      <4>1. Len(bs) \in 1..Len(bs)
        BY <3>1, <3>3
      <4> HIDE DEF bs
      <4>2. [bs EXCEPT ![Len(bs)] = id] \in Seq(Nat)
        BY <1>1, <3>1, <4>1, ExceptSeq
      <4>3. QED
        BY <4>2 DEF bs
    <3>4. QED
      BY <3>2, <3>3
  <2>3. QED
    BY <1>2, <1>4, <2>1, <2>2
<1>6. HandleRequest(q, rate, time, acc, id) \in
        {[acc EXCEPT !.stopped = TRUE],
         [[[acc EXCEPT !.remainingEthBudget = @ - eth] EXCEPT !.prevShareRate = batch.shareRate]
            EXCEPT !.batches[Len(acc.batches)] = id],
         [[acc EXCEPT !.remainingEthBudget = @ - eth] EXCEPT !.stopped = TRUE],
         [[[acc EXCEPT !.remainingEthBudget = @ - eth] EXCEPT !.prevShareRate = batch.shareRate]
            EXCEPT !.batches = Append(@, id)]}
  <2> HIDE DEF eth, batch
  <2> QED BY DEF HandleRequest, eth, batch
<1>7. QED
  <2> HIDE DEF eth, batch
  <2> QED BY <1>3, <1>5, <1>6, ZenonT(30) DEF Accumulator

(***************************************************************************)
(* The states of a calculation over count requests after the first prev:   *)
(* each is the previous one with a request handled.                        *)
(***************************************************************************)
IsTrace(trace, q, rate, time, base, prev, count) ==
  /\ trace \in [0..count -> Accumulator]
  /\ trace[0] = base
  /\ \A k \in 1..count : trace[k] = HandleRequest(q, rate, time, trace[k - 1], prev + k)

HandledFrom(q, rate, time, base, prev, count) ==
  FoldLeft(LAMBDA acc, id : HandleRequest(q, rate, time, acc, id), base,
           [k \in 1..count |-> prev + k])

HasTrace(q, rate, time, base, prev, count) ==
  \E trace : /\ IsTrace(trace, q, rate, time, base, prev, count)
             /\ HandledFrom(q, rate, time, base, prev, count) = trace[count]

LEMMA CalculationHasTrace ==
  ASSUME NEW q, NEW rate, NEW time, NEW base, NEW prev, NEW count,
         IsQueue(q), Pools # {}, rate \in Nat, time \in Int, base \in Accumulator,
         prev \in Nat, count \in Nat, prev + count <= Len(q)
  PROVE  HasTrace(q, rate, time, base, prev, count)
<1> DEFINE S == 1..count
           ids == [k \in S |-> prev + k]
           C == MaxOf(count)
           Step == [pair \in S \X Accumulator |-> HandleRequest(q, rate, time, pair[2], prev + pair[1])]
           body(g) == [s \in SUBSET S |-> IF s = {} THEN base
                                          ELSE HandleRequest(q, rate, time, g[s \ {Max(s)}], ids[Max(s)])]
<1>1. Len(q) \in Nat /\ \A k \in S : k \in Nat /\ prev + k \in 1..Len(q) /\ ids[k] = prev + k
  BY DEF IsQueue
<1>2. Step \in [S \X Accumulator -> Accumulator]
  <2> SUFFICES ASSUME NEW pair \in S \X Accumulator
               PROVE  HandleRequest(q, rate, time, pair[2], prev + pair[1]) \in Accumulator
    OBVIOUS
  <2>1. pair[2] \in Accumulator /\ prev + pair[1] \in 1..Len(q)
    BY <1>1
  <2>2. QED
    BY <2>1, HandleRequestType
<1>3. IsFiniteSet(S) /\ Chooses(C, S)
  BY FS_Interval, MaxChooses
<1>4. PICK g \in [SUBSET S -> Accumulator] : Follows(g, S, base, C, Step)
  <2> HIDE DEF S, C, Step
  <2> QED BY <1>2, <1>3, RecursionOnSubsets
<1>5. ASSUME NEW s \in SUBSET S, s # {}
      PROVE  /\ C[s] = Max(s) /\ Max(s) \in S /\ s \ {Max(s)} \in SUBSET S
             /\ g[s \ {Max(s)}] \in Accumulator /\ ids[Max(s)] = prev + Max(s)
  <2>1. C[s] = Max(s) /\ Max(s) \in s
    BY <1>3, <1>5 DEF MaxOf, Chooses
  <2>2. QED
    BY <1>1, <1>4, <2>1
<1>6. ASSUME NEW s \in SUBSET S
      PROVE  g[s] = IF s = {} THEN base ELSE HandleRequest(q, rate, time, g[s \ {Max(s)}], ids[Max(s)])
  <2>1. CASE s = {}
    BY <1>4, <2>1 DEF Follows
  <2>2. CASE s # {}
    <3>1. g[s] = Step[<<C[s], g[s \ {C[s]}]>>]
      BY <1>4, <2>2 DEF Follows
    <3>2. <<Max(s), g[s \ {Max(s)}]>> \in S \X Accumulator
      BY <1>5, <2>2
    <3>3. QED
      BY <1>5, <2>2, <3>1, <3>2
  <2>3. QED
    BY <2>1, <2>2
<1>7. g = body(g)
  <2>1. \A s \in SUBSET S : g[s] = body(g)[s]
    BY <1>6
  <2>2. QED
    BY <2>1
<1> DEFINE iter == CHOOSE h : h = body(h)
<1>8. iter = body(iter)
  <2> HIDE DEF body
  <2> QED BY <1>7
<1>9. \A s \in SUBSET S :
        iter[s] = IF s = {} THEN base ELSE HandleRequest(q, rate, time, iter[s \ {Max(s)}], ids[Max(s)])
  <2> HIDE DEF iter
  <2> QED BY <1>8
<1>10. HandledFrom(q, rate, time, base, prev, count) = iter[S]
  BY DEF HandledFrom, FoldLeft, MapThenFoldSet
<1> DEFINE trace == [k \in 0..count |-> iter[1..k]]
<1>11. trace[0] = base /\ trace[count] = iter[S]
  <2> HIDE DEF iter
  <2>1. 1..0 = {} /\ {} \in SUBSET S
    OBVIOUS
  <2>2. iter[{}] = base
    BY <1>9, <2>1
  <2>3. QED
    BY <2>1, <2>2
<1>12. ASSUME NEW k \in 1..count
       PROVE  trace[k] = HandleRequest(q, rate, time, trace[k - 1], prev + k)
  <2> HIDE DEF iter
  <2>1. 1..k \in SUBSET S /\ k \in Nat /\ k # 0 /\ k \in 0..count /\ k - 1 \in 0..count
    OBVIOUS
  <2>2. 1..k # {} /\ Max(1..k) = k /\ (1..k) \ {k} = 1..(k - 1)
    BY <2>1, TopOfInterval
  <2>3. iter[1..k] = HandleRequest(q, rate, time, iter[1..(k - 1)], ids[k])
    BY <1>9, <2>1, <2>2
  <2>4. ids[k] = prev + k
    BY <1>1
  <2>5. QED
    BY <2>1, <2>3, <2>4
<1>13. \A k \in 0..count : trace[k] \in Accumulator
  <2> HIDE DEF iter, trace
  <2> DEFINE N == {k \in Nat : k <= count => trace[k] \in Accumulator}
  <2>1. 0 \in N
    BY <1>11
  <2>2. ASSUME NEW k \in N PROVE k + 1 \in N
    <3> SUFFICES ASSUME k + 1 <= count PROVE trace[k + 1] \in Accumulator
      OBVIOUS
    <3>1. k \in Nat /\ trace[k] \in Accumulator /\ k + 1 \in S /\ (k + 1) - 1 = k
      OBVIOUS
    <3> HIDE DEF N
    <3>2. trace[k + 1] = HandleRequest(q, rate, time, trace[k], prev + (k + 1))
      BY <1>12, <3>1
    <3>3. prev + (k + 1) \in 1..Len(q)
      BY <1>1, <3>1
    <3> DEFINE acc == trace[k]
               id == prev + (k + 1)
    <3>4. acc \in Accumulator /\ id \in 1..Len(q)
      BY <3>1, <3>3
    <3> HIDE DEF acc, id
    <3>5. HandleRequest(q, rate, time, acc, id) \in Accumulator
      BY <3>4, HandleRequestType
    <3>6. QED
      BY <3>2, <3>5 DEF acc, id
  <2>3. N = Nat
    <3> HIDE DEF N
    <3> QED BY <2>1, <2>2, AllNaturals DEF N
  <2>4. QED
    BY <2>3
<1>14. IsTrace(trace, q, rate, time, base, prev, count)
  <2>1. trace \in [0..count -> Accumulator]
    BY <1>13
  <2> HIDE DEF trace
  <2>2. QED
    BY <1>11, <1>12, <2>1 DEF IsTrace
<1>15. QED
  <2> HIDE DEF trace, iter
  <2> QED BY <1>10, <1>11, <1>14 DEF HasTrace

LEMMA CalculatedBatchesType ==
  ASSUME NEW q, IsQueue(q), Pools # {}, NEW rate \in Nat, NEW time \in Int, NEW perCall \in Nat,
         NEW last \in 0..Len(q), NEW budget \in Int
  PROVE  CalculateFinalizationBatches(q, last, rate, time, perCall,
                                      StartCalculation(budget)).batches \in Seq(Nat)
<1> DEFINE count == IF last + perCall < Len(q) THEN perCall ELSE Len(q) - last
           base == StartOfCall(q, last, StartCalculation(budget))
           handled == HandledFrom(q, rate, time, base, last, count)
<1>1. count \in Nat /\ last \in Nat /\ last + count <= Len(q)
  BY DEF IsQueue
<1>2. base \in Accumulator /\ LastHandled(last, StartCalculation(budget)) = last
  BY EmptySeq DEF StartOfCall, StartCalculation, LastHandled, Accumulator
<1>3. handled \in Accumulator
  <2> HIDE DEF count, base
  <2>1. HasTrace(q, rate, time, base, last, count)
    BY <1>1, <1>2, CalculationHasTrace
  <2>2. QED
    BY <1>1, <2>1 DEF HasTrace, IsTrace
<1>4. CalculateFinalizationBatches(q, last, rate, time, perCall, StartCalculation(budget)).batches
        = handled.batches
  BY <1>2 DEF CalculateFinalizationBatches, HandledFrom
<1>5. QED
  <2> HIDE DEF handled
  <2> QED BY <1>3, <1>4 DEF Accumulator

------------------------------------------------------------------------------

(***************************************************************************)
(* What prefinalize returns for valid batches.                             *)
(***************************************************************************)
StartOf(last, batches, i) == IF i = 1 THEN last ELSE batches[i - 1]

LEMMA ValidBatch ==
  ASSUME NEW q, IsQueue(q), NEW last \in 0..Len(q), NEW batches \in Seq(Nat),
         BatchesAreValid(q, last, batches), NEW i \in 1..Len(batches)
  PROVE  /\ StartOf(last, batches, i) \in 0..Len(q)
         /\ batches[i] \in 1..Len(q)
         /\ StartOf(last, batches, i) < batches[i]
         /\ BatchAt(q, last, batches, i) = CalcBatch(q, StartOf(last, batches, i), batches[i])
<1> DEFINE n == Len(batches)
<1>1. /\ n \in Nat \ {0} /\ Len(q) \in Nat
      /\ batches[1] > last /\ batches[n] <= Len(q)
      /\ \A k \in 2..n : batches[k - 1] < batches[k]
      /\ \A k \in 1..n : batches[k] \in Nat
  BY EmptySeq DEF BatchesAreValid, IsQueue
<1>2. \A k \in 1..n : batches[k] \in 1..Len(q)
  <2> SUFFICES ASSUME NEW k \in 1..n PROVE batches[k] \in 1..Len(q)
    OBVIOUS
  <2>1. 1 \in 1..k /\ k \in 1..n /\ n \in 1..n /\ k \in Nat
    BY <1>1
  <2>2. batches[1] <= batches[k] /\ batches[k] <= batches[n]
    <3>1. batches[1] <= batches[k]
      BY <1>1, <2>1, AscendingSequence
    <3>2. batches[k] <= batches[n]
      BY <1>1, <2>1, AscendingSequence
    <3>3. QED
      BY <3>1, <3>2
  <2>3. batches[1] \in Nat /\ batches[k] \in Nat /\ batches[n] \in Nat
    BY <1>1
  <2>4. QED
    BY <1>1, <2>2, <2>3
<1>3. CASE i = 1
  BY <1>1, <1>2, <1>3 DEF StartOf, BatchAt
<1>4. CASE i # 1
  <2>1. i \in 2..n /\ i - 1 \in 1..n
    BY <1>1, <1>4
  <2>2. QED
    BY <1>1, <1>2, <1>4, <2>1 DEF StartOf, BatchAt
<1>5. QED
  BY <1>3, <1>4

LEMMA SharesOfBatches ==
  ASSUME NEW q, IsQueue(q), NEW last \in 0..Len(q), NEW batches \in Seq(Nat),
         BatchesAreValid(q, last, batches)
  PROVE  PrefinalizedShares(q, last, batches)
           = CumulativeShares(q, batches[Len(batches)]) - CumulativeShares(q, last)
<1> DEFINE n == Len(batches)
           S == 1..n
           c == [i \in 0..n |-> CumulativeShares(q, IF i = 0 THEN last ELSE batches[i])]
           f == [i \in S |-> BatchAt(q, last, batches, i).shares]
<1>1. n \in Nat \ {0} /\ DOMAIN batches = S /\ q \in Seq(WithdrawalRequest) /\ Len(q) \in Nat
  BY EmptySeq DEF BatchesAreValid, IsQueue
<1>2. c \in [0..n -> Int]
  <2> SUFFICES ASSUME NEW i \in 0..n
               PROVE  CumulativeShares(q, IF i = 0 THEN last ELSE batches[i]) \in Int
    OBVIOUS
  <2>1. (IF i = 0 THEN last ELSE batches[i]) \in 0..Len(q)
    BY <1>1, ValidBatch
  <2>2. QED
    BY <1>1, <2>1, CumulativeType
<1>3. ASSUME NEW i \in S
      PROVE  f[i] = c[i] - c[i - 1]
  <2>1. f[i] = CalcBatch(q, StartOf(last, batches, i), batches[i]).shares
    BY ValidBatch
  <2>2. CalcBatch(q, StartOf(last, batches, i), batches[i]).shares
          = CumulativeShares(q, batches[i]) - CumulativeShares(q, StartOf(last, batches, i))
    BY DEF CalcBatch
  <2>3. i \in 0..n /\ i - 1 \in 0..n /\ i # 0 /\ (i - 1 = 0 <=> i = 1)
    BY <1>1
  <2>4. c[i] = CumulativeShares(q, batches[i])
        /\ c[i - 1] = CumulativeShares(q, StartOf(last, batches, i))
    BY <2>3 DEF StartOf
  <2>5. QED
    BY <2>1, <2>2, <2>4
<1>4. SumFunctionOnSet(f, S) = c[n] - c[0]
  <2> HIDE DEF c, f
  <2> QED BY <1>1, <1>2, <1>3, SumTelescopes
<1>5. PrefinalizedShares(q, last, batches) = SumFunctionOnSet(f, S)
  BY <1>1 DEF PrefinalizedShares, SumFunction
<1>6. c[n] = CumulativeShares(q, batches[n]) /\ c[0] = CumulativeShares(q, last)
  BY <1>1
<1>7. QED
  BY <1>4, <1>5, <1>6

LEMMA EtherOfBatches ==
  ASSUME NEW q, IsQueue(q), NEW last \in 0..Len(q), NEW batches \in Seq(Nat),
         BatchesAreValid(q, last, batches), NEW pool \in Pools
  PROVE  /\ PrefinalizedEther(q, last, batches, ShareRate(pool)) \in Nat
         /\ PrefinalizedEther(q, last, batches, ShareRate(pool)) > 0
<1> DEFINE S == 1..Len(batches)
           rate == ShareRate(pool)
           f == [i \in S |-> EtherOf(BatchAt(q, last, batches, i), rate)]
<1>1. Len(batches) \in Nat \ {0} /\ DOMAIN batches = S /\ 1 \in S
  BY EmptySeq DEF BatchesAreValid
<1>2. ASSUME NEW i \in S PROVE f[i] \in Nat /\ f[i] > 0
  <2> DEFINE j == StartOf(last, batches, i)
             k == batches[i]
  <2>1. /\ j \in 0..Len(q) /\ k \in 0..Len(q) /\ j < k
        /\ BatchAt(q, last, batches, i) = CalcBatch(q, j, k)
    BY ValidBatch
  <2>2. f[i] = EtherOf(CalcBatch(q, j, k), rate)
    BY <2>1
  <2> HIDE DEF j, k, f, rate
  <2>3. EtherOf(CalcBatch(q, j, k), rate) \in 0..(CumulativeStETH(q, k) - CumulativeStETH(q, j))
    BY <2>1, WorthOfBatch, RateType DEF rate
  <2>4. EtherOf(CalcBatch(q, j, k), rate) > 0
    BY <2>1, BatchHasWorth DEF rate
  <2>5. QED
    BY <2>2, <2>3, <2>4
<1>3. PrefinalizedEther(q, last, batches, rate) = SumFunctionOnSet(f, S)
  BY <1>1 DEF PrefinalizedEther, SumFunction
<1>4. IsFiniteSet(S)
  BY <1>1, FS_Interval
<1>5. SumFunctionOnSet(f, S) \in Nat /\ SumFunctionOnSet(f, S) >= f[1]
  <2> HIDE DEF f, S
  <2> QED BY <1>1, <1>2, <1>4, SumOfNaturals, SumCoversSummand
<1>6. QED
  <2> HIDE DEF f
  <2> QED BY <1>1, <1>2, <1>3, <1>5

------------------------------------------------------------------------------

(***************************************************************************)
(* The checkpoints: each report starts where the last one ended, so that   *)
(* their first requests ascend from 1.                                     *)
(***************************************************************************)
IsTable(table, last) ==
  /\ table \in Seq(Checkpoint)
  /\ last \in Nat
  /\ table = <<>> <=> last = 0
  /\ table # <<>> => table[1].fromRequestId = 1 /\ table[Len(table)].fromRequestId <= last
  /\ \A i \in 2..Len(table) : table[i - 1].fromRequestId < table[i].fromRequestId

LEMMA TableType ==
  ASSUME NEW table, NEW last, IsTable(table, last)
  PROVE  /\ Len(table) \in Nat /\ DOMAIN table = 1..Len(table)
         /\ \A h \in 1..Len(table) : /\ table[h].fromRequestId \in Nat
                                     /\ table[h].maxShareRate \in Nat
         /\ last # 0 => Len(table) # 0
         /\ Len(table) # 0 => table[1].fromRequestId = 1 /\ table[Len(table)].fromRequestId <= last
<1>1. table \in Seq(Checkpoint)
  BY DEF IsTable
<1>2. /\ Len(table) \in Nat /\ DOMAIN table = 1..Len(table)
      /\ \A h \in 1..Len(table) : table[h] \in Checkpoint
  BY <1>1, LenProperties, ElementOfSeq
<1>3. table # <<>> <=> Len(table) # 0
  BY <1>1, EmptySeq
<1>4. QED
  BY <1>2, <1>3 DEF IsTable, Checkpoint

LEMMA TableAscends ==
  ASSUME NEW table, NEW last, IsTable(table, last), NEW j \in DOMAIN table, NEW i \in 1..(j - 1)
  PROVE  table[i].fromRequestId < table[j].fromRequestId
<1> DEFINE N == {k \in Nat : i + (k + 1) <= Len(table) =>
                               table[i].fromRequestId < table[i + (k + 1)].fromRequestId}
<1>1. /\ Len(table) \in Nat /\ DOMAIN table = 1..Len(table)
      /\ \A h \in 1..Len(table) : table[h].fromRequestId \in Nat
      /\ \A h \in 2..Len(table) : table[h - 1].fromRequestId < table[h].fromRequestId
  BY TableType DEF IsTable
<1>2. i \in 1..Len(table) /\ j \in 1..Len(table) /\ i < j
  BY <1>1
<1>3. 0 \in N
  <2> SUFFICES ASSUME i + (0 + 1) <= Len(table)
               PROVE  table[i].fromRequestId < table[i + (0 + 1)].fromRequestId
    OBVIOUS
  <2>1. i + (0 + 1) \in 2..Len(table) /\ (i + (0 + 1)) - 1 = i
    BY <1>1, <1>2
  <2>2. QED
    BY <1>1, <2>1
<1>4. ASSUME NEW k \in N PROVE k + 1 \in N
  <2> DEFINE m == i + ((k + 1) + 1)
  <2> SUFFICES ASSUME m <= Len(table) PROVE table[i].fromRequestId < table[m].fromRequestId
    OBVIOUS
  <2>1. k \in Nat /\ (i + (k + 1) <= Len(table) =>
                        table[i].fromRequestId < table[i + (k + 1)].fromRequestId)
    OBVIOUS
  <2> HIDE DEF N
  <2>2. m \in 2..Len(table) /\ m - 1 = i + (k + 1) /\ i + (k + 1) \in 1..Len(table) /\ m \in 1..Len(table)
    BY <1>1, <1>2, <2>1
  <2>3. table[i + (k + 1)].fromRequestId < table[m].fromRequestId
    BY <1>1, <2>2
  <2>4. table[i].fromRequestId < table[i + (k + 1)].fromRequestId
    BY <1>1, <2>1, <2>2
  <2> HIDE DEF m
  <2>5. QED
    BY <1>1, <1>2, <2>2, <2>3, <2>4
<1>5. N = Nat
  <2> HIDE DEF N
  <2> QED BY <1>3, <1>4, AllNaturals DEF N
<1>6. j - i - 1 \in Nat /\ i + ((j - i - 1) + 1) = j
  BY <1>1, <1>2
<1>7. j - i - 1 \in N
  <2> HIDE DEF N
  <2> QED BY <1>5, <1>6
<1>8. QED
  BY <1>1, <1>2, <1>6, <1>7

(***************************************************************************)
(* The hint of a request is the last checkpoint that starts at or before   *)
(* it; no other is valid.                                                  *)
(***************************************************************************)
IsHint(table, id, hint) ==
  hint \in DOMAIN table /\ \A h \in DOMAIN table : table[h].fromRequestId <= id <=> h <= hint

LEMMA HintExists ==
  ASSUME NEW table, NEW last, IsTable(table, last), NEW id \in 1..last
  PROVE  \E hint : IsHint(table, id, hint)
<1> DEFINE n == Len(table)
           Starts == {h \in 1..n : table[h].fromRequestId <= id}
           hint == Max(Starts)
<1>1. /\ n \in Nat \ {0} /\ DOMAIN table = 1..n /\ id \in Nat
      /\ \A h \in 1..n : table[h].fromRequestId \in Nat
      /\ table[1].fromRequestId = 1
  BY TableType, SMTT(30) DEF IsTable
<1>2. 1 \in Starts
  BY <1>1
<1>3. hint \in Starts /\ \A h \in Starts : h <= hint
  <2>1. Starts \in SUBSET (1..n) /\ Starts # {}
    BY <1>2
  <2> HIDE DEF Starts
  <2>2. QED
    BY <1>1, <2>1, HasGreatest
<1>4. ASSUME NEW h \in 1..n, h <= hint PROVE table[h].fromRequestId <= id
  <2> HIDE DEF hint
  <2>1. hint \in 1..n /\ table[hint].fromRequestId <= id
    BY <1>3
  <2>2. CASE h = hint
    BY <2>1, <2>2
  <2>3. CASE h # hint
    <3>1. h \in 1..(hint - 1)
      BY <1>4, <2>1, <2>3
    <3>2. table[h].fromRequestId < table[hint].fromRequestId
      BY <1>1, <2>1, <3>1, TableAscends
    <3>3. QED
      BY <1>1, <2>1, <3>2
  <2>4. QED
    BY <2>2, <2>3
<1>5. QED
  <2> HIDE DEF hint
  <2> QED BY <1>1, <1>3, <1>4 DEF IsHint

LEMMA OnlyTheHintIsValid ==
  ASSUME NEW table, NEW last, IsTable(table, last), NEW id \in 1..last,
         NEW hint, IsHint(table, id, hint), NEW h \in DOMAIN table
  PROVE  HintIsValid(table, id, h) <=> h = hint
<1>1. /\ Len(table) \in Nat /\ DOMAIN table = 1..Len(table) /\ id \in Nat
      /\ \A k \in 1..Len(table) : table[k].fromRequestId \in Nat
      /\ hint \in 1..Len(table) /\ h \in 1..Len(table)
  <2>1. last \in Nat
    BY DEF IsTable
  <2>2. id \in Nat
    BY <2>1
  <2>3. QED
    BY <2>2, TableType DEF IsHint
<1>2. id >= table[h].fromRequestId <=> h <= hint
  BY <1>1 DEF IsHint
<1>3. h < Len(table) => (id < table[h + 1].fromRequestId <=> ~(h + 1 <= hint))
  <2> SUFFICES ASSUME h < Len(table)
               PROVE  id < table[h + 1].fromRequestId <=> ~(h + 1 <= hint)
    OBVIOUS
  <2>1. h + 1 \in 1..Len(table)
    BY <1>1
  <2>2. table[h + 1].fromRequestId <= id <=> h + 1 <= hint
    BY <1>1, <2>1 DEF IsHint
  <2>3. QED
    BY <1>1, <2>1, <2>2
<1>4. QED
  BY <1>1, <1>2, <1>3 DEF HintIsValid

(***************************************************************************)
(* The binary search finds the hint in any range that holds it.            *)
(***************************************************************************)
LEMMA SearchFindsTheHint ==
  ASSUME NEW table, NEW last, IsTable(table, last), NEW id \in 1..last, NEW hint, IsHint(table, id, hint),
         NEW start \in DOMAIN table, NEW end \in DOMAIN table, start <= hint, hint <= end - 1
  PROVE  FindWithinCheckpoints(table, id, start, end) = hint
<1> DEFINE Ranges == Nat \X Nat
           mid(r) == (r[2] + r[1] + 1) \div 2
           Done == {r \in Ranges : r[2] <= r[1]}
           measure == [r \in Ranges |-> IF r[2] <= r[1] THEN 0 ELSE r[2] - r[1]]
           next == [r \in Ranges \ Done |-> IF table[mid(r)].fromRequestId <= id
                                            THEN <<mid(r), r[2]>> ELSE <<r[1], mid(r) - 1>>]
           result == [r \in Done |-> r[1]]
           body(g) == [r \in Ranges |->
                         LET min == r[1]
                             max == r[2]
                             middle == (max + min + 1) \div 2
                         IN  IF max <= min THEN min
                             ELSE IF table[middle].fromRequestId <= id
                             THEN g[<<middle, max>>]
                             ELSE g[<<min, middle - 1>>]]
           search == CHOOSE g : g = body(g)
<1>1. /\ DOMAIN table = 1..Len(table) /\ Len(table) \in Nat
      /\ hint \in 1..Len(table) /\ start \in 1..Len(table) /\ end \in 1..Len(table)
  BY TableType DEF IsHint
<1>2. ASSUME NEW r \in Ranges \ Done
      PROVE  /\ r[1] \in Nat /\ r[2] \in Nat /\ mid(r) \in Nat /\ mid(r) - 1 \in Nat
             /\ r[1] < mid(r) /\ mid(r) <= r[2]
  OBVIOUS
<1>3. ASSUME NEW r \in Ranges \ Done
      PROVE  /\ next[r] \in Ranges /\ measure[next[r]] < measure[r]
             /\ next[r] = IF table[mid(r)].fromRequestId <= id
                          THEN <<mid(r), r[2]>> ELSE <<r[1], mid(r) - 1>>
  <2> HIDE DEF mid
  <2>1. next[r] \in {<<mid(r), r[2]>>, <<r[1], mid(r) - 1>>}
    OBVIOUS
  <2>2. /\ measure[<<mid(r), r[2]>>] < measure[r]
        /\ measure[<<r[1], mid(r) - 1>>] < measure[r]
    BY <1>2
  <2>3. QED
    BY <1>2, <2>1, <2>2
<1>4. PICK g \in [Ranges -> Nat] : EndsWith(g, Ranges, Done, result, next)
  <2>1. measure \in [Ranges -> Nat] /\ Done \in SUBSET Ranges /\ result \in [Done -> Nat]
    OBVIOUS
  <2>2. next \in [Ranges \ Done -> Ranges]
    <3> HIDE DEF mid
    <3> QED BY <1>3
  <2>3. Descends(Ranges, Done, next, measure)
    BY <1>3 DEF Descends
  <2> HIDE DEF Ranges, measure, Done, result, next
  <2>4. QED
    BY <2>1, <2>2, <2>3, TailRecursion
<1>5. g = body(g)
  <2> SUFFICES ASSUME NEW r \in Ranges PROVE g[r] = body(g)[r]
    OBVIOUS
  <2>1. CASE r \in Done
    BY <1>4, <2>1 DEF EndsWith
  <2>2. CASE r \notin Done
    <3>1. g[r] = g[next[r]] /\ ~(r[2] <= r[1])
      BY <1>4, <2>2 DEF EndsWith
    <3>2. next[r] = IF table[mid(r)].fromRequestId <= id
                    THEN <<mid(r), r[2]>> ELSE <<r[1], mid(r) - 1>>
      BY <1>3, <2>2
    <3> HIDE DEF next
    <3>3. QED
      BY <3>1, <3>2
  <2>3. QED
    BY <2>1, <2>2
<1>6. search = body(search)
  <2> HIDE DEF body
  <2> QED BY <1>5
<1>7. ASSUME NEW min \in Nat, NEW max \in Nat
      PROVE  LET middle == (max + min + 1) \div 2
             IN  search[<<min, max>>] = IF max <= min THEN min
                                        ELSE IF table[middle].fromRequestId <= id
                                        THEN search[<<middle, max>>]
                                        ELSE search[<<min, middle - 1>>]
  <2> HIDE DEF search
  <2>1. search[<<min, max>>] = body(search)[<<min, max>>]
    BY <1>6
  <2>2. <<min, max>> \in Ranges
    OBVIOUS
  <2>3. QED
    BY <2>1, <2>2
<1>8. FindWithinCheckpoints(table, id, start, end) = search[<<start, end - 1>>]
  BY DEF FindWithinCheckpoints
<1> HIDE DEF search
<1> DEFINE N == {n \in Nat : \A min, max \in 1..Len(table) :
                   max - min <= n /\ min <= hint /\ hint <= max => search[<<min, max>>] = hint}
<1>9. 0 \in N
  <2> SUFFICES ASSUME NEW min \in 1..Len(table), NEW max \in 1..Len(table),
                      max - min <= 0, min <= hint, hint <= max
               PROVE  search[<<min, max>>] = hint
    OBVIOUS
  <2>1. min \in Nat /\ max \in Nat /\ max <= min /\ min = hint
    BY <1>1
  <2>2. QED
    BY <1>7, <2>1
<1>10. ASSUME NEW n \in N PROVE n + 1 \in N
  <2> SUFFICES ASSUME NEW min \in 1..Len(table), NEW max \in 1..Len(table),
                      max - min <= n + 1, min <= hint, hint <= max
               PROVE  search[<<min, max>>] = hint
    OBVIOUS
  <2> DEFINE middle == (max + min + 1) \div 2
  <2>1. n \in Nat /\ \A i, j \in 1..Len(table) :
                        j - i <= n /\ i <= hint /\ hint <= j => search[<<i, j>>] = hint
    OBVIOUS
  <2> HIDE DEF N
  <2>2. CASE max <= min
    <3>1. min \in Nat /\ max \in Nat /\ min = hint
      BY <1>1, <2>2
    <3>2. QED
      BY <1>7, <2>2, <3>1
  <2>3. CASE ~(max <= min)
    <3>1. middle \in 1..Len(table) /\ min < middle /\ middle <= max
          /\ middle - 1 \in 1..Len(table) /\ max - middle <= n /\ (middle - 1) - min <= n
      BY <1>1, <2>1, <2>3
    <3>2. search[<<min, max>>] = IF table[middle].fromRequestId <= id
                                 THEN search[<<middle, max>>] ELSE search[<<min, middle - 1>>]
      BY <1>1, <1>7, <2>3
    <3> HIDE DEF middle
    <3>3. table[middle].fromRequestId <= id <=> middle <= hint
      BY <1>1, <3>1 DEF IsHint
    <3>4. CASE middle <= hint
      BY <2>1, <3>1, <3>2, <3>3, <3>4
    <3>5. CASE ~(middle <= hint)
      <4>1. hint <= middle - 1
        BY <1>1, <3>1, <3>5
      <4>2. QED
        BY <2>1, <3>1, <3>2, <3>3, <3>5, <4>1
    <3>6. QED
      BY <3>4, <3>5
  <2>4. QED
    BY <2>2, <2>3
<1>11. N = Nat
  <2> HIDE DEF N
  <2> QED BY <1>9, <1>10, AllNaturals DEF N
<1>12. search[<<start, end - 1>>] = hint
  <2>1. Len(table) \in N
    <3> HIDE DEF N
    <3> QED BY <1>1, <1>11
  <2>2. end - 1 \in 1..Len(table) /\ (end - 1) - start <= Len(table)
    BY <1>1
  <2>3. QED
    BY <1>1, <2>1, <2>2
<1>13. QED
  BY <1>8, <1>12

LEMMA FindsTheHintInItsRange ==
  ASSUME NEW table, NEW last, IsTable(table, last), NEW id \in 1..last, NEW hint, IsHint(table, id, hint),
         NEW start \in DOMAIN table, NEW end \in DOMAIN table
  PROVE  FindCheckpointHint(table, last, id, start, end)
           = IF hint \in start..end THEN hint ELSE NOT_FOUND
<1>1. /\ DOMAIN table = 1..Len(table) /\ Len(table) \in Nat
      /\ hint \in 1..Len(table) /\ start \in 1..Len(table) /\ end \in 1..Len(table)
      /\ \A k \in 1..Len(table) : table[k].fromRequestId \in Nat
  BY TableType DEF IsHint
<1>2. id \in Nat /\ last \in Nat /\ Len(table) # 0 /\ ~(id > last)
  BY <1>1 DEF IsTable
<1>3. ASSUME NEW h \in 1..Len(table)
      PROVE  /\ table[h].fromRequestId <= id <=> h <= hint
             /\ id >= table[h].fromRequestId <=> h <= hint
             /\ id < table[h].fromRequestId <=> ~(h <= hint)
  <2>1. table[h].fromRequestId <= id <=> h <= hint
    BY <1>1 DEF IsHint
  <2>2. QED
    BY <1>1, <1>2, <2>1
<1>4. CASE start > end
  BY <1>1, <1>2, <1>4 DEF FindCheckpointHint
<1>5. CASE start <= end /\ end <= hint
  <2>1. end # Len(table) => end + 1 \in 1..Len(table)
    BY <1>1
  <2>2. FindCheckpointHint(table, last, id, start, end)
          = IF end = Len(table) \/ id < table[end + 1].fromRequestId THEN end ELSE NOT_FOUND
    BY <1>1, <1>2, <1>3, <1>5 DEF FindCheckpointHint
  <2>3. (end = Len(table) \/ id < table[end + 1].fromRequestId) <=> end = hint
    BY <1>1, <1>3, <1>5, <2>1
  <2>4. QED
    BY <1>1, <1>5, <2>2, <2>3
<1>6. CASE start <= end /\ hint < end /\ hint < start
  <2>1. FindCheckpointHint(table, last, id, start, end) = NOT_FOUND
    BY <1>1, <1>2, <1>3, <1>6 DEF FindCheckpointHint
  <2>2. QED
    BY <1>1, <1>6, <2>1
<1>7. CASE start <= end /\ hint < end /\ start <= hint
  <2>1. FindCheckpointHint(table, last, id, start, end) = FindWithinCheckpoints(table, id, start, end)
    BY <1>1, <1>2, <1>3, <1>7 DEF FindCheckpointHint
  <2>2. FindWithinCheckpoints(table, id, start, end) = hint
    BY <1>1, <1>7, SearchFindsTheHint
  <2>3. QED
    BY <1>1, <1>7, <2>1, <2>2
<1>8. QED
  BY <1>1, <1>4, <1>5, <1>6, <1>7

------------------------------------------------------------------------------

(***************************************************************************)
(* The inductive invariant: the queue cumulates its requests, the          *)
(* checkpoints ascend, and the shares and the tokens are the ones of the   *)
(* requests.                                                               *)
(***************************************************************************)
WQInv ==
  /\ TypeOK
  /\ steth \in Pools
  /\ IsQueue(queue)
  /\ IsTable(checkpoints, lastFinalizedRequestId)
  /\ SharesAreOfUnfinalized
  /\ OwnersHoldTheirRequests
  /\ Len(queue) <= MAX_REQUESTS

LEMMA QueueAppends ==
  ASSUME NEW q, IsQueue(q), NEW r \in WithdrawalRequest, NEW shares \in Nat,
         NEW amount \in MIN_STETH_WITHDRAWAL_AMOUNT..MAX_STETH_WITHDRAWAL_AMOUNT,
         r.cumulativeStETH = CumulativeStETH(q, Len(q)) + amount,
         r.cumulativeShares = CumulativeShares(q, Len(q)) + shares,
         \A pool \in Pools : shares * ShareRate(pool) >= E27_PRECISION_BASE
  PROVE  /\ IsQueue(Append(q, r)) /\ Len(Append(q, r)) = Len(q) + 1
         /\ \A id \in 0..Len(q) :
              /\ CumulativeStETH(Append(q, r), id) = CumulativeStETH(q, id)
              /\ CumulativeShares(Append(q, r), id) = CumulativeShares(q, id)
         /\ CumulativeStETH(Append(q, r), Len(q) + 1) = CumulativeStETH(q, Len(q)) + amount
         /\ CumulativeShares(Append(q, r), Len(q) + 1) = CumulativeShares(q, Len(q)) + shares
<1> DEFINE longer == Append(q, r)
           n == Len(q)
<1>1. q \in Seq(WithdrawalRequest) /\ n \in Nat
  BY DEF IsQueue
<1>2. /\ longer \in Seq(WithdrawalRequest) /\ Len(longer) = n + 1
      /\ \A id \in 1..n : longer[id] = q[id]
      /\ longer[n + 1] = r
  BY <1>1, AppendProperties
<1> HIDE DEF longer
<1>3. \A id \in 0..n : /\ CumulativeStETH(longer, id) = CumulativeStETH(q, id)
                       /\ CumulativeShares(longer, id) = CumulativeShares(q, id)
  <2> SUFFICES ASSUME NEW id \in 0..n
               PROVE  /\ CumulativeStETH(longer, id) = CumulativeStETH(q, id)
                      /\ CumulativeShares(longer, id) = CumulativeShares(q, id)
    OBVIOUS
  <2>1. id = 0 \/ id \in 1..n
    BY <1>1
  <2>2. QED
    BY <1>2, <2>1 DEF CumulativeStETH, CumulativeShares
<1>4. /\ CumulativeStETH(longer, n + 1) = CumulativeStETH(q, n) + amount
      /\ CumulativeShares(longer, n + 1) = CumulativeShares(q, n) + shares
  BY <1>1, <1>2 DEF CumulativeStETH, CumulativeShares
<1>5. ASSUME NEW id \in 1..(n + 1) PROVE Grows(longer, id)
  <2>1. CASE id \in 1..n
    <3>1. Grows(q, id) /\ id \in 0..n /\ id - 1 \in 0..n
      BY <1>1, <2>1 DEF IsQueue
    <3>2. QED
      BY <1>3, <3>1 DEF Grows
  <2>2. CASE id = n + 1
    <3> DEFINE last == CumulativeStETH(q, n)
               lastShares == CumulativeShares(q, n)
    <3>1. last \in Nat /\ lastShares \in Nat /\ amount \in Nat
      BY <1>1, CumulativeType, WithdrawalQueueAssumption
    <3>2. /\ CumulativeStETH(longer, id) = last + amount
          /\ CumulativeShares(longer, id) = lastShares + shares
          /\ CumulativeStETH(longer, id - 1) = last
          /\ CumulativeShares(longer, id - 1) = lastShares
      <4>1. id - 1 = n /\ n \in 0..n
        BY <1>1, <2>2
      <4>2. QED
        BY <1>3, <1>4, <2>2, <4>1
    <3> HIDE DEF last, lastShares
    <3>3. /\ CumulativeStETH(longer, id) - CumulativeStETH(longer, id - 1) = amount
          /\ CumulativeShares(longer, id) - CumulativeShares(longer, id - 1) = shares
      BY <3>1, <3>2
    <3>4. QED
      BY <3>3 DEF Grows
  <2>3. QED
    BY <1>1, <2>1, <2>2
<1>6. QED
  BY <1>2, <1>3, <1>4, <1>5 DEF longer, IsQueue

LEMMA QueueKeepsAmounts ==
  ASSUME NEW q, IsQueue(q), NEW p \in Seq(WithdrawalRequest), Len(p) = Len(q),
         \A id \in 1..Len(q) : /\ p[id].cumulativeStETH = q[id].cumulativeStETH
                               /\ p[id].cumulativeShares = q[id].cumulativeShares
  PROVE  /\ IsQueue(p)
         /\ \A id \in 0..Len(q) : /\ CumulativeStETH(p, id) = CumulativeStETH(q, id)
                                  /\ CumulativeShares(p, id) = CumulativeShares(q, id)
<1>1. Len(q) \in Nat
  BY DEF IsQueue
<1>2. \A id \in 0..Len(q) : /\ CumulativeStETH(p, id) = CumulativeStETH(q, id)
                            /\ CumulativeShares(p, id) = CumulativeShares(q, id)
  <2> SUFFICES ASSUME NEW id \in 0..Len(q)
               PROVE  /\ CumulativeStETH(p, id) = CumulativeStETH(q, id)
                      /\ CumulativeShares(p, id) = CumulativeShares(q, id)
    OBVIOUS
  <2>1. id = 0 \/ id \in 1..Len(q)
    BY <1>1
  <2>2. QED
    BY <2>1 DEF CumulativeStETH, CumulativeShares
<1>3. ASSUME NEW id \in 1..Len(p) PROVE Grows(p, id)
  <2>1. Grows(q, id) /\ id \in 0..Len(q) /\ id - 1 \in 0..Len(q)
    BY <1>1 DEF IsQueue
  <2>2. QED
    BY <1>2, <2>1 DEF Grows
<1>4. QED
  BY <1>2, <1>3 DEF IsQueue

(***************************************************************************)
(* A request of the least amount is worth a wei at any rate, and so is any *)
(* other.                                                                  *)
(***************************************************************************)
LEMMA SharesAreWorthAWei ==
  ASSUME NEW p \in Pools, NEW pool \in Pools,
         NEW amount \in MIN_STETH_WITHDRAWAL_AMOUNT..MAX_STETH_WITHDRAWAL_AMOUNT
  PROVE  /\ (amount * p.shares) \div p.ether \in Nat
         /\ ((amount * p.shares) \div p.ether) * ShareRate(pool) >= E27_PRECISION_BASE
<1> DEFINE min == MIN_STETH_WITHDRAWAL_AMOUNT
           least == (min * p.shares) \div p.ether
           shares == (amount * p.shares) \div p.ether
           rate == ShareRate(pool)
<1>1. /\ p.ether \in Nat \ {0} /\ p.shares \in Nat /\ rate \in Nat
      /\ amount \in Nat /\ min \in Nat /\ min <= amount
  BY RateType, WithdrawalQueueAssumption
<1>2. min * p.shares \in Nat /\ amount * p.shares \in Nat /\ min * p.shares <= amount * p.shares
  BY <1>1, MultipleMonotone
<1>3. least \in Nat /\ shares \in Nat /\ least <= shares
  BY <1>1, <1>2, Division, DivisionMonotone
<1>4. least * rate >= E27_PRECISION_BASE
  BY RequestIsWorthAWei
<1> HIDE DEF least, shares, rate
<1>5. least * rate <= shares * rate /\ least * rate \in Nat /\ shares * rate \in Nat
  BY <1>1, <1>3, MultipleMonotone
<1>6. shares * rate >= E27_PRECISION_BASE
  BY <1>4, <1>5, WithdrawalMathAssumption
<1>7. QED
  BY <1>3, <1>6 DEF shares, rate

------------------------------------------------------------------------------

(***************************************************************************)
(* Each step preserves the invariant.                                      *)
(***************************************************************************)
LEMMA InitInv == Init => WQInv
<1> SUFFICES ASSUME Init PROVE WQInv
  OBVIOUS
<1>1. /\ queue = <<>> /\ checkpoints = <<>> /\ lastFinalizedRequestId = 0 /\ Len(queue) = 0
      /\ queue \in Seq(WithdrawalRequest) /\ checkpoints \in Seq(Checkpoint)
      /\ steth \in Pools /\ queueShares = 0
  BY EmptySeq DEF Init
<1>2. TypeOK
  <2>1. tokenApprovals = <<>> /\ tokenApprovals \in [1..Len(queue) -> Accounts \union {NoAccount}]
    BY <1>1 DEF Init
  <2>2. steth \in Pool
    BY <1>1, WithdrawalQueueAssumption
  <2>3. QED
    BY <1>1, <2>1, <2>2, WithdrawalQueueAssumption, PauseAssumption DEF Init, TypeOK
<1>3. IsQueue(queue)
  BY <1>1 DEF IsQueue
<1>4. IsTable(checkpoints, lastFinalizedRequestId)
  BY <1>1, EmptySeq DEF IsTable
<1>5. SharesAreOfUnfinalized
  BY <1>1 DEF SharesAreOfUnfinalized, lastRequestId, CumulativeShares
<1>6. OwnersHoldTheirRequests
  BY <1>1 DEF OwnersHoldTheirRequests, Init
<1>7. QED
  BY <1>1, <1>2, <1>3, <1>4, <1>5, <1>6, WithdrawalQueueAssumption DEF WQInv

(***************************************************************************)
(* A request appends a record whose shares are worth a wei at every rate.  *)
(***************************************************************************)
Requested(amount, a, shares, r) ==
  /\ amount \in MIN_STETH_WITHDRAWAL_AMOUNT..MAX_STETH_WITHDRAWAL_AMOUNT
  /\ Len(queue) < MAX_REQUESTS
  /\ r.cumulativeStETH = CumulativeStETH(queue, Len(queue)) + amount
  /\ r.cumulativeShares = CumulativeShares(queue, Len(queue)) + shares
  /\ r.owner = a /\ r.claimed = FALSE
  /\ \A pool \in Pools : shares * ShareRate(pool) >= E27_PRECISION_BASE
  /\ queue' = Append(queue, r)
  /\ requestsByOwner' = [requestsByOwner EXCEPT ![a] = @ \union {Len(queue) + 1}]
  /\ tokenApprovals' = Append(tokenApprovals, NoAccount)
  /\ queueShares' = queueShares + shares
  /\ UNCHANGED <<checkpoints, lastFinalizedRequestId, operatorApprovals, now, balance, paid,
                 lockedEtherAmount, reportVars, resumeSinceTimestamp>>

LEMMA RequestAppends ==
  ASSUME WQInv, NEW amount \in Int, NEW a \in Accounts, RequestWithdrawal(amount, a)
  PROVE  \E shares \in Nat, r \in WithdrawalRequest : Requested(amount, a, shares, r)
<1> DEFINE n == Len(queue)
           shares == SharesByPooledEth(amount)
           r == [cumulativeStETH  |-> CumulativeStETH(queue, n) + amount,
                 cumulativeShares |-> CumulativeShares(queue, n) + shares,
                 owner            |-> a,
                 timestamp        |-> now,
                 claimed          |-> FALSE,
                 reportTimestamp  |-> lastReportTimestamp]
<1>1. /\ amount \in MIN_STETH_WITHDRAWAL_AMOUNT..MAX_STETH_WITHDRAWAL_AMOUNT
      /\ n < MAX_REQUESTS
      /\ queue' = Append(queue, r)
      /\ requestsByOwner' = [requestsByOwner EXCEPT ![a] = @ \union {n + 1}]
      /\ tokenApprovals' = Append(tokenApprovals, NoAccount)
      /\ queueShares' = queueShares + shares
      /\ UNCHANGED <<checkpoints, lastFinalizedRequestId, operatorApprovals, now, balance, paid,
                     lockedEtherAmount, reportVars, resumeSinceTimestamp>>
  BY WithdrawalQueueAssumption DEF RequestWithdrawal, Enqueue, lastRequestId
<1>2. TypeOK /\ steth \in Pools /\ n \in Nat /\ queue \in Seq(WithdrawalRequest)
  BY DEF WQInv, IsQueue, TypeOK
<1>3. /\ shares \in Nat
      /\ \A pool \in Pools : shares * ShareRate(pool) >= E27_PRECISION_BASE
  BY <1>1, <1>2, SharesAreWorthAWei DEF SharesByPooledEth
<1>4. CumulativeStETH(queue, n) \in Nat /\ CumulativeShares(queue, n) \in Nat /\ amount \in Nat
  BY <1>1, <1>2, CumulativeType, WithdrawalQueueAssumption
<1>5. r \in WithdrawalRequest
  <2> HIDE DEF shares
  <2>1. now \in Nat /\ lastReportTimestamp \in Nat
    BY <1>2 DEF TypeOK
  <2>2. CumulativeStETH(queue, n) + amount \in Nat /\ CumulativeShares(queue, n) + shares \in Nat
    BY <1>3, <1>4
  <2>3. QED
    BY <2>1, <2>2 DEF WithdrawalRequest
<1> HIDE DEF shares
<1>6. /\ r.cumulativeStETH = CumulativeStETH(queue, n) + amount
      /\ r.cumulativeShares = CumulativeShares(queue, n) + shares
      /\ r.owner = a /\ r.claimed = FALSE
  OBVIOUS
<1> HIDE DEF r
<1>7. Requested(amount, a, shares, r)
  BY <1>1, <1>3, <1>6 DEF Requested
<1>8. QED
  BY <1>3, <1>5, <1>7

LEMMA RequestStep ==
  ASSUME WQInv, NEW amount \in Int, NEW a \in Accounts, RequestWithdrawal(amount, a)
  PROVE  WQInv'
<1> DEFINE n == Len(queue)
<1>1. PICK shares \in Nat, r \in WithdrawalRequest : Requested(amount, a, shares, r)
  BY RequestAppends
<1>2. /\ amount \in MIN_STETH_WITHDRAWAL_AMOUNT..MAX_STETH_WITHDRAWAL_AMOUNT
      /\ n < MAX_REQUESTS
      /\ queue' = Append(queue, r)
      /\ requestsByOwner' = [requestsByOwner EXCEPT ![a] = @ \union {n + 1}]
      /\ tokenApprovals' = Append(tokenApprovals, NoAccount)
      /\ queueShares' = queueShares + shares
      /\ UNCHANGED <<checkpoints, lastFinalizedRequestId, operatorApprovals, now, balance, paid,
                     lockedEtherAmount, reportVars, resumeSinceTimestamp>>
  BY <1>1 DEF Requested
<1>3. TypeOK /\ IsQueue(queue) /\ steth \in Pools /\ n \in Nat /\ queue \in Seq(WithdrawalRequest)
      /\ lastFinalizedRequestId \in 0..n
  BY DEF WQInv, IsQueue, TypeOK
<1>4. shares \in Nat /\ \A pool \in Pools : shares * ShareRate(pool) >= E27_PRECISION_BASE
  BY <1>1 DEF Requested
<1>5. CumulativeStETH(queue, n) \in Nat /\ CumulativeShares(queue, n) \in Nat /\ amount \in Nat
  BY <1>2, <1>3, CumulativeType, WithdrawalQueueAssumption
<1>6. r \in WithdrawalRequest
  OBVIOUS
<1>7. /\ r.cumulativeStETH = CumulativeStETH(queue, n) + amount
      /\ r.cumulativeShares = CumulativeShares(queue, n) + shares
      /\ r.owner = a /\ r.claimed = FALSE
  BY <1>1 DEF Requested
<1>8. /\ IsQueue(queue') /\ Len(queue') = n + 1
      /\ \A id \in 0..n : CumulativeShares(queue', id) = CumulativeShares(queue, id)
      /\ CumulativeShares(queue', n + 1) = CumulativeShares(queue, n) + shares
  BY <1>2, <1>3, <1>4, <1>6, <1>7, QueueAppends
<1>9. /\ \A id \in 1..n : queue'[id] = queue[id]
      /\ queue'[n + 1] = r /\ DOMAIN queue' = 1..(n + 1) /\ DOMAIN queue = 1..n
  BY <1>2, <1>3, <1>6, <1>8, AppendProperties
<1>10. TypeOK'
  <2>1. requestsByOwner' \in [Accounts -> SUBSET (1..Len(queue'))]
    BY <1>2, <1>3, <1>8 DEF TypeOK
  <2>2. tokenApprovals' \in [1..Len(queue') -> Accounts \union {NoAccount}]
    <3>1. tokenApprovals \in [1..n -> Accounts \union {NoAccount}]
      BY <1>3 DEF TypeOK
    <3>2. tokenApprovals \in Seq(Accounts \union {NoAccount}) /\ Len(tokenApprovals) = n
      BY <1>3, <3>1
    <3>3. /\ tokenApprovals' \in Seq(Accounts \union {NoAccount})
          /\ Len(tokenApprovals') = n + 1
      BY <1>2, <3>2, AppendProperties
    <3>4. QED
      BY <1>8, <3>3, LenProperties
  <2>3. queueShares' \in Nat
    BY <1>2, <1>3, <1>4 DEF TypeOK
  <2>4. queue' \in Seq(WithdrawalRequest) /\ lastFinalizedRequestId' \in 0..Len(queue')
    BY <1>2, <1>3, <1>8 DEF IsQueue
  <2>5. QED
    BY <1>2, <1>3, <2>1, <2>2, <2>3, <2>4 DEF TypeOK, reportVars
<1>11. SharesAreOfUnfinalized'
  <2> DEFINE last == lastFinalizedRequestId
             total == CumulativeShares(queue, n)
             done == CumulativeShares(queue, last)
  <2>1. queueShares = total - done
    BY DEF WQInv, SharesAreOfUnfinalized, lastRequestId
  <2>2. total \in Nat /\ done \in Nat
    BY <1>3, <1>5, CumulativeType
  <2>3. CumulativeShares(queue', last) = done /\ CumulativeShares(queue', n + 1) = total + shares
    BY <1>3, <1>8
  <2>4. queueShares' = CumulativeShares(queue', n + 1) - CumulativeShares(queue', last)
    <3> HIDE DEF total, done
    <3> QED BY <1>2, <1>4, <2>1, <2>2, <2>3
  <2>5. Len(queue') = n + 1 /\ lastFinalizedRequestId' = last
    BY <1>2, <1>8
  <2>6. QED
    BY <2>4, <2>5 DEF SharesAreOfUnfinalized, lastRequestId
<1>12. OwnersHoldTheirRequests'
  <2> SUFFICES ASSUME NEW b \in Accounts
               PROVE  requestsByOwner'[b] = {id \in 1..(n + 1) : queue'[id].owner = b /\ ~queue'[id].claimed}
    BY <1>9 DEF OwnersHoldTheirRequests
  <2>1. requestsByOwner[b] = {id \in 1..n : queue[id].owner = b /\ ~queue[id].claimed}
    BY <1>9 DEF WQInv, OwnersHoldTheirRequests
  <2>2. requestsByOwner'[b] = IF b = a THEN requestsByOwner[b] \union {n + 1} ELSE requestsByOwner[b]
    BY <1>2, <1>3 DEF TypeOK
  <2>3. 1..(n + 1) = (1..n) \union {n + 1} /\ n + 1 \notin 1..n
    BY <1>3
  <2>4. QED
    BY <1>7, <1>9, <2>1, <2>2, <2>3
<1>13. QED
  <2>1. steth' = steth /\ checkpoints' = checkpoints /\ lastFinalizedRequestId' = lastFinalizedRequestId
    BY <1>2 DEF reportVars
  <2>2. Len(queue') <= MAX_REQUESTS
    BY <1>2, <1>3, <1>8, WithdrawalQueueAssumption
  <2>3. QED
    BY <1>3, <1>8, <1>10, <1>11, <1>12, <2>1, <2>2 DEF WQInv

LEMMA TableAppends ==
  ASSUME NEW table, NEW last, IsTable(table, last), NEW rate \in Nat, NEW new \in Nat, new > last
  PROVE  IsTable(Append(table, [fromRequestId |-> last + 1, maxShareRate |-> rate]), new)
<1> DEFINE entry == [fromRequestId |-> last + 1, maxShareRate |-> rate]
           longer == Append(table, entry)
           n == Len(table)
<1>1. /\ n \in Nat /\ DOMAIN table = 1..n /\ last \in Nat /\ table \in Seq(Checkpoint)
      /\ \A h \in 1..n : table[h].fromRequestId \in Nat
      /\ n # 0 => table[1].fromRequestId = 1 /\ table[n].fromRequestId <= last
      /\ n = 0 <=> last = 0
      /\ \A h \in 2..n : table[h - 1].fromRequestId < table[h].fromRequestId
  BY TableType, EmptySeq DEF IsTable
<1>2. entry \in Checkpoint /\ entry.fromRequestId = last + 1
  BY <1>1 DEF Checkpoint
<1> HIDE DEF entry
<1>3. /\ longer \in Seq(Checkpoint) /\ Len(longer) = n + 1
      /\ \A h \in 1..n : longer[h] = table[h]
      /\ longer[n + 1] = entry
  BY <1>1, <1>2, AppendProperties
<1> HIDE DEF longer
<1>4. longer # <<>> /\ new # 0
  BY <1>1, <1>3, EmptySeq
<1>5. longer[1].fromRequestId = 1
  <2>1. CASE n = 0
    BY <1>1, <1>2, <1>3, <2>1
  <2>2. CASE n # 0
    BY <1>1, <1>3, <2>2
  <2>3. QED
    BY <2>1, <2>2
<1>6. longer[Len(longer)].fromRequestId <= new
  BY <1>1, <1>2, <1>3
<1>7. ASSUME NEW h \in 2..Len(longer)
      PROVE  longer[h - 1].fromRequestId < longer[h].fromRequestId
  <2>1. CASE h \in 2..n
    <3>1. h \in 1..n /\ h - 1 \in 1..n
      BY <1>1, <2>1
    <3>2. QED
      BY <1>1, <1>3, <2>1, <3>1
  <2>2. CASE h = n + 1
    <3>1. h - 1 = n /\ n \in 1..n
      BY <1>1, <1>3, <2>2
    <3>2. QED
      BY <1>1, <1>2, <1>3, <2>2, <3>1
  <2>3. QED
    BY <1>1, <1>3, <2>1, <2>2
<1>8. QED
  BY <1>3, <1>4, <1>5, <1>6, <1>7 DEF longer, entry, IsTable

(***************************************************************************)
(* A report finalizes nothing, or appends a checkpoint for the requests    *)
(* whose shares it takes.                                                  *)
(***************************************************************************)
NothingFinalized ==
  UNCHANGED <<checkpoints, lastFinalizedRequestId, queueShares, balance, lockedEtherAmount>>

FinalizedTo(lastId, eth, rate) ==
  /\ lastId \in (lastFinalizedRequestId + 1)..Len(queue)
  /\ eth \in Nat
  /\ checkpoints' = Append(checkpoints,
       [fromRequestId |-> lastFinalizedRequestId + 1, maxShareRate |-> rate])
  /\ lastFinalizedRequestId' = lastId
  /\ lockedEtherAmount' = lockedEtherAmount + eth
  /\ balance' = balance + eth
  /\ queueShares' = queueShares
       - (CumulativeShares(queue, lastId) - CumulativeShares(queue, lastFinalizedRequestId))

LEMMA ReportFinalizes ==
  ASSUME WQInv, NEW bunker, NEW time \in Int, NEW budget \in Int, NEW pool \in Pools,
         OracleReport(bunker, time, budget, pool)
  PROVE  NothingFinalized \/ \E lastId, eth : FinalizedTo(lastId, eth, ShareRate(pool))
<1> DEFINE rate == ShareRate(pool)
           last == lastFinalizedRequestId
           batches == FinalizationBatches(budget, rate, time)
           eth == PrefinalizedEther(queue, last, batches, rate)
           lastId == batches[Len(batches)]
<1>1. IsQueue(queue) /\ last \in 0..Len(queue) /\ Len(queue) \in Nat /\ queue \in Seq(WithdrawalRequest)
  BY DEF WQInv, IsQueue, TypeOK
<1>2. ProcessWithdrawals(batches, rate, time)
  BY DEF OracleReport
<1>3. batches \in Seq(Nat)
  <2>1. time - REQUEST_TIMESTAMP_MARGIN \in Int /\ MAX_REQUESTS \in Nat
    BY WithdrawalQueueAssumption
  <2>2. CASE budget = 0
    BY <2>2, EmptySeq DEF FinalizationBatches
  <2>3. CASE budget # 0
    BY <1>1, <2>1, <2>3, RateType, CalculatedBatchesType DEF FinalizationBatches
  <2>4. QED
    BY <2>2, <2>3
<1> HIDE DEF batches
<1>4. CASE batches = <<>> \/ Paused
  BY <1>2, <1>4 DEF ProcessWithdrawals, NothingFinalized
<1>5. CASE ~(batches = <<>> \/ Paused)
  <2>1. /\ BatchesAreValid(queue, last, batches)
        /\ queueShares' = queueShares - PrefinalizedShares(queue, last, batches)
        /\ eth > 0 => Finalize(lastId, eth, rate)
    BY <1>2, <1>5 DEF ProcessWithdrawals
  <2>2. eth \in Nat /\ eth > 0
    BY <1>1, <1>3, <2>1, EtherOfBatches
  <2>3. PrefinalizedShares(queue, last, batches)
          = CumulativeShares(queue, lastId) - CumulativeShares(queue, last)
    BY <1>1, <1>3, <2>1, SharesOfBatches
  <2>4. Len(batches) \in 1..Len(batches)
    BY <1>3, <1>5, EmptySeq
  <2>5. lastId \in Nat
    BY <1>3, <2>4
  <2> HIDE DEF eth, lastId, rate
  <2>6. FinalizedTo(lastId, eth, rate)
    BY <1>1, <2>1, <2>2, <2>3, <2>5 DEF Finalize, FinalizedTo, lastRequestId
  <2>7. QED
    BY <2>6 DEF rate
<1>6. QED
  BY <1>4, <1>5

LEMMA ReportStep ==
  ASSUME WQInv, NEW bunker, NEW time \in Int, NEW budget \in Int, NEW pool \in Pools,
         OracleReport(bunker, time, budget, pool)
  PROVE  WQInv'
<1>1. /\ TypeOK /\ IsQueue(queue) /\ queue \in Seq(WithdrawalRequest) /\ Len(queue) \in Nat
      /\ lastFinalizedRequestId \in 0..Len(queue)
      /\ IsTable(checkpoints, lastFinalizedRequestId)
  BY DEF WQInv, IsQueue, TypeOK
<1>2. /\ time > lastReportTimestamp /\ lastReportTimestamp' = time /\ steth' = pool
      /\ bunkerModeSinceTimestamp' \in {bunkerModeSinceTimestamp, lastReportTimestamp,
                                        BUNKER_MODE_DISABLED_TIMESTAMP}
      /\ UNCHANGED <<now, paid, queue, requestsByOwner, tokenApprovals, operatorApprovals,
                     resumeSinceTimestamp>>
  BY DEF OracleReport, OnOracleReport, tokenVars
<1>3. /\ lastFinalizedRequestId' \in 0..Len(queue)
      /\ IsTable(checkpoints', lastFinalizedRequestId')
      /\ queueShares' \in Nat /\ balance' \in Nat /\ lockedEtherAmount' \in Nat
      /\ SharesAreOfUnfinalized'
  <2>1. CASE NothingFinalized
    <3>1. UNCHANGED <<checkpoints, lastFinalizedRequestId, queueShares, balance, lockedEtherAmount, queue>>
      BY <1>2, <2>1 DEF NothingFinalized
    <3>2. QED
      BY <1>1, <3>1 DEF WQInv, TypeOK, SharesAreOfUnfinalized, lastRequestId
  <2>2. CASE \E lastId, eth : FinalizedTo(lastId, eth, ShareRate(pool))
    <3>1. PICK lastId, eth : FinalizedTo(lastId, eth, ShareRate(pool))
      BY <2>2
    <3> DEFINE last == lastFinalizedRequestId
               total == CumulativeShares(queue, Len(queue))
               done == CumulativeShares(queue, last)
               doneNow == CumulativeShares(queue, lastId)
    <3>2. /\ last \in Nat /\ lastId \in Nat /\ lastId > last /\ lastId \in 0..Len(queue)
          /\ lastFinalizedRequestId' = lastId /\ eth \in Nat
          /\ lockedEtherAmount' = lockedEtherAmount + eth /\ balance' = balance + eth
          /\ queueShares' = queueShares - (doneNow - done)
      BY <1>1, <3>1 DEF FinalizedTo
    <3>3. IsTable(checkpoints', lastId)
      BY <1>1, <3>1, <3>2, TableAppends, RateType DEF FinalizedTo
    <3>4. balance' \in Nat /\ lockedEtherAmount' \in Nat
      BY <1>1, <3>2 DEF TypeOK
    <3>5. queueShares = total - done
      BY DEF WQInv, SharesAreOfUnfinalized, lastRequestId
    <3>6. total \in Nat /\ done \in Nat /\ doneNow \in Nat /\ doneNow <= total
      BY <1>1, <3>2, CumulativeType, CumulativeValuesGrow, SMTT(30)
    <3>7. queueShares' = total - doneNow /\ queueShares' \in Nat
      <4> HIDE DEF total, done, doneNow
      <4> QED BY <3>2, <3>5, <3>6
    <3>8. SharesAreOfUnfinalized'
      BY <1>2, <3>2, <3>7 DEF SharesAreOfUnfinalized, lastRequestId
    <3>9. QED
      BY <3>2, <3>3, <3>4, <3>7, <3>8
  <2>3. QED
    BY <2>1, <2>2, ReportFinalizes
<1>4. TypeOK'
  <2>1. lastReportTimestamp' \in Nat /\ bunkerModeSinceTimestamp' \in Nat
    BY <1>1, <1>2, WithdrawalQueueAssumption DEF TypeOK
  <2>2. steth' \in Pool /\ checkpoints' \in Seq(Checkpoint)
    BY <1>2, <1>3, WithdrawalQueueAssumption DEF IsTable
  <2>3. QED
    BY <1>1, <1>2, <1>3, <2>1, <2>2 DEF TypeOK
<1>5. OwnersHoldTheirRequests'
  BY <1>2 DEF WQInv, OwnersHoldTheirRequests
<1>6. QED
  BY <1>1, <1>2, <1>3, <1>4, <1>5 DEF WQInv

LEMMA ClaimableType ==
  ASSUME WQInv, NEW id \in 1..lastFinalizedRequestId, NEW hint \in DOMAIN checkpoints
  PROVE  /\ ClaimableWithHint(id, hint) \in 0..CalcBatch(queue, id - 1, id).stETH
         /\ CalcBatch(queue, id - 1, id).stETH
              \in MIN_STETH_WITHDRAWAL_AMOUNT..MAX_STETH_WITHDRAWAL_AMOUNT
<1>1. /\ IsQueue(queue) /\ Len(queue) \in Nat /\ lastFinalizedRequestId \in 0..Len(queue)
      /\ IsTable(checkpoints, lastFinalizedRequestId)
  BY DEF WQInv, IsQueue, TypeOK
<1>2. id \in 1..Len(queue) /\ id - 1 \in 0..Len(queue) /\ id \in 0..Len(queue) /\ id - 1 < id
  BY <1>1
<1>3. checkpoints[hint].maxShareRate \in Nat
  BY <1>1, TableType
<1>4. EtherOf(CalcBatch(queue, id - 1, id), checkpoints[hint].maxShareRate)
        \in 0..(CumulativeStETH(queue, id) - CumulativeStETH(queue, id - 1))
  <2> DEFINE rate == checkpoints[hint].maxShareRate
             i == id - 1
  <2> HIDE DEF rate, i
  <2>1. EtherOf(CalcBatch(queue, i, id), rate) \in 0..(CumulativeStETH(queue, id) - CumulativeStETH(queue, i))
    BY <1>1, <1>2, <1>3, WorthOfBatch DEF rate, i
  <2>2. QED
    BY <2>1 DEF rate, i
<1>5. CalcBatch(queue, id - 1, id).stETH = CumulativeStETH(queue, id) - CumulativeStETH(queue, id - 1)
  BY DEF CalcBatch
<1>6. Grows(queue, id)
  BY <1>1, <1>2 DEF IsQueue
<1>7. QED
  BY <1>4, <1>5, <1>6 DEF ClaimableWithHint, Grows

(***************************************************************************)
(* Replacing one request of a queue by one with the same cumulative fields *)
(* changes neither the values of batches nor the shares still locked.      *)
(***************************************************************************)
LEMMA RequestReplaced ==
  ASSUME WQInv, NEW id \in 1..Len(queue), NEW r \in WithdrawalRequest,
         r.cumulativeStETH = queue[id].cumulativeStETH,
         r.cumulativeShares = queue[id].cumulativeShares,
         queue' = [queue EXCEPT ![id] = r],
         UNCHANGED <<queueShares, lastFinalizedRequestId>>
  PROVE  /\ queue' \in Seq(WithdrawalRequest) /\ Len(queue') = Len(queue)
         /\ \A k \in 1..Len(queue) : queue'[k] = IF k = id THEN r ELSE queue[k]
         /\ IsQueue(queue')
         /\ SharesAreOfUnfinalized'
<1> DEFINE n == Len(queue)
<1>1. /\ IsQueue(queue) /\ queue \in Seq(WithdrawalRequest) /\ n \in Nat
      /\ lastFinalizedRequestId \in 0..n
  BY DEF WQInv, IsQueue, TypeOK
<1>2. DOMAIN queue = 1..n /\ n \in 0..n
  BY <1>1
<1>3. queue' \in Seq(WithdrawalRequest) /\ Len(queue') = n
  BY <1>1, <1>2, ExceptSeq
<1>4. \A k \in 1..n : queue'[k] = IF k = id THEN r ELSE queue[k]
  BY <1>2
<1>5. /\ IsQueue(queue')
      /\ \A k \in 0..n : CumulativeShares(queue', k) = CumulativeShares(queue, k)
  <2>1. \A k \in 1..n : /\ queue'[k].cumulativeStETH = queue[k].cumulativeStETH
                        /\ queue'[k].cumulativeShares = queue[k].cumulativeShares
    BY <1>4
  <2>2. QED
    BY <1>1, <1>3, <2>1, QueueKeepsAmounts
<1>6. SharesAreOfUnfinalized'
  <2>1. queueShares' = CumulativeShares(queue, n) - CumulativeShares(queue, lastFinalizedRequestId)
    BY DEF WQInv, SharesAreOfUnfinalized, lastRequestId
  <2>2. queueShares' = CumulativeShares(queue', n) - CumulativeShares(queue', lastFinalizedRequestId)
    BY <1>1, <1>2, <1>5, <2>1
  <2>3. QED
    BY <1>3, <2>2 DEF SharesAreOfUnfinalized, lastRequestId
<1>7. QED
  BY <1>3, <1>4, <1>5, <1>6

LEMMA ClaimStep ==
  ASSUME WQInv, NEW id, NEW hint, NEW a \in Accounts, Claim(id, hint, a)
  PROVE  WQInv'
<1> DEFINE eth == ClaimableWithHint(id, hint)
           n == Len(queue)
<1>1. /\ id \in 1..lastFinalizedRequestId /\ hint \in DOMAIN checkpoints
      /\ queue[id].owner = a /\ ~queue[id].claimed
      /\ queue' = [queue EXCEPT ![id].claimed = TRUE]
      /\ requestsByOwner' = [requestsByOwner EXCEPT ![a] = @ \ {id}]
      /\ lockedEtherAmount >= eth /\ lockedEtherAmount' = lockedEtherAmount - eth
      /\ balance >= eth /\ balance' = balance - eth
      /\ paid' = paid + eth
      /\ UNCHANGED <<now, queueShares, checkpoints, lastFinalizedRequestId, tokenApprovals,
                     operatorApprovals, steth, lastReportTimestamp, bunkerModeSinceTimestamp,
                     resumeSinceTimestamp>>
  BY DEF Claim, HintIsValid, reportVars
<1>2. /\ TypeOK /\ IsQueue(queue) /\ queue \in Seq(WithdrawalRequest) /\ n \in Nat
      /\ lastFinalizedRequestId \in 0..n /\ steth \in Pools
  BY DEF WQInv, IsQueue, TypeOK
<1>3. id \in 1..n /\ id \in DOMAIN queue /\ DOMAIN queue = 1..n
  BY <1>1, <1>2
<1>4. eth \in Nat
  <2>1. eth \in 0..CalcBatch(queue, id - 1, id).stETH
    BY <1>1, ClaimableType
  <2> HIDE DEF eth
  <2>2. QED
    BY <2>1
<1> HIDE DEF eth
<1>5. /\ queue' \in Seq(WithdrawalRequest) /\ Len(queue') = n
      /\ IsQueue(queue') /\ SharesAreOfUnfinalized'
      /\ \A k \in 1..n : /\ queue'[k].owner = queue[k].owner
                        /\ queue'[k].claimed <=> k = id \/ queue[k].claimed
  <2> DEFINE r == [queue[id] EXCEPT !.claimed = TRUE]
  <2>1. queue[id] \in WithdrawalRequest
    BY <1>2, <1>3
  <2>2. /\ r \in WithdrawalRequest /\ r.cumulativeStETH = queue[id].cumulativeStETH
        /\ r.cumulativeShares = queue[id].cumulativeShares /\ r.claimed = TRUE
        /\ r.owner = queue[id].owner
    BY <2>1 DEF WithdrawalRequest
  <2>3. queue' = [queue EXCEPT ![id] = r]
    BY <1>1
  <2> HIDE DEF r
  <2>4. QED
    BY <1>1, <1>3, <2>2, <2>3, RequestReplaced
<1>6. TypeOK'
  <2>1. requestsByOwner' \in [Accounts -> SUBSET (1..n)]
    BY <1>1, <1>2 DEF TypeOK
  <2>2. lockedEtherAmount' \in Nat /\ balance' \in Nat /\ paid' \in Nat
    <3>1. lockedEtherAmount \in Nat /\ balance \in Nat /\ paid \in Nat
      BY <1>2 DEF TypeOK
    <3>2. /\ lockedEtherAmount >= eth /\ lockedEtherAmount' = lockedEtherAmount - eth
          /\ balance >= eth /\ balance' = balance - eth /\ paid' = paid + eth
      BY <1>1
    <3>3. QED
      BY <1>4, <3>1, <3>2
  <2>3. QED
    BY <1>1, <1>2, <1>5, <2>1, <2>2 DEF TypeOK
<1>7. OwnersHoldTheirRequests'
  <2>1. /\ \A b \in Accounts : requestsByOwner[b] = {k \in 1..n : queue[k].owner = b /\ ~queue[k].claimed}
        /\ DOMAIN queue' = 1..n
    BY <1>2, <1>3, <1>5 DEF WQInv, OwnersHoldTheirRequests
  <2>2. ASSUME NEW b \in Accounts
        PROVE  requestsByOwner'[b] = {k \in 1..n : queue'[k].owner = b /\ ~queue'[k].claimed}
    <3>1. requestsByOwner'[b] = IF b = a THEN requestsByOwner[b] \ {id} ELSE requestsByOwner[b]
      BY <1>1, <1>2 DEF TypeOK
    <3>2. QED
      BY <1>1, <1>5, <2>1, <3>1
  <2>3. QED
    BY <2>1, <2>2 DEF OwnersHoldTheirRequests
<1>8. QED
  BY <1>1, <1>2, <1>5, <1>6, <1>7 DEF WQInv

LEMMA TransferStep ==
  ASSUME WQInv, NEW id, NEW a, NEW from \in Accounts, NEW to \in Accounts, Transfer(a, from, to, id)
  PROVE  WQInv'
<1> DEFINE n == Len(queue)
<1>1. /\ id \in DOMAIN queue /\ to # from
      /\ queue[id].owner = from /\ ~queue[id].claimed
      /\ queue' = [queue EXCEPT ![id].owner = to]
      /\ requestsByOwner' = [requestsByOwner EXCEPT ![from] = @ \ {id}, ![to] = @ \union {id}]
      /\ tokenApprovals' = [tokenApprovals EXCEPT ![id] = NoAccount]
      /\ UNCHANGED <<now, queueShares, balance, paid, lockedEtherAmount, checkpoints,
                     lastFinalizedRequestId, operatorApprovals, steth, lastReportTimestamp,
                     bunkerModeSinceTimestamp, resumeSinceTimestamp>>
  BY DEF Transfer, etherVars, reportVars
<1>2. /\ TypeOK /\ IsQueue(queue) /\ queue \in Seq(WithdrawalRequest) /\ n \in Nat
      /\ lastFinalizedRequestId \in 0..n /\ steth \in Pools
  BY DEF WQInv, IsQueue, TypeOK
<1>3. id \in 1..n /\ DOMAIN queue = 1..n
  BY <1>1, <1>2
<1>4. /\ queue' \in Seq(WithdrawalRequest) /\ Len(queue') = n
      /\ IsQueue(queue') /\ SharesAreOfUnfinalized'
      /\ \A k \in 1..n : /\ queue'[k].owner = IF k = id THEN to ELSE queue[k].owner
                        /\ queue'[k].claimed = queue[k].claimed
  <2> DEFINE r == [queue[id] EXCEPT !.owner = to]
  <2>1. queue[id] \in WithdrawalRequest
    BY <1>2, <1>3
  <2>2. /\ r \in WithdrawalRequest /\ r.cumulativeStETH = queue[id].cumulativeStETH
        /\ r.cumulativeShares = queue[id].cumulativeShares /\ r.claimed = queue[id].claimed
        /\ r.owner = to
    BY <2>1 DEF WithdrawalRequest
  <2>3. queue' = [queue EXCEPT ![id] = r]
    BY <1>1
  <2> HIDE DEF r
  <2>4. QED
    BY <1>1, <1>3, <2>2, <2>3, RequestReplaced
<1>5. TypeOK'
  <2>1. requestsByOwner' \in [Accounts -> SUBSET (1..n)]
    BY <1>1, <1>2, <1>3 DEF TypeOK
  <2>2. tokenApprovals' \in [1..n -> Accounts \union {NoAccount}]
    BY <1>1, <1>2 DEF TypeOK
  <2>3. QED
    BY <1>1, <1>2, <1>4, <2>1, <2>2 DEF TypeOK
<1>6. OwnersHoldTheirRequests'
  <2>1. /\ \A b \in Accounts : requestsByOwner[b] = {k \in 1..n : queue[k].owner = b /\ ~queue[k].claimed}
        /\ DOMAIN queue' = 1..n
    BY <1>2, <1>3, <1>4 DEF WQInv, OwnersHoldTheirRequests
  <2>2. ASSUME NEW b \in Accounts
        PROVE  requestsByOwner'[b] = {k \in 1..n : queue'[k].owner = b /\ ~queue'[k].claimed}
    <3>1. requestsByOwner'[b] = IF b = to THEN requestsByOwner[b] \union {id}
                                ELSE IF b = from THEN requestsByOwner[b] \ {id}
                                ELSE requestsByOwner[b]
      BY <1>1, <1>2 DEF TypeOK
    <3>2. QED
      BY <1>1, <1>3, <1>4, <2>1, <3>1
  <2>3. QED
    BY <2>1, <2>2 DEF OwnersHoldTheirRequests
<1>7. QED
  BY <1>1, <1>2, <1>4, <1>5, <1>6 DEF WQInv

(***************************************************************************)
(* The other actions leave the requests, the checkpoints and the ether     *)
(* alone.                                                                  *)
(***************************************************************************)
LEMMA QuietStep ==
  ASSUME WQInv,
         UNCHANGED <<steth, queueShares, balance, paid, queue, checkpoints, lastFinalizedRequestId,
                     lockedEtherAmount, requestsByOwner, lastReportTimestamp, bunkerModeSinceTimestamp>>,
         tokenApprovals' \in [1..Len(queue) -> Accounts \union {NoAccount}],
         operatorApprovals' \in [Accounts -> SUBSET Accounts],
         now' \in Nat, resumeSinceTimestamp' \in Nat
  PROVE  WQInv'
<1>1. TypeOK'
  BY DEF WQInv, TypeOK
<1>2. SharesAreOfUnfinalized' /\ OwnersHoldTheirRequests'
  BY DEF WQInv, SharesAreOfUnfinalized, OwnersHoldTheirRequests, lastRequestId
<1>3. QED
  BY <1>1, <1>2 DEF WQInv

LEMMA ApproveStep ==
  ASSUME WQInv, NEW a, NEW to \in Accounts \union {NoAccount}, NEW id, Approve(a, to, id)
  PROVE  WQInv'
<1>1. TypeOK
  BY DEF WQInv
<1>2. /\ tokenApprovals' = [tokenApprovals EXCEPT ![id] = to]
      /\ UNCHANGED <<now, etherVars, queueVars, requestsByOwner, operatorApprovals, reportVars,
                     resumeSinceTimestamp>>
  BY DEF Approve
<1>3. tokenApprovals' \in [1..Len(queue) -> Accounts \union {NoAccount}]
  BY <1>1, <1>2 DEF TypeOK
<1>4. QED
  BY <1>1, <1>2, <1>3, QuietStep DEF TypeOK, etherVars, queueVars, reportVars

LEMMA ApprovalForAllStep ==
  ASSUME WQInv, NEW a \in Accounts, NEW b \in Accounts, NEW approved, SetApprovalForAll(a, b, approved)
  PROVE  WQInv'
<1>1. TypeOK
  BY DEF WQInv
<1>2. /\ operatorApprovals' = [operatorApprovals EXCEPT ![a] =
                                 IF approved THEN @ \union {b} ELSE @ \ {b}]
      /\ UNCHANGED <<now, etherVars, queueVars, requestsByOwner, tokenApprovals, reportVars,
                     resumeSinceTimestamp>>
  BY DEF SetApprovalForAll
<1>3. operatorApprovals' \in [Accounts -> SUBSET Accounts]
  BY <1>1, <1>2 DEF TypeOK
<1>4. QED
  BY <1>1, <1>2, <1>3, QuietStep DEF TypeOK, etherVars, queueVars, reportVars

LEMMA ClockAndPauseStep ==
  ASSUME WQInv, UNCHANGED <<etherVars, queueVars, tokenVars, reportVars>>,
         now' \in Nat, resumeSinceTimestamp' \in Nat
  PROVE  WQInv'
BY QuietStep DEF WQInv, TypeOK, etherVars, queueVars, tokenVars, reportVars

LEMMA NextKeepsInv == WQInv /\ [Next]_vars => WQInv'
<1> SUFFICES ASSUME WQInv, [Next]_vars PROVE WQInv'
  OBVIOUS
<1>1. TypeOK /\ now \in Nat /\ resumeSinceTimestamp \in Nat /\ steth \in Pools
  BY DEF WQInv, TypeOK
<1>2. CASE AdvanceClock
  BY <1>1, <1>2, ClockAndPauseStep DEF AdvanceClock
<1>3. ASSUME NEW a \in Accounts, NEW amount \in Amounts,
             RequestWithdrawal(amount, a) \/ RequestWithdrawalWstETH(amount, a)
      PROVE  WQInv'
  <2>1. amount \in Nat
    BY WithdrawalQueueAssumption
  <2>2. PooledEthByShares(amount) \in Int
    <3>1. steth.ether \in Nat /\ steth.shares \in Nat \ {0}
      BY <1>1, RateType
    <3>2. amount * steth.ether \in Nat
      BY <2>1, <3>1
    <3>3. QED
      BY <3>1, <3>2, Division DEF PooledEthByShares
  <2>3. QED
    BY <1>3, <2>1, <2>2, RequestStep DEF RequestWithdrawalWstETH
<1>4. ASSUME NEW bunker \in BunkerModes, NEW d \in ReportDelays, NEW budget \in Budgets,
             NEW pool \in Pools, OracleReport(bunker, now - d, budget, pool)
      PROVE  WQInv'
  <2>1. now - d \in Int /\ budget \in Int
    BY <1>1, WithdrawalQueueAssumption
  <2>2. QED
    BY <1>4, <2>1, ReportStep
<1>5. ASSUME NEW id \in DOMAIN queue, NEW a \in Accounts, NEW hint, Claim(id, hint, a)
      PROVE  WQInv'
  BY <1>5, ClaimStep
<1>6. ASSUME NEW id \in DOMAIN queue, NEW a \in Accounts, ClaimWithdrawal(id, a)
      PROVE  WQInv'
  BY <1>6, ClaimStep DEF ClaimWithdrawal
<1>7. ASSUME NEW id \in DOMAIN queue, NEW a \in Accounts, NEW from \in Accounts, NEW to \in Accounts,
             Transfer(a, from, to, id)
      PROVE  WQInv'
  BY <1>7, TransferStep
<1>8. ASSUME NEW id \in DOMAIN queue, NEW a \in Accounts, NEW to \in Accounts \union {NoAccount},
             Approve(a, to, id)
      PROVE  WQInv'
  BY <1>8, ApproveStep
<1>9. ASSUME NEW a \in Accounts, NEW b \in Accounts, NEW approved, SetApprovalForAll(a, b, approved)
      PROVE  WQInv'
  BY <1>9, ApprovalForAllStep
<1>10. CASE Resume
  BY <1>1, <1>10, ClockAndPauseStep DEF Resume, Resumed
<1>11. ASSUME NEW d \in PauseDurations, PauseFor(d) \/ PauseUntil(now + d - 1)
       PROVE  WQInv'
  <2>1. /\ now' = now /\ UNCHANGED <<etherVars, queueVars, tokenVars, reportVars>>
        /\ resumeSinceTimestamp' \in {PAUSE_INFINITELY, now + d, now + d - 1 + 1}
    BY <1>11 DEF PauseFor, PauseUntil, PausedFor, PausedUntil
  <2>2. resumeSinceTimestamp' \in Nat
    BY <1>1, <2>1, PauseAssumption, WithdrawalQueueAssumption
  <2>3. QED
    BY <1>1, <2>1, <2>2, ClockAndPauseStep
<1>12. CASE UNCHANGED vars
  BY <1>1, <1>12, ClockAndPauseStep DEF vars
<1>13. QED
  BY <1>2, <1>3, <1>4, <1>5, <1>6, <1>7, <1>8, <1>9, <1>10, <1>11, <1>12 DEF Next

LEMMA InvHolds == Spec => []WQInv
BY InitInv, NextKeepsInv, PTL DEF Spec

(***************************************************************************)
(* Every variable of the queue keeps its type: no call brings the ether,   *)
(* the shares or the claims below zero, and no report finalizes a request  *)
(* that was not made.                                                      *)
(***************************************************************************)
THEOREM WithdrawalQueueTypes == Spec => []TypeOK
<1>1. WQInv => TypeOK
  BY DEF WQInv
<1>2. QED
  BY <1>1, InvHolds, PTL

(***************************************************************************)
(* The shares burnt for a report, batch by batch, are the ones of the      *)
(* requests it finalizes (prefinalize and Lido's burn against _enqueue):   *)
(* what is left on the contract belongs to the unfinalized requests.       *)
(***************************************************************************)
THEOREM SharesOfUnfinalized == Spec => []SharesAreOfUnfinalized
<1>1. WQInv => SharesAreOfUnfinalized
  BY DEF WQInv
<1>2. QED
  BY <1>1, InvHolds, PTL

(***************************************************************************)
(* Requests, claims and transfers keep the set of every owner equal to the *)
(* unclaimed requests that name the owner (_getRequestsByOwner against the *)
(* owner and claimed fields of the queue).                                 *)
(***************************************************************************)
THEOREM OwnersHoldRequests == Spec => []OwnersHoldTheirRequests
<1>1. WQInv => OwnersHoldTheirRequests
  BY DEF WQInv
<1>2. QED
  BY <1>1, InvHolds, PTL

------------------------------------------------------------------------------

(***************************************************************************)
(* Hints: the checkpoints of this state, and of states in which further    *)
(* reports have finalized one request each.                                *)
(***************************************************************************)
LaterCheckpoints(table, last, more) ==
  table \o [k \in 1..more |-> [fromRequestId |-> last + k, maxShareRate |-> E27_PRECISION_BASE]]

LEMMA LaterTable ==
  ASSUME NEW table, NEW last, IsTable(table, last), NEW more \in Nat
  PROVE  IsTable(LaterCheckpoints(table, last, more), last + more)
<1> DEFINE later == [k \in 1..more |-> [fromRequestId |-> last + k, maxShareRate |-> E27_PRECISION_BASE]]
           longer == table \o later
           n == Len(table)
<1>1. /\ n \in Nat /\ DOMAIN table = 1..n /\ last \in Nat /\ table \in Seq(Checkpoint)
      /\ \A h \in 1..n : table[h].fromRequestId \in Nat
      /\ n # 0 => table[1].fromRequestId = 1 /\ table[n].fromRequestId <= last
      /\ n = 0 <=> last = 0
      /\ \A h \in 2..n : table[h - 1].fromRequestId < table[h].fromRequestId
  BY TableType, EmptySeq DEF IsTable
<1>2. /\ later \in Seq(Checkpoint) /\ Len(later) = more
      /\ \A k \in 1..more : later[k].fromRequestId = last + k
  <2>1. E27_PRECISION_BASE \in Nat
    BY WithdrawalMathAssumption
  <2>2. later \in [1..more -> Checkpoint]
    BY <1>1, <2>1 DEF Checkpoint
  <2>3. \A k \in 1..more : later[k].fromRequestId = last + k
    OBVIOUS
  <2> HIDE DEF later
  <2>4. later \in Seq(Checkpoint)
    BY <2>2
  <2>5. Len(later) \in Nat /\ DOMAIN later = 1..Len(later) /\ DOMAIN later = 1..more
    BY <2>2, <2>4, LenProperties
  <2>6. Len(later) = more
    <3> DEFINE m == Len(later)
    <3> HIDE DEF m
    <3>1. m \in Nat /\ 1..m = 1..more
      BY <2>5 DEF m
    <3>2. (m # 0 => m \in 1..m) /\ (more # 0 => more \in 1..more)
      BY <3>1
    <3>3. m <= more /\ more <= m
      BY <3>1, <3>2
    <3>4. m = more
      BY <3>1, <3>3
    <3>5. QED
      BY <3>4 DEF m
  <2>7. QED
    BY <2>3, <2>4, <2>6
<1> HIDE DEF later
<1>3. /\ longer \in Seq(Checkpoint) /\ Len(longer) = n + more
      /\ \A h \in 1..(n + more) : longer[h] = IF h <= n THEN table[h] ELSE later[h - n]
  BY <1>1, <1>2, ConcatProperties
<1> HIDE DEF longer
<1>4. \A h \in 1..n : longer[h].fromRequestId = table[h].fromRequestId
  BY <1>1, <1>3
<1>5. \A k \in 1..more : longer[n + k].fromRequestId = last + k
  <2> SUFFICES ASSUME NEW k \in 1..more PROVE longer[n + k].fromRequestId = last + k
    OBVIOUS
  <2>1. n + k \in 1..(n + more) /\ ~(n + k <= n) /\ (n + k) - n = k
    BY <1>1
  <2>2. QED
    BY <1>2, <1>3, <2>1
<1>6. longer = <<>> <=> last + more = 0
  <2>1. longer = <<>> <=> n + more = 0
    BY <1>3, EmptySeq
  <2>2. QED
    BY <1>1, <2>1
<1>7. ASSUME longer # <<>>
      PROVE  longer[1].fromRequestId = 1 /\ longer[Len(longer)].fromRequestId <= last + more
  <2>1. longer[1].fromRequestId = 1
    <3>1. CASE n = 0
      <4>1. 1 \in 1..more /\ n + 1 = 1 /\ last + 1 = 1
        BY <1>1, <1>6, <1>7, <3>1
      <4>2. QED
        BY <1>5, <4>1
    <3>2. CASE n # 0
      <4>1. 1 \in 1..n
        BY <1>1, <3>2
      <4>2. QED
        BY <1>1, <1>4, <3>2, <4>1
    <3>3. QED
      BY <3>1, <3>2
  <2>2. longer[Len(longer)].fromRequestId <= last + more
    <3>1. CASE more = 0
      <4>1. n \in 1..n /\ Len(longer) = n /\ n # 0
        BY <1>1, <1>3, <1>6, <1>7, <3>1
      <4>2. QED
        BY <1>1, <1>4, <3>1, <4>1
    <3>2. CASE more # 0
      <4>1. more \in 1..more
        BY <3>2
      <4>2. QED
        BY <1>1, <1>3, <1>5, <4>1
    <3>3. QED
      BY <3>1, <3>2
  <2>3. QED
    BY <2>1, <2>2
<1>8. ASSUME NEW h \in 2..(n + more)
      PROVE  longer[h - 1].fromRequestId < longer[h].fromRequestId
  <2>1. CASE h \in 2..n
    <3>1. h \in 1..n /\ h - 1 \in 1..n
      BY <1>1, <2>1
    <3>2. QED
      BY <1>1, <1>4, <2>1, <3>1
  <2>2. CASE h = n + 1
    <3>1. n \in 1..n /\ 1 \in 1..more /\ h - 1 = n /\ n # 0
      BY <1>1, <1>8, <2>2
    <3>2. QED
      BY <1>1, <1>4, <1>5, <2>2, <3>1
  <2>3. CASE h > n + 1
    <3> DEFINE k == h - n
    <3>1. k \in 1..more /\ k - 1 \in 1..more /\ h = n + k /\ h - 1 = n + (k - 1)
      BY <1>1, <1>8, <2>3
    <3> HIDE DEF k
    <3>2. longer[h].fromRequestId = last + k /\ longer[h - 1].fromRequestId = last + (k - 1)
      BY <1>5, <3>1
    <3>3. QED
      BY <1>1, <3>1, <3>2
  <2>4. QED
    BY <1>1, <1>8, <2>1, <2>2, <2>3
<1>9. IsTable(longer, last + more)
  BY <1>1, <1>3, <1>6, <1>7, <1>8 DEF IsTable
<1>10. QED
  BY <1>9 DEF longer, later, LaterCheckpoints

HintsAreRight(table, last) ==
  \A id \in 1..last :
    \E hint \in DOMAIN table :
      /\ \A h \in DOMAIN table : HintIsValid(table, id, h) <=> h = hint
      /\ \A start, end \in DOMAIN table :
           FindCheckpointHint(table, last, id, start, end) =
             IF hint \in start..end THEN hint ELSE NOT_FOUND

LEMMA TableHasUniqueHints ==
  ASSUME NEW table, NEW last, IsTable(table, last)
  PROVE  HintsAreRight(table, last)
<1> SUFFICES ASSUME NEW id \in 1..last
             PROVE  \E hint \in DOMAIN table :
                      /\ \A h \in DOMAIN table : HintIsValid(table, id, h) <=> h = hint
                      /\ \A start, end \in DOMAIN table :
                           FindCheckpointHint(table, last, id, start, end) =
                             IF hint \in start..end THEN hint ELSE NOT_FOUND
  BY DEF HintsAreRight
<1>1. PICK hint : IsHint(table, id, hint)
  BY HintExists
<1>2. hint \in DOMAIN table
  BY <1>1 DEF IsHint
<1>3. \A h \in DOMAIN table : HintIsValid(table, id, h) <=> h = hint
  BY <1>1, OnlyTheHintIsValid
<1>4. \A start, end \in DOMAIN table :
        FindCheckpointHint(table, last, id, start, end) =
          IF hint \in start..end THEN hint ELSE NOT_FOUND
  BY <1>1, FindsTheHintInItsRange
<1>5. QED
  BY <1>2, <1>3, <1>4

(***************************************************************************)
(* However many reports have finalized requests, each finalized request    *)
(* has one valid hint, and the binary search finds it in every range of    *)
(* checkpoints that contains it and in no other (_findCheckpointHint,      *)
(* l. 418-452): a claim through the search never reverts for a wrong hint. *)
(***************************************************************************)
THEOREM HintsAreUniqueAndFound == Spec => []HintIsUniqueAndFound
<1>1. WQInv => HintIsUniqueAndFound
  <2> SUFFICES ASSUME WQInv, NEW more \in 0..2
               PROVE  HintsAreRight(LaterCheckpoints(checkpoints, lastFinalizedRequestId, more),
                                    lastFinalizedRequestId + more)
    BY DEF HintIsUniqueAndFound, LaterCheckpoints, HintsAreRight
  <2>1. IsTable(checkpoints, lastFinalizedRequestId) /\ more \in Nat
    BY DEF WQInv
  <2>2. QED
    BY <2>1, LaterTable, TableHasUniqueHints
<1>2. QED
  BY <1>1, InvHolds, PTL

------------------------------------------------------------------------------

(***************************************************************************)
(* The queue implements Withdrawals.  The abstract requests are a function *)
(* of the queue, the checkpoints and the last finalized request.           *)
(***************************************************************************)
ValueOf(q, table, id) ==
  EtherOf(CalcBatch(q, id - 1, id),
          table[CHOOSE h \in DOMAIN table : HintIsValid(table, id, h)].maxShareRate)

StatusOf(q, table, last, id) ==
  LET amount == CalcBatch(q, id - 1, id).stETH
  IN  IF id > last THEN [amount |-> amount, state |-> "pending", value |-> 0]
      ELSE [amount |-> amount,
            state  |-> IF q[id].claimed THEN "claimed" ELSE "finalized",
            value  |-> ValueOf(q, table, id)]

RequestsOf(q, table, last) == [id \in 1..Len(q) |-> StatusOf(q, table, last, id)]

(***************************************************************************)
(* The value of a finalized request is its worth at the rate of its hint,  *)
(* and stays when a report appends a checkpoint.                           *)
(***************************************************************************)
LEMMA ValueAtHint ==
  ASSUME NEW q, NEW table, NEW last, IsTable(table, last), NEW id \in 1..last,
         NEW hint, IsHint(table, id, hint)
  PROVE  ValueOf(q, table, id) = EtherOf(CalcBatch(q, id - 1, id), table[hint].maxShareRate)
<1>1. hint \in DOMAIN table
  BY DEF IsHint
<1>2. \A h \in DOMAIN table : HintIsValid(table, id, h) <=> h = hint
  BY OnlyTheHintIsValid
<1>3. (CHOOSE h \in DOMAIN table : HintIsValid(table, id, h)) = hint
  BY <1>1, <1>2
<1>4. QED
  BY <1>3 DEF ValueOf

LEMMA HintStays ==
  ASSUME NEW table, NEW last, IsTable(table, last), NEW rate \in Nat, NEW new \in Nat, new > last,
         NEW id \in 1..last
  PROVE  LET longer == Append(table, [fromRequestId |-> last + 1, maxShareRate |-> rate])
         IN  \E hint : /\ IsHint(table, id, hint) /\ IsHint(longer, id, hint)
                       /\ longer[hint] = table[hint]
<1> DEFINE entry == [fromRequestId |-> last + 1, maxShareRate |-> rate]
           longer == Append(table, entry)
           n == Len(table)
<1>1. PICK hint : IsHint(table, id, hint)
  BY HintExists
<1>2. n \in Nat /\ DOMAIN table = 1..n /\ table \in Seq(Checkpoint) /\ last \in Nat /\ hint \in 1..n
  BY <1>1, TableType DEF IsTable, IsHint
<1>3. entry \in Checkpoint /\ entry.fromRequestId = last + 1
  BY <1>2 DEF Checkpoint
<1> HIDE DEF entry
<1>4. /\ longer \in Seq(Checkpoint) /\ Len(longer) = n + 1
      /\ \A h \in 1..n : longer[h] = table[h]
      /\ longer[n + 1] = entry
  BY <1>2, <1>3, AppendProperties
<1> HIDE DEF longer
<1>5. DOMAIN longer = 1..(n + 1)
  BY <1>2, <1>4, LenProperties
<1>6. ASSUME NEW h \in 1..(n + 1) PROVE longer[h].fromRequestId <= id <=> h <= hint
  <2>1. CASE h \in 1..n
    BY <1>1, <1>2, <1>4, <2>1 DEF IsHint
  <2>2. CASE h = n + 1
    BY <1>2, <1>3, <1>4, <2>2
  <2>3. QED
    BY <1>2, <2>1, <2>2
<1>7. IsHint(longer, id, hint)
  BY <1>2, <1>5, <1>6 DEF IsHint
<1>8. longer[hint] = table[hint]
  BY <1>2, <1>4
<1>9. QED
  BY <1>1, <1>7, <1>8 DEF longer, entry

LEMMA ValueStays ==
  ASSUME NEW q, NEW table, NEW last, IsTable(table, last), NEW rate \in Nat, NEW new \in Nat, new > last,
         NEW id \in 1..last
  PROVE  ValueOf(q, Append(table, [fromRequestId |-> last + 1, maxShareRate |-> rate]), id)
           = ValueOf(q, table, id)
<1> DEFINE longer == Append(table, [fromRequestId |-> last + 1, maxShareRate |-> rate])
<1>1. PICK hint : IsHint(table, id, hint) /\ IsHint(longer, id, hint) /\ longer[hint] = table[hint]
  BY HintStays
<1>2. IsTable(longer, new) /\ id \in 1..new
  <2>1. last \in Nat
    BY DEF IsTable
  <2>2. QED
    BY <2>1, TableAppends
<1> HIDE DEF longer
<1>3. ValueOf(q, longer, id) = EtherOf(CalcBatch(q, id - 1, id), longer[hint].maxShareRate)
  BY <1>1, <1>2, ValueAtHint
<1>4. ValueOf(q, table, id) = EtherOf(CalcBatch(q, id - 1, id), table[hint].maxShareRate)
  BY <1>1, ValueAtHint
<1>5. QED
  BY <1>1, <1>3, <1>4 DEF longer

LEMMA ValueType ==
  ASSUME NEW q, IsQueue(q), NEW table, NEW last \in 0..Len(q), IsTable(table, last), NEW id \in 1..last
  PROVE  ValueOf(q, table, id) \in 0..CalcBatch(q, id - 1, id).stETH
<1>1. PICK hint : IsHint(table, id, hint)
  BY HintExists
<1>2. table[hint].maxShareRate \in Nat
  BY <1>1, TableType DEF IsHint
<1> DEFINE rate == table[hint].maxShareRate
           before == id - 1
<1>3. before \in 0..Len(q) /\ id \in 0..Len(q) /\ before < id
  BY DEF IsQueue
<1> HIDE DEF rate, before
<1>4. EtherOf(CalcBatch(q, before, id), rate) \in 0..(CumulativeStETH(q, id) - CumulativeStETH(q, before))
  BY <1>2, <1>3, WorthOfBatch DEF rate
<1>5. CalcBatch(q, before, id).stETH = CumulativeStETH(q, id) - CumulativeStETH(q, before)
  BY DEF CalcBatch
<1>6. ValueOf(q, table, id) = EtherOf(CalcBatch(q, before, id), rate)
  BY <1>1, ValueAtHint DEF rate, before
<1>7. QED
  BY <1>4, <1>5, <1>6 DEF before

(***************************************************************************)
(* What a step does to the requests: nothing but a change of owner, a new  *)
(* request, a finalization, or a claim.                                    *)
(***************************************************************************)
RequestsKept ==
  /\ Len(queue') = Len(queue)
  /\ \A k \in 1..Len(queue) : /\ queue'[k].cumulativeStETH = queue[k].cumulativeStETH
                              /\ queue'[k].cumulativeShares = queue[k].cumulativeShares
                              /\ queue'[k].claimed = queue[k].claimed
  /\ UNCHANGED <<checkpoints, lastFinalizedRequestId, paid>>

RequestAdded(r) ==
  /\ queue' = Append(queue, r)
  /\ ~r.claimed
  /\ UNCHANGED <<checkpoints, lastFinalizedRequestId, paid>>

RequestsFinalized(lastId, rate) ==
  /\ lastId \in (lastFinalizedRequestId + 1)..Len(queue)
  /\ checkpoints' = Append(checkpoints,
       [fromRequestId |-> lastFinalizedRequestId + 1, maxShareRate |-> rate])
  /\ lastFinalizedRequestId' = lastId
  /\ UNCHANGED <<queue, paid>>

LEMMA RequestKind ==
  ASSUME WQInv, NEW a \in Accounts, NEW amount \in Amounts,
         RequestWithdrawal(amount, a) \/ RequestWithdrawalWstETH(amount, a)
  PROVE  \E r \in WithdrawalRequest : RequestAdded(r)
<1>1. steth.ether \in Nat /\ steth.shares \in Nat \ {0} /\ amount \in Nat
  BY RateType, WithdrawalQueueAssumption DEF WQInv
<1>2. amount * steth.ether \in Nat
  BY <1>1
<1>3. PooledEthByShares(amount) \in Int /\ amount \in Int
  BY <1>1, <1>2, Division DEF PooledEthByShares
<1>4. \E asked \in Int : RequestWithdrawal(asked, a)
  BY <1>3 DEF RequestWithdrawalWstETH
<1>5. PICK asked \in Int : RequestWithdrawal(asked, a)
  BY <1>4
<1>6. PICK shares \in Nat, r \in WithdrawalRequest : Requested(asked, a, shares, r)
  BY <1>5, RequestAppends
<1>7. QED
  BY <1>6 DEF Requested, RequestAdded

LEMMA ReportKind ==
  ASSUME WQInv, NEW bunker, NEW time \in Int, NEW budget \in Int, NEW pool \in Pools,
         OracleReport(bunker, time, budget, pool)
  PROVE  RequestsKept \/ \E lastId, rate \in Nat : RequestsFinalized(lastId, rate)
<1>1. UNCHANGED <<queue, paid>>
  BY DEF OracleReport
<1>2. CASE NothingFinalized
  BY <1>1, <1>2 DEF NothingFinalized, RequestsKept
<1>3. CASE \E lastId, eth : FinalizedTo(lastId, eth, ShareRate(pool))
  <2>1. PICK lastId, eth : FinalizedTo(lastId, eth, ShareRate(pool))
    BY <1>3
  <2>2. lastId \in Nat
    BY <2>1 DEF FinalizedTo, WQInv, TypeOK
  <2>3. QED
    BY <1>1, <2>1, <2>2, RateType DEF FinalizedTo, RequestsFinalized
<1>4. QED
  BY <1>2, <1>3, ReportFinalizes

LEMMA TransferKind ==
  ASSUME WQInv, NEW id, NEW a, NEW from \in Accounts, NEW to \in Accounts, Transfer(a, from, to, id)
  PROVE  RequestsKept
<1>1. /\ id \in DOMAIN queue /\ queue' = [queue EXCEPT ![id].owner = to]
      /\ UNCHANGED <<checkpoints, lastFinalizedRequestId, paid>>
  BY DEF Transfer, etherVars
<1>2. queue \in Seq(WithdrawalRequest) /\ Len(queue) \in Nat /\ DOMAIN queue = 1..Len(queue)
  BY DEF WQInv, TypeOK
<1> DEFINE r == [queue[id] EXCEPT !.owner = to]
<1>3. queue[id] \in WithdrawalRequest
  BY <1>1, <1>2
<1>4. /\ r \in WithdrawalRequest /\ r.cumulativeStETH = queue[id].cumulativeStETH
      /\ r.cumulativeShares = queue[id].cumulativeShares /\ r.claimed = queue[id].claimed
  BY <1>3 DEF WithdrawalRequest
<1>5. queue' = [queue EXCEPT ![id] = r]
  BY <1>1
<1> HIDE DEF r
<1>6. Len(queue') = Len(queue)
  BY <1>1, <1>2, <1>4, <1>5, ExceptSeq
<1>7. \A k \in 1..Len(queue) : queue'[k] = IF k = id THEN r ELSE queue[k]
  BY <1>2, <1>5
<1>8. QED
  BY <1>1, <1>4, <1>6, <1>7 DEF RequestsKept

LEMMA StepKinds ==
  ASSUME WQInv, [Next]_vars
  PROVE  \/ RequestsKept
         \/ \E r \in WithdrawalRequest : RequestAdded(r)
         \/ \E lastId, rate \in Nat : RequestsFinalized(lastId, rate)
         \/ \E id, hint, a : Claim(id, hint, a)
<1>1. ASSUME UNCHANGED <<queue, checkpoints, lastFinalizedRequestId, paid>> PROVE RequestsKept
  BY <1>1 DEF RequestsKept
<1>2. CASE AdvanceClock
  BY <1>1, <1>2 DEF AdvanceClock, queueVars, etherVars
<1>3. ASSUME NEW a \in Accounts, NEW amount \in Amounts,
             RequestWithdrawal(amount, a) \/ RequestWithdrawalWstETH(amount, a)
      PROVE  \E r \in WithdrawalRequest : RequestAdded(r)
  BY <1>3, RequestKind
<1>4. ASSUME NEW bunker \in BunkerModes, NEW d \in ReportDelays, NEW budget \in Budgets,
             NEW pool \in Pools, OracleReport(bunker, now - d, budget, pool)
      PROVE  RequestsKept \/ \E lastId, rate \in Nat : RequestsFinalized(lastId, rate)
  <2>1. now - d \in Int /\ budget \in Int
    BY WithdrawalQueueAssumption DEF WQInv, TypeOK
  <2>2. QED
    BY <1>4, <2>1, ReportKind
<1>5. ASSUME NEW id \in DOMAIN queue, NEW a \in Accounts,
             ClaimWithdrawal(id, a) \/ \E hint \in DOMAIN checkpoints : Claim(id, hint, a)
      PROVE  \E i, hint, b : Claim(i, hint, b)
  BY <1>5 DEF ClaimWithdrawal
<1>6. ASSUME NEW id \in DOMAIN queue, NEW a \in Accounts, NEW from \in Accounts, NEW to \in Accounts,
             Transfer(a, from, to, id)
      PROVE  RequestsKept
  BY <1>6, TransferKind
<1>7. ASSUME NEW id \in DOMAIN queue, NEW a \in Accounts, NEW to, Approve(a, to, id)
      PROVE  RequestsKept
  BY <1>1, <1>7 DEF Approve, queueVars, etherVars
<1>8. ASSUME NEW a, NEW b, NEW approved, SetApprovalForAll(a, b, approved)
      PROVE  RequestsKept
  BY <1>1, <1>8 DEF SetApprovalForAll, queueVars, etherVars
<1>9. CASE Resume
  BY <1>1, <1>9 DEF Resume, queueVars, etherVars
<1>10. ASSUME NEW d \in PauseDurations, PauseFor(d) \/ PauseUntil(now + d - 1)
       PROVE  RequestsKept
  BY <1>1, <1>10 DEF PauseFor, PauseUntil, queueVars, etherVars
<1>11. CASE UNCHANGED vars
  BY <1>1, <1>11 DEF vars, queueVars, etherVars
<1>12. QED
  BY <1>2, <1>3, <1>4, <1>5, <1>6, <1>7, <1>8, <1>9, <1>10, <1>11 DEF Next

(***************************************************************************)
(* Only finalized requests are claimed; so a finalization finds pending    *)
(* requests only.                                                          *)
(***************************************************************************)
OnlyFinalizedAreClaimed == \A id \in 1..Len(queue) : queue[id].claimed => id <= lastFinalizedRequestId

LEMMA ClaimChanges ==
  ASSUME WQInv, NEW id, NEW hint, NEW a, Claim(id, hint, a)
  PROVE  /\ id \in 1..lastFinalizedRequestId /\ id \in 1..Len(queue) /\ Len(queue') = Len(queue)
         /\ ~queue[id].claimed /\ HintIsValid(checkpoints, id, hint)
         /\ \A k \in 1..Len(queue) :
              /\ queue'[k].cumulativeStETH = queue[k].cumulativeStETH
              /\ queue'[k].cumulativeShares = queue[k].cumulativeShares
              /\ queue'[k].claimed <=> k = id \/ queue[k].claimed
         /\ paid' = paid + ClaimableWithHint(id, hint)
         /\ UNCHANGED <<checkpoints, lastFinalizedRequestId>>
<1>1. /\ id \in 1..lastFinalizedRequestId /\ queue' = [queue EXCEPT ![id].claimed = TRUE]
      /\ ~queue[id].claimed /\ HintIsValid(checkpoints, id, hint)
      /\ paid' = paid + ClaimableWithHint(id, hint)
      /\ UNCHANGED <<checkpoints, lastFinalizedRequestId>>
  BY DEF Claim
<1>2. /\ queue \in Seq(WithdrawalRequest) /\ Len(queue) \in Nat /\ DOMAIN queue = 1..Len(queue)
      /\ lastFinalizedRequestId \in 0..Len(queue)
  BY DEF WQInv, TypeOK
<1> DEFINE r == [queue[id] EXCEPT !.claimed = TRUE]
<1>3. id \in 1..Len(queue) /\ queue[id] \in WithdrawalRequest
  BY <1>1, <1>2
<1>4. /\ r \in WithdrawalRequest /\ r.cumulativeStETH = queue[id].cumulativeStETH
      /\ r.cumulativeShares = queue[id].cumulativeShares /\ r.claimed = TRUE
  BY <1>3 DEF WithdrawalRequest
<1>5. queue' = [queue EXCEPT ![id] = r]
  BY <1>1
<1> HIDE DEF r
<1>6. Len(queue') = Len(queue)
  BY <1>2, <1>3, <1>4, <1>5, ExceptSeq
<1>7. \A k \in 1..Len(queue) : queue'[k] = IF k = id THEN r ELSE queue[k]
  BY <1>2, <1>5
<1>8. QED
  BY <1>1, <1>3, <1>4, <1>6, <1>7

LEMMA ClaimedInv ==
  ASSUME WQInv, OnlyFinalizedAreClaimed, [Next]_vars
  PROVE  OnlyFinalizedAreClaimed'
<1>1. queue \in Seq(WithdrawalRequest) /\ Len(queue) \in Nat /\ lastFinalizedRequestId \in 0..Len(queue)
  BY DEF WQInv, TypeOK
<1>2. CASE RequestsKept
  BY <1>2 DEF RequestsKept, OnlyFinalizedAreClaimed
<1>3. ASSUME NEW r \in WithdrawalRequest, RequestAdded(r) PROVE OnlyFinalizedAreClaimed'
  <2>1. /\ Len(queue') = Len(queue) + 1 /\ queue'[Len(queue) + 1] = r
        /\ \A k \in 1..Len(queue) : queue'[k] = queue[k]
    BY <1>1, <1>3, AppendProperties DEF RequestAdded
  <2>2. ~r.claimed /\ lastFinalizedRequestId' = lastFinalizedRequestId
    BY <1>3 DEF RequestAdded
  <2>3. QED
    BY <1>1, <2>1, <2>2 DEF OnlyFinalizedAreClaimed
<1>4. ASSUME NEW lastId, NEW rate, RequestsFinalized(lastId, rate) PROVE OnlyFinalizedAreClaimed'
  BY <1>1, <1>4 DEF RequestsFinalized, OnlyFinalizedAreClaimed
<1>5. ASSUME NEW id, NEW hint, NEW a, Claim(id, hint, a) PROVE OnlyFinalizedAreClaimed'
  <2>1. /\ id \in 1..lastFinalizedRequestId /\ Len(queue') = Len(queue)
        /\ \A k \in 1..Len(queue) : queue'[k].claimed <=> k = id \/ queue[k].claimed
        /\ lastFinalizedRequestId' = lastFinalizedRequestId
    BY <1>5, ClaimChanges
  <2>2. QED
    BY <1>1, <2>1 DEF OnlyFinalizedAreClaimed
<1>6. QED
  BY <1>2, <1>3, <1>4, <1>5, StepKinds

(***************************************************************************)
(* The four kinds of steps, seen from Withdrawals.                         *)
(***************************************************************************)
LEMMA SameBatch ==
  ASSUME NEW q, NEW p, NEW id, NEW before,
         CumulativeStETH(p, id) = CumulativeStETH(q, id),
         CumulativeShares(p, id) = CumulativeShares(q, id),
         CumulativeStETH(p, before) = CumulativeStETH(q, before),
         CumulativeShares(p, before) = CumulativeShares(q, before)
  PROVE  CalcBatch(p, before, id) = CalcBatch(q, before, id)
BY DEF CalcBatch

LEMMA SameStatus ==
  ASSUME NEW q, NEW p, NEW table, NEW last, NEW id,
         CalcBatch(p, id - 1, id) = CalcBatch(q, id - 1, id), p[id].claimed = q[id].claimed
  PROVE  StatusOf(p, table, last, id) = StatusOf(q, table, last, id)
BY DEF StatusOf, ValueOf

AmountsKept(q, p) ==
  /\ p \in Seq(WithdrawalRequest) /\ Len(p) = Len(q)
  /\ \A k \in 1..Len(q) : /\ p[k].cumulativeStETH = q[k].cumulativeStETH
                          /\ p[k].cumulativeShares = q[k].cumulativeShares

LEMMA AmountsKeepBatches ==
  ASSUME NEW q, IsQueue(q), NEW p, AmountsKept(q, p), NEW id \in 1..Len(q)
  PROVE  CalcBatch(p, id - 1, id) = CalcBatch(q, id - 1, id)
<1>1. \A k \in 0..Len(q) : /\ CumulativeStETH(p, k) = CumulativeStETH(q, k)
                           /\ CumulativeShares(p, k) = CumulativeShares(q, k)
  BY QueueKeepsAmounts DEF AmountsKept
<1> DEFINE before == id - 1
<1>2. id \in 0..Len(q) /\ before \in 0..Len(q)
  BY DEF IsQueue
<1> HIDE DEF before
<1>3. CalcBatch(p, before, id) = CalcBatch(q, before, id)
  BY <1>1, <1>2, SameBatch
<1>4. QED
  BY <1>3 DEF before

LEMMA KeptIsStutter ==
  ASSUME WQInv, TypeOK', RequestsKept
  PROVE  RequestsOf(queue', checkpoints', lastFinalizedRequestId')
           = RequestsOf(queue, checkpoints, lastFinalizedRequestId)
<1>1. IsQueue(queue) /\ AmountsKept(queue, queue') /\ Len(queue') = Len(queue)
      /\ \A k \in 1..Len(queue) : queue'[k].claimed = queue[k].claimed
      /\ UNCHANGED <<checkpoints, lastFinalizedRequestId>>
  BY DEF WQInv, TypeOK, RequestsKept, AmountsKept
<1>2. ASSUME NEW id \in 1..Len(queue)
      PROVE  StatusOf(queue', checkpoints, lastFinalizedRequestId, id)
               = StatusOf(queue, checkpoints, lastFinalizedRequestId, id)
  BY <1>1, AmountsKeepBatches, SameStatus
<1>3. QED
  BY <1>1, <1>2 DEF RequestsOf

LEMMA AddedIsRequest ==
  ASSUME WQInv, IsQueue(queue'), NEW r \in WithdrawalRequest, RequestAdded(r)
  PROVE  LET requests == RequestsOf(queue, checkpoints, lastFinalizedRequestId)
             next     == RequestsOf(queue', checkpoints', lastFinalizedRequestId')
         IN  /\ Len(next) = Len(requests) + 1
             /\ next[Len(next)].amount \in MIN_STETH_WITHDRAWAL_AMOUNT..MAX_STETH_WITHDRAWAL_AMOUNT
             /\ next = Append(requests, [amount |-> next[Len(next)].amount,
                                         state |-> "pending", value |-> 0])
<1> DEFINE n == Len(queue)
           last == lastFinalizedRequestId
           requests == RequestsOf(queue, checkpoints, last)
           next == RequestsOf(queue', checkpoints', last')
           amount == CalcBatch(queue', n, n + 1).stETH
           entry == [amount |-> amount, state |-> "pending", value |-> 0]
<1>1. /\ queue \in Seq(WithdrawalRequest) /\ n \in Nat /\ last \in 0..n
      /\ checkpoints' = checkpoints /\ last' = last /\ queue' \in Seq(WithdrawalRequest)
  BY DEF WQInv, TypeOK, RequestAdded, IsQueue
<1>2. /\ Len(queue') = n + 1 /\ queue'[n + 1] = r
      /\ \A k \in 1..n : queue'[k] = queue[k]
  BY <1>1, AppendProperties DEF RequestAdded
<1>3. \A k \in 0..n : /\ CumulativeStETH(queue', k) = CumulativeStETH(queue, k)
                      /\ CumulativeShares(queue', k) = CumulativeShares(queue, k)
  <2> SUFFICES ASSUME NEW k \in 0..n
               PROVE  /\ CumulativeStETH(queue', k) = CumulativeStETH(queue, k)
                      /\ CumulativeShares(queue', k) = CumulativeShares(queue, k)
    OBVIOUS
  <2>1. k = 0 \/ k \in 1..n
    BY <1>1
  <2>2. QED
    BY <1>2, <2>1 DEF CumulativeStETH, CumulativeShares
<1>4. ASSUME NEW id \in 1..n
      PROVE  StatusOf(queue', checkpoints', last', id) = StatusOf(queue, checkpoints, last, id)
  <2> DEFINE before == id - 1
  <2>1. id \in 0..n /\ before \in 0..n /\ queue'[id].claimed = queue[id].claimed
    BY <1>1, <1>2
  <2> HIDE DEF before
  <2>2. CalcBatch(queue', before, id) = CalcBatch(queue, before, id)
    BY <1>3, <2>1, SameBatch
  <2>3. QED
    BY <1>1, <2>1, <2>2, SameStatus DEF before
<1>5. StatusOf(queue', checkpoints', last', n + 1) = entry
  <2>1. n + 1 > last' /\ (n + 1) - 1 = n
    BY <1>1
  <2>2. QED
    BY <2>1 DEF StatusOf
<1>6. amount \in MIN_STETH_WITHDRAWAL_AMOUNT..MAX_STETH_WITHDRAWAL_AMOUNT
  <2>1. n + 1 \in 1..Len(queue') /\ (n + 1) - 1 = n
    BY <1>1, <1>2
  <2>2. Grows(queue', n + 1)
    BY <2>1 DEF IsQueue
  <2>3. QED
    BY <2>1, <2>2 DEF Grows, CalcBatch
<1> HIDE DEF amount, entry
<1>7. requests = [id \in 1..n |-> StatusOf(queue, checkpoints, last, id)]
  BY DEF RequestsOf
<1>8. next = [id \in 1..(n + 1) |-> StatusOf(queue', checkpoints', last', id)]
  BY <1>2 DEF RequestsOf
<1> HIDE DEF requests, next
<1>9. Len(requests) = n /\ Len(next) = n + 1
  BY <1>1, <1>7, <1>8
<1>10. next[n + 1] = entry
  BY <1>1, <1>5, <1>8
<1>11. next = Append(requests, entry)
  <2>1. \A id \in 1..n : next[id] = requests[id]
    BY <1>1, <1>4, <1>7, <1>8
  <2> DEFINE S == {StatusOf(queue, checkpoints, last, id) : id \in 1..n} \union {entry}
             longer == Append(requests, entry)
  <2>2. requests \in Seq(S) /\ entry \in S
    <3>1. requests \in [1..n -> S]
      BY <1>7
    <3>2. QED
      BY <1>1, <3>1, SMTT(30)
  <2> HIDE DEF S
  <2>3. /\ longer \in Seq(S) /\ Len(longer) = n + 1 /\ longer[n + 1] = entry
        /\ \A id \in 1..n : longer[id] = requests[id]
    BY <1>9, <2>2, AppendProperties
  <2> HIDE DEF longer
  <2>4. longer \in [1..(n + 1) -> S]
    BY <2>3, LenProperties
  <2>5. \A id \in 1..(n + 1) : next[id] = longer[id]
    BY <1>1, <1>10, <2>1, <2>3
  <2>6. next = longer
    BY <1>8, <2>4, <2>5
  <2>7. QED
    BY <2>6 DEF longer
<1>12. next[Len(next)].amount = amount /\ entry = [amount |-> amount, state |-> "pending", value |-> 0]
  BY <1>9, <1>10 DEF entry
<1>13. QED
  BY <1>6, <1>9, <1>11, <1>12 DEF requests, next

LEMMA FinalizedIsFinalize ==
  ASSUME WQInv, OnlyFinalizedAreClaimed, WQInv', NEW lastId \in Nat, NEW rate \in Nat,
         RequestsFinalized(lastId, rate)
  PROVE  LET requests == RequestsOf(queue, checkpoints, lastFinalizedRequestId)
             next     == RequestsOf(queue', checkpoints', lastFinalizedRequestId')
         IN  /\ lastId \in DOMAIN requests /\ requests[lastId].state = "pending"
             /\ DOMAIN next = DOMAIN requests
             /\ \A id \in DOMAIN requests :
                  IF id <= lastId /\ requests[id].state = "pending"
                  THEN /\ next[id] = [requests[id] EXCEPT !.state = "finalized",
                                                          !.value = next[id].value]
                       /\ next[id].value \in 0..requests[id].amount
                  ELSE next[id] = requests[id]
<1> DEFINE n == Len(queue)
           last == lastFinalizedRequestId
           table == checkpoints
           longer == checkpoints'
           requests == RequestsOf(queue, table, last)
           next == RequestsOf(queue, longer, lastId)
<1>1. /\ IsQueue(queue) /\ n \in Nat /\ last \in 0..n /\ lastId \in (last + 1)..n
      /\ IsTable(table, last) /\ IsTable(longer, lastId)
      /\ longer = Append(table, [fromRequestId |-> last + 1, maxShareRate |-> rate])
      /\ queue' = queue /\ lastFinalizedRequestId' = lastId
  BY DEF WQInv, TypeOK, RequestsFinalized
<1>2. /\ DOMAIN requests = 1..n /\ DOMAIN next = 1..n
      /\ \A id \in 1..n : /\ requests[id] = StatusOf(queue, table, last, id)
                          /\ next[id] = StatusOf(queue, longer, lastId, id)
  BY DEF RequestsOf
<1>3. lastId \in 1..n /\ requests[lastId].state = "pending"
  <2>1. lastId \in 1..n /\ lastId > last
    BY <1>1
  <2>2. QED
    BY <1>2, <2>1 DEF StatusOf
<1>4. ASSUME NEW id \in 1..n
      PROVE  IF id <= lastId /\ requests[id].state = "pending"
             THEN /\ next[id] = [requests[id] EXCEPT !.state = "finalized", !.value = next[id].value]
                  /\ next[id].value \in 0..requests[id].amount
             ELSE next[id] = requests[id]
  <2> HIDE DEF requests, next, longer
  <2> DEFINE amount == CalcBatch(queue, id - 1, id).stETH
  <2>1. CASE id <= last
    <3>1. id \in 1..last /\ ~(id > last) /\ ~(id > lastId) /\ lastId > last /\ last \in Nat
      BY <1>1, <2>1
    <3>2. ValueOf(queue, longer, id) = ValueOf(queue, table, id)
      BY <1>1, <3>1, ValueStays, ZenonT(30)
    <3>3. next[id] = requests[id] /\ requests[id].state # "pending"
      BY <1>2, <3>1, <3>2 DEF StatusOf
    <3>4. QED
      BY <3>3
  <2>2. CASE id > last /\ id <= lastId
    <3>1. id \in 1..lastId /\ ~(id > lastId)
      BY <1>1, <2>2
    <3>2. ~queue[id].claimed
      BY <1>1, <2>2 DEF OnlyFinalizedAreClaimed
    <3>3. ValueOf(queue, longer, id) \in 0..amount
      <4>1. lastId \in 0..n
        BY <1>1
      <4>2. QED
        BY <1>1, <3>1, <4>1, ValueType
    <3>4. requests[id] = [amount |-> amount, state |-> "pending", value |-> 0]
      BY <1>2, <2>2 DEF StatusOf
    <3>5. next[id] = [amount |-> amount, state |-> "finalized", value |-> ValueOf(queue, longer, id)]
      BY <1>2, <3>1, <3>2 DEF StatusOf
    <3> DEFINE value == ValueOf(queue, longer, id)
    <3> HIDE DEF amount, value
    <3>6. next[id].value = value /\ requests[id].amount = amount /\ requests[id].state = "pending"
      BY <3>4, <3>5 DEF value
    <3>7. next[id] = [requests[id] EXCEPT !.state = "finalized", !.value = next[id].value]
      <4>1. [requests[id] EXCEPT !.state = "finalized", !.value = value]
              = [f \in {"amount", "state", "value"} |->
                   IF f = "value" THEN value ELSE IF f = "state" THEN "finalized" ELSE requests[id][f]]
        BY <3>4
      <4>2. [amount |-> amount, state |-> "finalized", value |-> value]
              = [f \in {"amount", "state", "value"} |->
                   IF f = "value" THEN value ELSE IF f = "state" THEN "finalized" ELSE requests[id][f]]
        BY <3>6
      <4>3. QED
        BY <3>5, <3>6, <4>1, <4>2 DEF value
    <3>8. QED
      BY <2>2, <3>3, <3>6, <3>7 DEF value
  <2>3. CASE id > last /\ ~(id <= lastId)
    <3>1. id > lastId
      BY <1>1, <2>3
    <3>2. QED
      BY <1>2, <2>3, <3>1 DEF StatusOf
  <2>4. QED
    BY <1>1, <2>1, <2>2, <2>3
<1>5. QED
  <2> HIDE DEF requests, next
  <2> QED BY <1>1, <1>2, <1>3, <1>4 DEF requests, next

LEMMA ClaimIsClaim ==
  ASSUME WQInv, TypeOK', NEW id, NEW hint, NEW a, Claim(id, hint, a)
  PROVE  LET requests == RequestsOf(queue, checkpoints, lastFinalizedRequestId)
             next     == RequestsOf(queue', checkpoints', lastFinalizedRequestId')
         IN  /\ id \in DOMAIN requests /\ requests[id].state = "finalized"
             /\ next = [requests EXCEPT ![id].state = "claimed"]
             /\ paid' = paid + requests[id].value
<1> DEFINE n == Len(queue)
           last == lastFinalizedRequestId
           table == checkpoints
           requests == RequestsOf(queue, table, last)
           next == RequestsOf(queue', table, last)
<1>1. /\ id \in 1..last /\ id \in 1..n /\ Len(queue') = n
      /\ ~queue[id].claimed /\ HintIsValid(table, id, hint)
      /\ \A k \in 1..n :
           /\ queue'[k].cumulativeStETH = queue[k].cumulativeStETH
           /\ queue'[k].cumulativeShares = queue[k].cumulativeShares
           /\ queue'[k].claimed <=> k = id \/ queue[k].claimed
      /\ paid' = paid + ClaimableWithHint(id, hint)
      /\ checkpoints' = table /\ lastFinalizedRequestId' = last
  BY ClaimChanges
<1>2. /\ IsQueue(queue) /\ AmountsKept(queue, queue') /\ IsTable(table, last)
      /\ n \in Nat /\ last \in 0..n
  <2>1. queue' \in Seq(WithdrawalRequest)
    BY DEF TypeOK
  <2>2. IsQueue(queue) /\ IsTable(table, last) /\ n \in Nat /\ last \in 0..n
    BY DEF WQInv, TypeOK
  <2>3. QED
    BY <1>1, <2>1, <2>2 DEF AmountsKept
<1>3. ClaimableWithHint(id, hint) = ValueOf(queue, table, id)
  <2>1. PICK h : IsHint(table, id, h)
    BY <1>1, <1>2, HintExists
  <2>2. hint = h
    BY <1>1, <1>2, <2>1, OnlyTheHintIsValid DEF HintIsValid
  <2>3. QED
    BY <1>1, <1>2, <2>1, <2>2, ValueAtHint DEF ClaimableWithHint
<1>4. /\ requests = [k \in 1..n |-> StatusOf(queue, table, last, k)]
      /\ next = [k \in 1..n |-> StatusOf(queue', table, last, k)]
  BY <1>1 DEF RequestsOf
<1> HIDE DEF requests, next, table
<1>5. ~(id > last) /\ id \in DOMAIN requests
  BY <1>1, <1>2, <1>4
<1> DEFINE amount == CalcBatch(queue, id - 1, id).stETH
           value == ValueOf(queue, table, id)
<1>6. requests[id] = [amount |-> amount, state |-> "finalized", value |-> value]
  BY <1>1, <1>4, <1>5 DEF StatusOf
<1>7. StatusOf(queue', table, last, id) = [amount |-> amount, state |-> "claimed", value |-> value]
  <2>1. CalcBatch(queue', id - 1, id) = CalcBatch(queue, id - 1, id)
    BY <1>1, <1>2, AmountsKeepBatches
  <2>2. queue'[id].claimed
    BY <1>1
  <2>3. QED
    BY <1>5, <2>1, <2>2 DEF StatusOf, ValueOf
<1> HIDE DEF amount, value
<1>8. ASSUME NEW k \in 1..n, k # id
      PROVE  StatusOf(queue', table, last, k) = StatusOf(queue, table, last, k)
  <2>1. CalcBatch(queue', k - 1, k) = CalcBatch(queue, k - 1, k)
    BY <1>2, AmountsKeepBatches
  <2>2. IF queue'[k].claimed THEN queue[k].claimed ELSE ~queue[k].claimed
    BY <1>1, <1>8
  <2>3. QED
    BY <2>1, <2>2 DEF StatusOf, ValueOf
<1>9. next = [requests EXCEPT ![id].state = "claimed"]
  <2>1. [requests EXCEPT ![id].state = "claimed"]
          = [k \in 1..n |-> IF k = id THEN [amount |-> amount, state |-> "claimed", value |-> value]
                            ELSE requests[k]]
    <3>1. [requests[id] EXCEPT !.state = "claimed"]
            = [amount |-> amount, state |-> "claimed", value |-> value]
      BY <1>6
    <3>2. [requests EXCEPT ![id].state = "claimed"]
            = [k \in 1..n |-> IF k = id THEN [requests[id] EXCEPT !.state = "claimed"] ELSE requests[k]]
      BY <1>4
    <3>3. QED
      BY <3>1, <3>2
  <2>2. QED
    BY <1>4, <1>7, <1>8, <2>1
<1>10. requests[id].value = value /\ requests[id].state = "finalized"
  BY <1>6
<1>11. QED
  BY <1>1, <1>3, <1>5, <1>9, <1>10 DEF requests, next, table, value

LEMMA InitImplements == Init => W!Init
<1> SUFFICES ASSUME Init PROVE W!Init
  OBVIOUS
<1>1. queue = <<>> /\ paid = 0
  BY DEF Init
<1>2. [id \in 1..Len(queue) |-> RequestStatus(id)] = <<>>
  BY <1>1
<1>3. QED
  BY <1>1, <1>2 DEF W!Init

LEMMA StepImplements ==
  ASSUME WQInv, OnlyFinalizedAreClaimed, [Next]_vars
  PROVE  [W!Next]_W!vars
<1> DEFINE requests == RequestsOf(queue, checkpoints, lastFinalizedRequestId)
           next == RequestsOf(queue', checkpoints', lastFinalizedRequestId')
<1>1. WQInv' /\ TypeOK' /\ IsQueue(queue')
  BY NextKeepsInv DEF WQInv
<1>2. /\ [id \in 1..Len(queue) |-> RequestStatus(id)] = requests
      /\ [id \in 1..Len(queue) |-> RequestStatus(id)]' = next
  BY DEF RequestsOf, StatusOf, ValueOf, RequestStatus, Claimable, ClaimableWithHint
<1>3. CASE RequestsKept
  <2>1. next = requests
    BY <1>1, <1>3, KeptIsStutter
  <2>2. paid' = paid
    BY <1>3 DEF RequestsKept
  <2> HIDE DEF requests, next
  <2>3. QED
    BY <1>2, <2>1, <2>2 DEF W!vars
<1>4. ASSUME NEW r \in WithdrawalRequest, RequestAdded(r) PROVE W!Request
  <2>1. /\ Len(next) = Len(requests) + 1
        /\ next[Len(next)].amount \in MIN_STETH_WITHDRAWAL_AMOUNT..MAX_STETH_WITHDRAWAL_AMOUNT
        /\ next = Append(requests, [amount |-> next[Len(next)].amount, state |-> "pending", value |-> 0])
    BY <1>1, <1>4, AddedIsRequest
  <2>2. paid' = paid
    BY <1>4 DEF RequestAdded
  <2> HIDE DEF requests, next
  <2>3. QED
    BY <1>2, <2>1, <2>2 DEF W!Request, W!Pending
<1>5. ASSUME NEW lastId \in Nat, NEW rate \in Nat, RequestsFinalized(lastId, rate)
      PROVE  \E i \in DOMAIN requests : W!Finalize(i)
  <2>1. /\ lastId \in DOMAIN requests /\ requests[lastId].state = "pending"
        /\ DOMAIN next = DOMAIN requests
        /\ \A id \in DOMAIN requests :
             IF id <= lastId /\ requests[id].state = "pending"
             THEN /\ next[id] = [requests[id] EXCEPT !.state = "finalized",
                                                     !.value = next[id].value]
                  /\ next[id].value \in 0..requests[id].amount
             ELSE next[id] = requests[id]
    BY <1>1, <1>5, FinalizedIsFinalize
  <2>2. paid' = paid
    BY <1>5 DEF RequestsFinalized
  <2> HIDE DEF requests, next
  <2>3. W!Finalize(lastId)
    BY <1>2, <2>1, <2>2 DEF W!Finalize
  <2>4. QED
    BY <2>1, <2>3
<1>6. ASSUME NEW id, NEW hint, NEW a, Claim(id, hint, a)
      PROVE  \E i \in DOMAIN requests : W!Claim(i)
  <2>1. /\ id \in DOMAIN requests /\ requests[id].state = "finalized"
        /\ next = [requests EXCEPT ![id].state = "claimed"]
        /\ paid' = paid + requests[id].value
    BY <1>1, <1>6, ClaimIsClaim
  <2> HIDE DEF requests, next
  <2>2. W!Claim(id)
    BY <1>2, <2>1 DEF W!Claim
  <2>3. QED
    BY <2>1, <2>2
<1>7. QED
  <2> HIDE DEF requests, next
  <2> QED BY <1>2, <1>3, <1>4, <1>5, <1>6, StepKinds DEF W!Next

(***************************************************************************)
(* The queue implements Withdrawals: requests are finalized in the order   *)
(* they were made, at a value of at most the amount asked for that no      *)
(* later report changes, and each is claimed once, for exactly that value  *)
(* (_finalize and _claim over all checkpoints still to come).              *)
(***************************************************************************)
THEOREM QueueImplementsWithdrawals == Spec => ImplementsWithdrawals
<1>1. Init => OnlyFinalizedAreClaimed
  BY DEF Init, OnlyFinalizedAreClaimed
<1>2. WQInv /\ OnlyFinalizedAreClaimed /\ [Next]_vars => OnlyFinalizedAreClaimed'
  BY ClaimedInv
<1>3. WQInv /\ OnlyFinalizedAreClaimed /\ [Next]_vars => [W!Next]_W!vars
  BY StepImplements
<1>4. QED
  BY <1>1, <1>2, <1>3, InvHolds, InitImplements, PTL DEF Spec, ImplementsWithdrawals, W!Spec

------------------------------------------------------------------------------

(***************************************************************************)
(* Splitting the calculation.  A part of a trace is the trace of the       *)
(* remaining requests; and the state a call returns determines the state   *)
(* the next one starts from, because the rate of the last request handled  *)
(* can be read off the batches.                                            *)
(***************************************************************************)
IsPart(part, whole, start, rest) == \A k \in 0..rest : part[k] = whole[start + k]

LEMMA TracesAgree ==
  ASSUME NEW q, NEW rate, NEW time, NEW base, NEW prev, NEW count, NEW whole,
         NEW part, NEW start, NEW rest, NEW from, NEW middle,
         prev \in Nat, count \in Nat, start \in Nat, rest \in Nat, start + rest <= count,
         IsTrace(whole, q, rate, time, base, prev, count),
         from = prev + start, middle = whole[start],
         IsTrace(part, q, rate, time, middle, from, rest)
  PROVE  IsPart(part, whole, start, rest)
<1> DEFINE N == {k \in Nat : k <= rest => part[k] = whole[start + k]}
<1>1. 0 \in N
  BY DEF IsTrace
<1>2. ASSUME NEW k \in N PROVE k + 1 \in N
  <2> SUFFICES ASSUME k + 1 <= rest PROVE part[k + 1] = whole[start + (k + 1)]
    OBVIOUS
  <2>1. k \in Nat /\ part[k] = whole[start + k]
    OBVIOUS
  <2> HIDE DEF N
  <2> DEFINE i == k + 1
             j == start + (k + 1)
  <2>2. /\ i \in 1..rest /\ i - 1 = k /\ j \in 1..count /\ j - 1 = start + k
        /\ from + i = prev + j
    BY <2>1
  <2> HIDE DEF i, j
  <2>3. part[i] = HandleRequest(q, rate, time, part[i - 1], from + i)
    BY <2>2 DEF IsTrace
  <2>4. whole[j] = HandleRequest(q, rate, time, whole[j - 1], prev + j)
    BY <2>2 DEF IsTrace
  <2>5. part[i] = whole[j]
    BY <2>1, <2>2, <2>3, <2>4
  <2>6. QED
    BY <2>5 DEF i, j
<1>3. N = Nat
  <2> HIDE DEF N
  <2> QED BY <1>1, <1>2, AllNaturals DEF N
<1>4. QED
  BY <1>3 DEF IsPart

LEMMA HandledRequestIsLast ==
  ASSUME NEW q, NEW rate, NEW time, NEW acc \in Accumulator, NEW id \in Nat,
         ~HandleRequest(q, rate, time, acc, id).stopped
  PROVE  LET bs == HandleRequest(q, rate, time, acc, id).batches
         IN  /\ bs # <<>> /\ bs[Len(bs)] = id
             /\ HandleRequest(q, rate, time, acc, id).prevShareRate = CalcBatch(q, id - 1, id).shareRate
<1> DEFINE batch == CalcBatch(q, id - 1, id)
           eth == EtherOf(batch, rate)
           n == Len(acc.batches)
           handled == [[acc EXCEPT !.remainingEthBudget = @ - eth] EXCEPT !.prevShareRate = batch.shareRate]
           after == HandleRequest(q, rate, time, acc, id)
<1>1. acc.batches \in Seq(Nat) /\ n \in Nat
  BY DEF Accumulator
<1>2. \/ n # 0 /\ after = [handled EXCEPT !.batches[n] = id]
      \/ after = [handled EXCEPT !.batches = Append(@, id)]
      \/ after.stopped
  <2> HIDE DEF batch, eth
  <2> QED BY DEF HandleRequest, batch, eth, Accumulator
<1> HIDE DEF batch, eth, after
<1>3. CASE n # 0 /\ after = [handled EXCEPT !.batches[n] = id]
  <2> DEFINE bs == [acc.batches EXCEPT ![n] = id]
  <2>1. after.batches = bs /\ after.prevShareRate = batch.shareRate
    BY <1>3 DEF Accumulator
  <2>2. n \in 1..n /\ bs \in Seq(Nat) /\ Len(bs) = n
    <3>1. n \in 1..n
      BY <1>1, <1>3
    <3>2. QED
      BY <1>1, <3>1, ExceptSeq
  <2>3. bs[n] = id
    BY <1>1, <2>2
  <2> HIDE DEF bs
  <2>4. bs # <<>>
    BY <1>3, <2>2, EmptySeq
  <2>5. QED
    BY <2>1, <2>2, <2>3, <2>4 DEF after, batch
<1>4. CASE after = [handled EXCEPT !.batches = Append(@, id)]
  <2> DEFINE bs == Append(acc.batches, id)
  <2>1. after.batches = bs /\ after.prevShareRate = batch.shareRate
    BY <1>4 DEF Accumulator
  <2>2. bs \in Seq(Nat) /\ Len(bs) = n + 1 /\ bs[n + 1] = id
    BY <1>1, AppendProperties
  <2> HIDE DEF bs
  <2>3. bs # <<>>
    BY <1>1, <2>2, EmptySeq
  <2>4. QED
    BY <2>1, <2>2, <2>3 DEF after, batch
<1>5. QED
  BY <1>2, <1>3, <1>4 DEF after

LEMMA CallContinues ==
  ASSUME NEW q, NEW last, NEW id, NEW rate, NEW time, NEW before, NEW acc, NEW state,
         id \in Nat, before \in Accumulator, acc \in Accumulator,
         acc = HandleRequest(q, rate, time, before, id), ~acc.stopped, state.batches = acc.batches, state.remainingEthBudget = acc.remainingEthBudget
  PROVE  LastHandled(last, state) = id /\ StartOfCall(q, last, state) = acc
<1>1. /\ acc.batches # <<>> /\ acc.batches[Len(acc.batches)] = id
      /\ acc.prevShareRate = CalcBatch(q, id - 1, id).shareRate
  BY HandledRequestIsLast
<1>2. LastHandled(last, state) = id
  BY <1>1 DEF LastHandled
<1>3. StartOfCall(q, last, state) =
        [remainingEthBudget |-> acc.remainingEthBudget, batches |-> acc.batches,
         prevShareRate |-> acc.prevShareRate, stopped |-> FALSE]
  BY <1>1, <1>2 DEF StartOfCall
<1>4. acc = [remainingEthBudget |-> acc.remainingEthBudget, batches |-> acc.batches,
             prevShareRate |-> acc.prevShareRate, stopped |-> acc.stopped]
  BY DEF Accumulator
<1>5. acc.stopped = FALSE
  BY DEF Accumulator
<1>6. QED
  BY <1>2, <1>3, <1>4, <1>5

(***************************************************************************)
(* A call, as the outcome of handling its requests.                        *)
(***************************************************************************)
Outcome(result, end, n) ==
  [remainingEthBudget |-> result.remainingEthBudget,
   finished           |-> result.stopped \/ end = n,
   batches            |-> result.batches]

CallOutcome(q, last, rate, time, perCall, state, base, prev, count) ==
  \E trace : /\ IsTrace(trace, q, rate, time, base, prev, count)
             /\ CalculateFinalizationBatches(q, last, rate, time, perCall, state)
                  = Outcome(trace[count], prev + count, Len(q))

LEMMA CallHasTrace ==
  ASSUME NEW q, NEW last, NEW rate, NEW time, NEW perCall, NEW state, NEW prev, NEW base, NEW count,
         IsQueue(q), Pools # {}, last \in Nat, rate \in Nat, time \in Int, perCall \in Nat,
         LastHandled(last, state) = prev, prev \in 0..Len(q),
         StartOfCall(q, last, state) = base, base \in Accumulator,
         count \in Nat, count = IF prev + perCall < Len(q) THEN perCall ELSE Len(q) - prev
  PROVE  CallOutcome(q, last, rate, time, perCall, state, base, prev, count)
<1>1. Len(q) \in Nat /\ prev \in Nat /\ prev + count <= Len(q)
  BY DEF IsQueue
<1>2. HasTrace(q, rate, time, base, prev, count)
  BY <1>1, CalculationHasTrace
<1>3. CalculateFinalizationBatches(q, last, rate, time, perCall, state)
        = Outcome(HandledFrom(q, rate, time, base, prev, count), prev + count, Len(q))
  BY DEF CalculateFinalizationBatches, HandledFrom, Outcome
<1>4. QED
  BY <1>2, <1>3 DEF HasTrace, CallOutcome

(***************************************************************************)
(* A request is worth a wei at the rates between those of two pools too.   *)
(***************************************************************************)
LEMMA RatesType ==
  ASSUME NEW rate \in Rates
  PROVE  rate \in Nat /\ \E pool \in Pools : ShareRate(pool) <= rate
<1>1. PICK p \in Pools, r \in Pools : rate = (ShareRate(p) + ShareRate(r)) \div 2
  BY DEF Rates
<1>2. ShareRate(p) \in Nat /\ ShareRate(r) \in Nat
  BY RateType
<1>3. rate \in Nat /\ (ShareRate(p) <= rate \/ ShareRate(r) <= rate)
  BY <1>1, <1>2
<1>4. QED
  BY <1>3

LEMMA RequestHasWorth ==
  ASSUME NEW q, IsQueue(q), NEW i \in 0..Len(q), NEW j \in 0..Len(q), i < j, NEW rate \in Rates
  PROVE  EtherOf(CalcBatch(q, i, j), rate) > 0
<1> DEFINE b == CalcBatch(q, i, j)
           shares == b.shares
<1>1. PICK pool \in Pools : ShareRate(pool) <= rate
  BY RatesType
<1>2. /\ b = Batch(b.stETH, shares)
      /\ b.stETH \in Nat \ {0} /\ shares \in Nat
      /\ shares * ShareRate(pool) >= E27_PRECISION_BASE
  BY BatchFacts
<1>3. rate \in Nat
  BY RatesType
<1>4. shares * rate >= E27_PRECISION_BASE
  <2> DEFINE low == ShareRate(pool)
  <2>1. low \in Nat /\ low <= rate /\ shares \in Nat /\ shares * low >= E27_PRECISION_BASE
    BY <1>1, <1>2, RateType
  <2> HIDE DEF low, shares
  <2>2. low * shares <= rate * shares
    BY <1>3, <2>1, MultipleMonotone
  <2>3. low * shares = shares * low /\ rate * shares = shares * rate
        /\ shares * low \in Int /\ shares * rate \in Int
    BY <1>3, <2>1
  <2>4. QED
    BY <2>1, <2>2, <2>3, WithdrawalMathAssumption
<1>5. EtherOf(Batch(b.stETH, shares), rate) > 0
  <2> HIDE DEF b, shares
  <2> QED BY <1>2, <1>3, <1>4, BatchIsWorthAWei
<1>6. QED
  BY <1>2, <1>5

(***************************************************************************)
(* A call whose first request costs more than is left stops at once.       *)
(***************************************************************************)
LEMMA SpentCallStops ==
  ASSUME NEW q, NEW rate, NEW time, NEW acc \in Accumulator, NEW prev, NEW count \in Nat \ {0},
         NEW trace, IsTrace(trace, q, rate, time, acc, prev, count),
         EtherOf(CalcBatch(q, (prev + 1) - 1, prev + 1), rate) > acc.remainingEthBudget
  PROVE  trace[count] = [acc EXCEPT !.stopped = TRUE]
<1> DEFINE end == [acc EXCEPT !.stopped = TRUE]
           N == {k \in Nat : k + 1 <= count => trace[k + 1] = end}
<1>1. end.stopped /\ [end EXCEPT !.stopped = TRUE] = end
  BY DEF Accumulator
<1> HIDE DEF end
<1>2. 0 \in N
  <2>1. 1 \in 1..count /\ 1 - 1 = 0
    OBVIOUS
  <2>2. trace[1] = HandleRequest(q, rate, time, acc, prev + 1)
    BY <2>1 DEF IsTrace
  <2>3. HandleRequest(q, rate, time, acc, prev + 1) = end
    BY DEF HandleRequest, end
  <2>4. QED
    BY <2>2, <2>3
<1>3. ASSUME NEW k \in N PROVE k + 1 \in N
  <2> SUFFICES ASSUME (k + 1) + 1 <= count PROVE trace[(k + 1) + 1] = end
    OBVIOUS
  <2>1. k \in Nat /\ k + 1 <= count /\ (k + 1) + 1 \in 1..count /\ ((k + 1) + 1) - 1 = k + 1
    OBVIOUS
  <2>2. trace[k + 1] = end
    BY <2>1
  <2>3. trace[(k + 1) + 1] = HandleRequest(q, rate, time, end, prev + ((k + 1) + 1))
    BY <2>1, <2>2 DEF IsTrace
  <2>4. HandleRequest(q, rate, time, end, prev + ((k + 1) + 1)) = [end EXCEPT !.stopped = TRUE]
    BY <1>1 DEF HandleRequest
  <2>5. QED
    BY <1>1, <2>3, <2>4
<1>4. N = Nat
  <2> HIDE DEF N
  <2> QED BY <1>2, <1>3, AllNaturals DEF N
<1>5. count - 1 \in Nat /\ (count - 1) + 1 = count
  OBVIOUS
<1>6. count - 1 \in N
  <2> HIDE DEF N
  <2> QED BY <1>4, <1>5
<1>7. QED
  BY <1>5, <1>6 DEF end

LEMMA SplitCalls ==
  ASSUME WQInv, NEW rate \in Rates, NEW budget \in Int, NEW perCall \in 1..MAX_REQUESTS
  PROVE  LET first == Calculated(rate, budget, perCall)
             rest  == CalculateFinalizationBatches(queue, lastFinalizedRequestId, rate, now,
                                                   MAX_REQUESTS, first)
             whole == Calculated(rate, budget, MAX_REQUESTS)
         IN  ~first.finished =>
               /\ rest = whole
               /\ first.remainingEthBudget = 0 =>
                    /\ whole.finished /\ whole.batches = first.batches
                    /\ whole.remainingEthBudget = first.remainingEthBudget
<1> DEFINE n == Len(queue)
           last == lastFinalizedRequestId
           start == StartCalculation(budget)
           base == StartOfCall(queue, last, start)
           first == Calculated(rate, budget, perCall)
           rest == CalculateFinalizationBatches(queue, last, rate, now, MAX_REQUESTS, first)
           whole == Calculated(rate, budget, MAX_REQUESTS)
<1> SUFFICES ASSUME ~first.finished
             PROVE  /\ rest = whole
                    /\ first.remainingEthBudget = 0 =>
                         /\ whole.finished /\ whole.batches = first.batches
                         /\ whole.remainingEthBudget = first.remainingEthBudget
  OBVIOUS
<1>0. rate \in Nat
  BY RatesType
<1>1. /\ IsQueue(queue) /\ Pools # {} /\ last \in Nat /\ n \in Nat /\ last \in 0..n /\ now \in Int
      /\ MAX_REQUESTS \in Nat /\ n <= MAX_REQUESTS /\ perCall \in Nat /\ perCall >= 1
  BY WithdrawalQueueAssumption DEF WQInv, TypeOK
<1>2. LastHandled(last, start) = last /\ base \in Accumulator
  BY EmptySeq DEF StartOfCall, StartCalculation, LastHandled, Accumulator
<1> HIDE DEF start, base
<1> DEFINE count == IF last + perCall < n THEN perCall ELSE n - last
<1>3. PICK one : /\ IsTrace(one, queue, rate, now, base, last, count)
                 /\ first = Outcome(one[count], last + count, n)
  <2>1. count \in Nat
    BY <1>1
  <2> HIDE DEF count, n
  <2>2. CallOutcome(queue, last, rate, now, perCall, start, base, last, count)
    BY <1>0, <1>1, <1>2, <2>1, CallHasTrace DEF count, n, base
  <2>3. first = CalculateFinalizationBatches(queue, last, rate, now, perCall, start)
    BY DEF Calculated, start
  <2> HIDE DEF first
  <2>4. QED
    BY <2>2, <2>3 DEF CallOutcome, n
<1> HIDE DEF first, rest, whole
<1>4. count = perCall /\ last + perCall < n /\ ~one[perCall].stopped
  <2>1. ~(one[count].stopped \/ last + count = n)
    BY <1>3 DEF Outcome
  <2>2. last + perCall < n
    BY <1>1, <2>1
  <2>3. count = perCall
    BY <2>2
  <2>4. QED
    BY <2>1, <2>2, <2>3
<1> HIDE DEF count
<1>5. IsTrace(one, queue, rate, now, base, last, perCall)
  BY <1>3, <1>4
<1> DEFINE acc == one[perCall]
           id == last + perCall
<1>6. LastHandled(last, first) = id /\ StartOfCall(queue, last, first) = acc /\ acc \in Accumulator
  <2>1. perCall \in 1..perCall /\ perCall \in 0..perCall /\ perCall - 1 \in 0..perCall
    BY <1>1
  <2>2. acc = HandleRequest(queue, rate, now, one[perCall - 1], id)
    BY <1>5, <2>1 DEF IsTrace
  <2>3. one[perCall - 1] \in Accumulator /\ acc \in Accumulator
    BY <1>5, <2>1 DEF IsTrace
  <2>4. first.batches = acc.batches /\ first.remainingEthBudget = acc.remainingEthBudget
    BY <1>3, <1>4 DEF Outcome
  <2>5. id \in Nat /\ ~acc.stopped
    BY <1>1, <1>4
  <2> HIDE DEF acc, id
  <2>6. QED
    BY <1>1, <2>2, <2>3, <2>4, <2>5, CallContinues, SMTT(30)
<1> DEFINE left == n - id
           all == n - last
<1>7. /\ left \in Nat /\ all \in Nat /\ perCall + left = all /\ id \in 0..n /\ id + left = n /\ last + all = n
      /\ ~(id + MAX_REQUESTS < n) /\ ~(last + MAX_REQUESTS < n)
  BY <1>1, <1>4
<1>8. PICK two : /\ IsTrace(two, queue, rate, now, acc, id, left)
                 /\ rest = Outcome(two[left], n, n)
  <2>1. left = IF id + MAX_REQUESTS < n THEN MAX_REQUESTS ELSE n - id
    BY <1>7
  <2> HIDE DEF left, acc, id, n
  <2>2. CallOutcome(queue, last, rate, now, MAX_REQUESTS, first, acc, id, left)
    BY <1>0, <1>1, <1>6, <1>7, <2>1, CallHasTrace DEF n
  <2>3. QED
    BY <1>7, <2>2 DEF rest, CallOutcome, n
<1>9. PICK three : /\ IsTrace(three, queue, rate, now, base, last, all)
                   /\ whole = Outcome(three[all], n, n)
  <2>1. all = IF last + MAX_REQUESTS < n THEN MAX_REQUESTS ELSE n - last
    BY <1>7
  <2> HIDE DEF all, n
  <2>2. CallOutcome(queue, last, rate, now, MAX_REQUESTS, start, base, last, all)
    BY <1>0, <1>1, <1>2, <1>7, <2>1, CallHasTrace DEF n, base
  <2>3. whole = CalculateFinalizationBatches(queue, last, rate, now, MAX_REQUESTS, start)
    BY DEF whole, Calculated, start
  <2>4. QED
    BY <1>7, <2>2, <2>3 DEF CallOutcome, n
<1>10. acc = three[perCall]
  <2>1. base = three[0] /\ last = last + 0
    BY <1>1, <1>9 DEF IsTrace
  <2>2. 0 + perCall <= all /\ perCall \in 0..perCall /\ 0 + perCall = perCall
    BY <1>1, <1>7
  <2> HIDE DEF acc, all
  <2>3. IsPart(one, three, 0, perCall)
    BY <1>1, <1>5, <1>7, <1>9, <2>1, <2>2, TracesAgree
  <2>4. QED
    BY <2>2, <2>3 DEF acc, IsPart
<1>11. two[left] = three[all]
  <2>1. perCall + left <= all /\ left \in 0..left
    BY <1>1, <1>7
  <2> HIDE DEF left, all
  <2>3. IsPart(two, three, perCall, left)
    BY <1>1, <1>7, <1>8, <1>9, <1>10, <2>1, TracesAgree
  <2>4. QED
    BY <1>7, <2>1, <2>3 DEF IsPart
<1>12. rest = whole
  BY <1>8, <1>9, <1>11
<1>13. ASSUME first.remainingEthBudget = 0
       PROVE  /\ rest.finished /\ rest.batches = first.batches
              /\ rest.remainingEthBudget = first.remainingEthBudget
  <2>1. first = [remainingEthBudget |-> acc.remainingEthBudget, finished |-> FALSE,
                 batches |-> acc.batches]
    BY <1>3, <1>4 DEF Outcome
  <2>2. left \in Nat \ {0} /\ id \in 0..Len(queue) /\ id + 1 \in 0..Len(queue) /\ id < id + 1
        /\ (id + 1) - 1 = id
    <3>1. perCall \in Nat /\ last \in Nat /\ n \in Nat /\ last + perCall < n
      BY <1>1, <1>4
    <3> HIDE DEF n, last
    <3>2. id \in Nat /\ id < n /\ left \in Nat \ {0} /\ id + 1 <= n /\ (id + 1) - 1 = id
      BY <3>1
    <3> HIDE DEF id, left
    <3>3. QED
      BY <3>1, <3>2 DEF n
  <2> HIDE DEF acc, id, left
  <2>3. acc.remainingEthBudget = 0
    BY <1>13, <2>1
  <2>4. EtherOf(CalcBatch(queue, (id + 1) - 1, id + 1), rate) > acc.remainingEthBudget
    <3>1. EtherOf(CalcBatch(queue, id, id + 1), rate) > 0
      BY <1>1, <2>2, RequestHasWorth
    <3>2. QED
      BY <2>2, <2>3, <3>1
  <2>5. two[left] = [acc EXCEPT !.stopped = TRUE]
    BY <1>6, <1>8, <2>2, <2>4, SpentCallStops
  <2>6. QED
    <3>1. rest = [remainingEthBudget |-> acc.remainingEthBudget, finished |-> TRUE,
                  batches |-> acc.batches]
      BY <1>6, <1>8, <2>5 DEF Outcome, Accumulator
    <3>2. QED
      BY <2>1, <3>1
<1>14. QED
  BY <1>12, <1>13

(***************************************************************************)
(* The budgets are integers: a sum of claims is one.                       *)
(***************************************************************************)
LEMMA ClaimsType ==
  ASSUME WQInv, NEW rate \in Nat, NEW lastId \in 0..Len(queue)
  PROVE  ClaimsAt(rate, lastId) \in Int
<1> DEFINE S == (lastFinalizedRequestId + 1)..lastId
           f == [id \in S |-> ClaimAt(rate, id)]
           body(g) == [s \in SUBSET S |-> IF s = {} THEN 0
                                          ELSE ClaimAt(rate, Choice(s)) + g[s \ {Choice(s)}]]
           iter == CHOOSE g : g = body(g)
<1>1. IsQueue(queue) /\ Len(queue) \in Nat /\ lastFinalizedRequestId \in 0..Len(queue)
  BY DEF WQInv, TypeOK
<1>2. ASSUME NEW id \in S PROVE ClaimAt(rate, id) \in Int
  <2> DEFINE before == id - 1
  <2>1. before \in 0..Len(queue) /\ id \in 0..Len(queue) /\ before < id
    BY <1>1
  <2> HIDE DEF before
  <2>2. EtherOf(CalcBatch(queue, before, id), rate)
          \in 0..(CumulativeStETH(queue, id) - CumulativeStETH(queue, before))
    BY <1>1, <2>1, WorthOfBatch
  <2>3. QED
    BY <2>2 DEF ClaimAt, before
<1>3. Integral(f, S)
  <2>1. IsFiniteSet(S)
    BY <1>1, FS_Interval
  <2>2. QED
    BY <1>2, <2>1 DEF Integral
<1>4. PICK g \in [SUBSET S -> Int] : Adds(g, f, S)
  <2> HIDE DEF S, f
  <2> QED BY <1>3, SumExists
<1>5. \A s \in SUBSET S : s # {} => Choice(s) \in S
  BY DEF Choice
<1>6. g = body(g)
  <2>1. \A s \in SUBSET S : g[s] = body(g)[s]
    BY <1>4, <1>5 DEF Adds
  <2>2. QED
    BY <2>1
<1>7. iter = body(iter)
  <2> HIDE DEF body
  <2> QED BY <1>6
<1>8. Adds(iter, f, S)
  <2> SUFFICES ASSUME NEW s \in SUBSET S
               PROVE  iter[s] = IF s = {} THEN 0 ELSE f[Choice(s)] + iter[s \ {Choice(s)}]
    BY DEF Adds
  <2> HIDE DEF iter
  <2>1. iter[s] = body(iter)[s]
    BY <1>7
  <2>2. QED
    BY <1>5, <2>1
<1>9. ClaimsAt(rate, lastId) = iter[S]
  BY DEF ClaimsAt, MapThenSumSet, MapThenFoldSet, Choice
<1>10. iter[S] = SumFunctionOnSet(f, S) /\ SumFunctionOnSet(f, S) \in Int
  <2> HIDE DEF iter, f, S
  <2> QED BY <1>3, <1>8, SumIsUnique, SumType
<1>11. QED
  <2> HIDE DEF iter
  <2> QED BY <1>9, <1>10

(***************************************************************************)
(* The calculation can be split over calls: handling perCall requests and  *)
(* continuing from the state returned gives the batches, the budget and    *)
(* the flag of one call over all of them, at every rate and budget         *)
(* (calculateFinalizationBatches, l. 212-213); and where the code refuses  *)
(* to continue, because the budget is used up to the last wei (l. 221),    *)
(* the state returned has the batches of that one call already.            *)
(***************************************************************************)
THEOREM CalculationCanBeSplit == Spec => []CalculationIgnoresCallSize
<1>1. WQInv => CalculationIgnoresCallSize
  <2> SUFFICES ASSUME WQInv, NEW rate \in Rates, NEW budget \in UsefulBudgets(rate),
                      NEW perCall \in 1..MAX_REQUESTS
               PROVE  LET first == Calculated(rate, budget, perCall)
                          rest  == CalculateFinalizationBatches(queue, lastFinalizedRequestId, rate, now,
                                                                MAX_REQUESTS, first)
                          whole == Calculated(rate, budget, MAX_REQUESTS)
                      IN  ~first.finished =>
                            IF CanCalculate(first) THEN rest = whole
                            ELSE /\ whole.finished /\ whole.batches = first.batches
                                 /\ whole.remainingEthBudget = first.remainingEthBudget
    BY DEF CalculationIgnoresCallSize
  <2>1. budget \in Int
    <3>1. PICK id \in lastFinalizedRequestId + 1 .. lastRequestId, d \in {-1, 0, 1} :
            budget = ClaimsAt(rate, id) + d
      BY DEF UsefulBudgets
    <3>2. id \in 0..Len(queue)
      BY DEF lastRequestId, WQInv, TypeOK
    <3>3. ClaimsAt(rate, id) \in Int
      BY <3>2, RatesType, ClaimsType
    <3>4. QED
      BY <3>1, <3>3
  <2>2. QED
    BY <2>1, SplitCalls DEF CanCalculate
<1>2. QED
  BY <1>1, InvHolds, PTL
===============================================================================

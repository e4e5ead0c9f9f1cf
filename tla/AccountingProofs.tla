--------------------------- MODULE AccountingProofs ---------------------------
(***************************************************************************)
(* Theorems about Accounting, for any amounts, fees, limits and number of  *)
(* reports.                                                                *)
(***************************************************************************)
EXTENDS Accounting, DataLemmas

(***************************************************************************)
(* The shares of all accounts.                                             *)
(***************************************************************************)
LEMMA SumOfAccounts ==
  ASSUME NEW s, DOMAIN s = Accounts, \A a \in Accounts : s[a] \in Int
  PROVE  SumFunction(s) = s["dead"] + s["staker"] + s["queue"] + s["burner"]
                            + s["modules"] + s["treasury"]
<1> DEFINE Sum(S) == SumFunctionOnSet(s, S)
<1>1. ASSUME NEW S \in SUBSET Accounts, IsFiniteSet(S), NEW a \in Accounts, a \notin S
      PROVE  Sum(S \union {a}) = s[a] + Sum(S) /\ IsFiniteSet(S \union {a})
  BY <1>1, SumAddsElement, FS_AddElement
<1>2. Sum({}) = 0 /\ IsFiniteSet({})
  BY SumEmpty, FS_EmptySet
<1> HIDE DEF Sum
<1>3. Sum({"dead"}) = s["dead"] /\ IsFiniteSet({"dead"})
  <2>1. {} \union {"dead"} = {"dead"} /\ "dead" \in Accounts
    BY DEF Accounts
  <2>2. Sum({} \union {"dead"}) = s["dead"] + Sum({}) /\ IsFiniteSet({} \union {"dead"})
    BY <1>1, <1>2, <2>1
  <2>3. QED
    BY <1>2, <2>1, <2>2
<1> DEFINE S2 == {"dead", "staker"}
           S3 == {"dead", "staker", "queue"}
           S4 == {"dead", "staker", "queue", "burner"}
           S5 == {"dead", "staker", "queue", "burner", "modules"}
<1>4. Sum(S2) = s["staker"] + s["dead"] /\ IsFiniteSet(S2)
  <2>1. {"dead"} \union {"staker"} = S2 /\ {"dead"} \in SUBSET Accounts /\ "staker" \in Accounts
        /\ "staker" \notin {"dead"}
    BY DEF Accounts
  <2> HIDE DEF S2
  <2>2. QED
    BY <1>1, <1>3, <2>1
<1>5. Sum(S3) = s["queue"] + Sum(S2) /\ IsFiniteSet(S3)
  <2>1. S2 \union {"queue"} = S3 /\ S2 \in SUBSET Accounts /\ "queue" \in Accounts /\ "queue" \notin S2
    BY DEF Accounts
  <2> HIDE DEF S2, S3
  <2>2. QED
    BY <1>1, <1>4, <2>1
<1>6. Sum(S4) = s["burner"] + Sum(S3) /\ IsFiniteSet(S4)
  <2>1. S3 \union {"burner"} = S4 /\ S3 \in SUBSET Accounts /\ "burner" \in Accounts /\ "burner" \notin S3
    BY DEF Accounts
  <2> HIDE DEF S3, S4
  <2>2. QED
    BY <1>1, <1>5, <2>1
<1>7. Sum(S5) = s["modules"] + Sum(S4) /\ IsFiniteSet(S5)
  <2>1. S4 \union {"modules"} = S5 /\ S4 \in SUBSET Accounts /\ "modules" \in Accounts /\ "modules" \notin S4
    BY DEF Accounts
  <2> HIDE DEF S4, S5
  <2>2. QED
    BY <1>1, <1>6, <2>1
<1>8. Sum(Accounts) = s["treasury"] + Sum(S5)
  <2>1. S5 \union {"treasury"} = Accounts /\ S5 \in SUBSET Accounts /\ "treasury" \in Accounts
        /\ "treasury" \notin S5
    BY DEF Accounts
  <2> HIDE DEF S5
  <2>2. QED
    BY <1>1, <1>7, <2>1
<1>9. SumFunction(s) = Sum(Accounts)
  BY DEF SumFunction, Sum
<1>10. /\ s["dead"] \in Int /\ s["staker"] \in Int /\ s["queue"] \in Int
       /\ s["burner"] \in Int /\ s["modules"] \in Int /\ s["treasury"] \in Int
  BY DEF Accounts
<1>11. QED
  <2> HIDE DEF S2, S3, S4, S5
  <2> QED BY <1>4, <1>5, <1>6, <1>7, <1>8, <1>9, <1>10

------------------------------------------------------------------------------

(***************************************************************************)
(* The cumulative values of the queue never fall, so that every part of it *)
(* is a batch of some stETH and shares.                                    *)
(***************************************************************************)
IsQueue(q) ==
  /\ q \in Seq(Request)
  /\ \A i, j \in 0..Len(q) : i <= j =>
       /\ CumulativeStETH(q, i) <= CumulativeStETH(q, j)
       /\ CumulativeShares(q, i) <= CumulativeShares(q, j)

LEMMA CumulativeType ==
  ASSUME NEW q \in Seq(Request), NEW id \in 0..Len(q)
  PROVE  CumulativeStETH(q, id) \in Nat /\ CumulativeShares(q, id) \in Nat
<1>1. id # 0 => q[id] \in Request
  OBVIOUS
<1>2. QED
  BY <1>1 DEF CumulativeStETH, CumulativeShares, Request

LEMMA BatchType ==
  ASSUME NEW q, IsQueue(q), NEW i \in 0..Len(q), NEW j \in 0..Len(q), i <= j, NEW rate \in Nat
  PROVE  /\ CalcBatch(q, i, j).shares = CumulativeShares(q, j) - CumulativeShares(q, i)
         /\ CalcBatch(q, i, j).shares \in Nat
         /\ EtherOf(CalcBatch(q, i, j), rate) \in Nat
<1> DEFINE b == CalcBatch(q, i, j)
<1>1. /\ CumulativeStETH(q, i) \in Nat /\ CumulativeShares(q, i) \in Nat
      /\ CumulativeStETH(q, j) \in Nat /\ CumulativeShares(q, j) \in Nat
      /\ CumulativeStETH(q, i) <= CumulativeStETH(q, j)
      /\ CumulativeShares(q, i) <= CumulativeShares(q, j)
  BY CumulativeType DEF IsQueue
<1>2. /\ b.shares = CumulativeShares(q, j) - CumulativeShares(q, i)
      /\ b.stETH = CumulativeStETH(q, j) - CumulativeStETH(q, i)
  BY DEF CalcBatch
<1> HIDE DEF b
<1>3. b.shares \in Nat /\ b.stETH \in Nat
  BY <1>1, <1>2
<1>4. (b.shares * rate) \div E27_PRECISION_BASE \in Nat
  BY <1>3, WithdrawalMathAssumption, Division
<1>5. EtherOf(b, rate) \in Nat
  BY <1>3, <1>4 DEF EtherOf
<1>6. QED
  BY <1>2, <1>3, <1>5 DEF b

LEMMA QueueAppends ==
  ASSUME NEW q, IsQueue(q), NEW r \in Request, NEW amount \in Nat, NEW shrs \in Nat,
         r.cumulativeStETH = CumulativeStETH(q, Len(q)) + amount,
         r.cumulativeShares = CumulativeShares(q, Len(q)) + shrs
  PROVE  /\ IsQueue(Append(q, r)) /\ Len(Append(q, r)) = Len(q) + 1
         /\ \A id \in 0..Len(q) : CumulativeShares(Append(q, r), id) = CumulativeShares(q, id)
         /\ CumulativeShares(Append(q, r), Len(q) + 1) = CumulativeShares(q, Len(q)) + shrs
<1> DEFINE longer == Append(q, r)
           n == Len(q)
<1>1. q \in Seq(Request) /\ n \in Nat
  BY DEF IsQueue
<1>2. /\ longer \in Seq(Request) /\ Len(longer) = n + 1
      /\ \A id \in 1..n : longer[id] = q[id]
      /\ longer[n + 1] = r
  BY <1>1, AppendProperties
<1> HIDE DEF longer
<1>3. \A id \in 0..n : /\ CumulativeStETH(longer, id) = CumulativeStETH(q, id)
                       /\ CumulativeShares(longer, id) = CumulativeShares(q, id)
  <2> SUFFICES ASSUME NEW id \in 0..n
               PROVE  /\ CumulativeStETH(longer, id) = CumulativeStETH(q, id)
                      /\ CumulativeShares(longer, id) = CumulativeShares(q, id)
    OBVIOUS
  <2>1. id = 0 \/ id \in 1..n
    BY <1>1
  <2>2. QED
    BY <1>2, <2>1 DEF CumulativeStETH, CumulativeShares
<1>4. /\ CumulativeStETH(longer, n + 1) = CumulativeStETH(q, n) + amount
      /\ CumulativeShares(longer, n + 1) = CumulativeShares(q, n) + shrs
  BY <1>1, <1>2 DEF CumulativeStETH, CumulativeShares
<1>5. ASSUME NEW i \in 0..(n + 1), NEW j \in 0..(n + 1), i <= j
      PROVE  /\ CumulativeStETH(longer, i) <= CumulativeStETH(longer, j)
             /\ CumulativeShares(longer, i) <= CumulativeShares(longer, j)
  <2>1. CASE j \in 0..n
    <3>1. i \in 0..n
      BY <1>1, <1>5, <2>1
    <3>2. QED
      BY <1>3, <1>5, <2>1, <3>1 DEF IsQueue
  <2>2. CASE j = n + 1 /\ i \in 0..n
    <3>1. /\ CumulativeStETH(q, i) <= CumulativeStETH(q, n)
          /\ CumulativeShares(q, i) <= CumulativeShares(q, n)
      BY <1>1, <2>2 DEF IsQueue
    <3>2. /\ CumulativeStETH(q, i) \in Nat /\ CumulativeStETH(q, n) \in Nat
          /\ CumulativeShares(q, i) \in Nat /\ CumulativeShares(q, n) \in Nat
      BY <1>1, <2>2, CumulativeType
    <3>3. /\ CumulativeStETH(longer, i) = CumulativeStETH(q, i)
          /\ CumulativeShares(longer, i) = CumulativeShares(q, i)
      BY <1>3, <2>2
    <3>4. QED
      BY <1>4, <2>2, <3>1, <3>2, <3>3
  <2>3. CASE j = n + 1 /\ i = n + 1
    <3>1. longer[n + 1] \in Request
      BY <1>2
    <3>2. r.cumulativeStETH \in Nat /\ r.cumulativeShares \in Nat /\ n + 1 # 0
      BY <1>1 DEF Request
    <3>3. QED
      BY <1>2, <2>3, <3>2 DEF CumulativeStETH, CumulativeShares
  <2>4. QED
    BY <1>1, <1>5, <2>1, <2>2, <2>3
<1>6. IsQueue(longer)
  BY <1>1, <1>2, <1>5 DEF IsQueue
<1>7. QED
  BY <1>2, <1>3, <1>4, <1>6 DEF longer

------------------------------------------------------------------------------

(***************************************************************************)
(* The calculation of the batches, at any rate, is a fold over             *)
(* accumulators that hold a sequence of requests.  The rate of a request   *)
(* without shares is no number, but nothing depends on what it is.         *)
(***************************************************************************)
RatesOf(q) == {0} \union {CalcBatch(q, id - 1, id).shareRate : id \in 1..Len(q)}

Accumulator(q) ==
  [remainingEthBudget : Int, batches : Seq(Nat), prevShareRate : RatesOf(q), stopped : BOOLEAN]

LEMMA HandleRequestType ==
  ASSUME NEW q, IsQueue(q), NEW rate \in Nat, NEW time,
         NEW acc \in Accumulator(q), NEW id \in 1..Len(q)
  PROVE  HandleRequest(q, rate, time, acc, id) \in Accumulator(q)
<1> DEFINE batch == CalcBatch(q, id - 1, id)
           eth == EtherOf(batch, rate)
<1>1. id - 1 \in 0..Len(q) /\ id \in 0..Len(q) /\ id - 1 <= id /\ id \in Nat
  BY DEF IsQueue
<1>2. eth \in Nat
  BY <1>1, BatchType
<1>3. batch.shareRate \in RatesOf(q)
  BY DEF RatesOf
<1>4. acc.remainingEthBudget \in Int /\ acc.batches \in Seq(Nat) /\ acc.stopped \in BOOLEAN
  BY DEF Accumulator
<1>5. acc.remainingEthBudget - eth \in Int /\ Append(acc.batches, id) \in Seq(Nat)
      /\ [acc.batches EXCEPT ![Len(acc.batches)] = id] \in Seq(Nat)
  <2> HIDE DEF eth
  <2>1. Append(acc.batches, id) \in Seq(Nat)
    BY <1>1, <1>4, AppendProperties
  <2>2. [acc.batches EXCEPT ![Len(acc.batches)] = id] \in Seq(Nat)
    <3> DEFINE bs == acc.batches
    <3>1. bs \in Seq(Nat) /\ bs \in [1..Len(bs) -> Nat] /\ Len(bs) \in Nat
      BY <1>4, LenProperties
    <3>2. CASE Len(bs) = 0
      <4>1. [bs EXCEPT ![Len(bs)] = id] = bs
        BY <3>1, <3>2
      <4>2. QED
        BY <3>1, <4>1
    <3>3. CASE Len(bs) # 0
      <4>1. Len(bs) \in 1..Len(bs)
        BY <3>1, <3>3
      <4> HIDE DEF bs
      <4>2. [bs EXCEPT ![Len(bs)] = id] \in Seq(Nat)
        BY <1>1, <3>1, <4>1, ExceptSeq
      <4>3. QED
        BY <4>2 DEF bs
    <3>4. QED
      BY <3>2, <3>3
  <2>3. QED
    BY <1>2, <1>4, <2>1, <2>2
<1>6. HandleRequest(q, rate, time, acc, id) \in
        {[acc EXCEPT !.stopped = TRUE],
         [[[acc EXCEPT !.remainingEthBudget = @ - eth] EXCEPT !.prevShareRate = batch.shareRate]
            EXCEPT !.batches[Len(acc.batches)] = id],
         [[acc EXCEPT !.remainingEthBudget = @ - eth] EXCEPT !.stopped = TRUE],
         [[[acc EXCEPT !.remainingEthBudget = @ - eth] EXCEPT !.prevShareRate = batch.shareRate]
            EXCEPT !.batches = Append(@, id)]}
  <2> HIDE DEF eth, batch
  <2> QED BY DEF HandleRequest, eth, batch
<1>7. QED
  <2> HIDE DEF eth, batch
  <2> QED BY <1>3, <1>5, <1>6, ZenonT(30) DEF Accumulator

Handling(q, rate, time, prev, count) ==
  [pair \in (1..count) \X Accumulator(q) |-> HandleRequest(q, rate, time, pair[2], prev + pair[1])]

HandledFrom(q, rate, time, base, prev, count) ==
  FoldLeft(LAMBDA acc, id : HandleRequest(q, rate, time, acc, id), base,
           [k \in 1..count |-> prev + k])

LEMMA CalculationType ==
  ASSUME NEW q, IsQueue(q), NEW rate \in Nat, NEW time, NEW base \in Accumulator(q),
         NEW prev \in Nat, NEW count \in Nat, prev + count <= Len(q)
  PROVE  HandledFrom(q, rate, time, base, prev, count) \in Accumulator(q)
<1> DEFINE V == Accumulator(q)
           S == 1..count
           F == Handling(q, rate, time, prev, count)
           H(acc, k) == HandleRequest(q, rate, time, acc, prev + k)
           body(h) == [s \in SUBSET S |-> IF s = {} THEN base
                                          ELSE H(h[s \ {Max(s)}], Max(s))]
<1>1. F \in [S \X V -> V] /\ \A k \in S, acc \in V : F[<<k, acc>>] = H(acc, k)
  <2>1. \A pair \in S \X V : H(pair[2], pair[1]) \in V
    <3> SUFFICES ASSUME NEW pair \in S \X V PROVE H(pair[2], pair[1]) \in V
      OBVIOUS
    <3>1. pair[2] \in V /\ pair[1] \in S
      OBVIOUS
    <3>2. prev + pair[1] \in 1..Len(q)
      BY <3>1 DEF IsQueue
    <3>3. QED
      BY <3>1, <3>2, HandleRequestType
  <2>2. F = [pair \in S \X V |-> H(pair[2], pair[1])]
    BY DEF Handling
  <2> HIDE DEF F, V, S, H
  <2>3. QED
    BY <2>1, <2>2
<1>2. base \in V
  OBVIOUS
<1> HIDE DEF V, F
<1>3. PICK g : FoldsWith(g, count, V, base, F)
  BY <1>1, <1>2, FoldExists
<1>4. \A s \in SUBSET S : s # {} => Max(s) \in S
  BY HasGreatest
<1> HIDE DEF H
<1>5. g = body(g)
  <2>1. ASSUME NEW s \in SUBSET S PROVE g[s] = body(g)[s]
    <3>1. CASE s = {}
      BY <1>3, <3>1 DEF FoldsWith
    <3>2. CASE s # {}
      <4>1. s \ {Max(s)} \in SUBSET S
        OBVIOUS
      <4>2. g[s \ {Max(s)}] \in V /\ g[s] = F[<<Max(s), g[s \ {Max(s)}]>>]
        BY <1>3, <3>2, <4>1 DEF FoldsWith
      <4>3. g[s] = H(g[s \ {Max(s)}], Max(s))
        BY <1>1, <1>4, <3>2, <4>2
      <4>4. QED
        BY <3>2, <4>3
    <3>3. QED
      BY <3>1, <3>2
  <2>2. g = [s \in SUBSET S |-> g[s]]
    BY <1>3 DEF FoldsWith
  <2>3. body(g) = [s \in SUBSET S |-> body(g)[s]]
    OBVIOUS
  <2> HIDE DEF body
  <2>4. QED
    BY <2>1, <2>2, <2>3
<1> DEFINE iter == CHOOSE h : h = body(h)
<1>6. iter = body(iter)
  <2> HIDE DEF body
  <2> QED BY <1>5
<1>7. HandledFrom(q, rate, time, base, prev, count) = iter[S]
  <2> DEFINE seq == [k \in S |-> prev + k]
             other(h) == [s \in SUBSET (DOMAIN seq) |->
                            IF s = {} THEN base
                            ELSE HandleRequest(q, rate, time, h[s \ {Max(s)}], seq[Max(s)])]
  <2>1. HandledFrom(q, rate, time, base, prev, count) = (CHOOSE h : h = other(h))[DOMAIN seq]
    BY DEF HandledFrom, FoldLeft, MapThenFoldSet
  <2>2. DOMAIN seq = S /\ \A k \in S : seq[k] = prev + k
    OBVIOUS
  <2>3. ASSUME NEW h PROVE other(h) = body(h)
    <3>1. \A s \in SUBSET S : s # {} => seq[Max(s)] = prev + Max(s)
      BY <1>4, <2>2
    <3> HIDE DEF seq
    <3>2. \A s \in SUBSET S : other(h)[s] = body(h)[s]
      BY <2>2, <3>1 DEF H
    <3>3. other(h) = [s \in SUBSET S |-> other(h)[s]] /\ body(h) = [s \in SUBSET S |-> body(h)[s]]
      BY <2>2
    <3> HIDE DEF other, body
    <3>4. QED
      BY <3>2, <3>3
  <2> HIDE DEF other, body, seq
  <2>4. QED
    BY <2>1, <2>2, <2>3
<1> HIDE DEF iter
<1>8. iter[{}] = base
  BY <1>6
<1>9. \A s \in SUBSET S : s # {} /\ iter[s \ {Max(s)}] \in V =>
         iter[s] = F[<<Max(s), iter[s \ {Max(s)}]>>]
  <2> SUFFICES ASSUME NEW s \in SUBSET S, s # {}, iter[s \ {Max(s)}] \in V
               PROVE  iter[s] = F[<<Max(s), iter[s \ {Max(s)}]>>]
    OBVIOUS
  <2>1. iter[s] = H(iter[s \ {Max(s)}], Max(s))
    BY <1>6
  <2>2. QED
    BY <1>1, <1>4, <2>1
<1> HIDE DEF body
<1>10. IsFold(iter, count, V, base, F)
  BY <1>8, <1>9 DEF IsFold
<1>11. HasFoldTrace(count, V, base, F, iter[1..count])
  BY <1>1, <1>2, <1>10, FoldHasTrace
<1>12. QED
  BY <1>7, <1>11 DEF V, HasFoldTrace, FoldTrace

LEMMA CalculatedBatchesType ==
  ASSUME NEW q, IsQueue(q), NEW rate \in Nat, NEW time, NEW perCall \in Nat,
         NEW last \in 0..Len(q), NEW budget \in Int
  PROVE  CalculateFinalizationBatches(q, last, rate, time, perCall,
                                      StartCalculation(budget)).batches \in Seq(Nat)
<1> DEFINE count == IF last + perCall < Len(q) THEN perCall ELSE Len(q) - last
           base == StartOfCall(q, last, StartCalculation(budget))
           handled == HandledFrom(q, rate, time, base, last, count)
<1>1. count \in Nat /\ last \in Nat /\ last + count <= Len(q)
  BY DEF IsQueue
<1>2. base \in Accumulator(q) /\ LastHandled(last, StartCalculation(budget)) = last
  BY EmptySeq DEF StartOfCall, StartCalculation, LastHandled, Accumulator, RatesOf
<1>3. handled \in Accumulator(q)
  <2> HIDE DEF count, base
  <2> QED BY <1>1, <1>2, CalculationType
<1>4. CalculateFinalizationBatches(q, last, rate, time, perCall, StartCalculation(budget)).batches
        = handled.batches
  BY <1>2 DEF CalculateFinalizationBatches, HandledFrom
<1>5. QED
  <2> HIDE DEF handled
  <2> QED BY <1>3, <1>4 DEF Accumulator

------------------------------------------------------------------------------

(***************************************************************************)
(* What prefinalize returns: nothing for no batches, and for valid ones    *)
(* the shares of all requests up to the last one.                          *)
(***************************************************************************)
StartOf(last, batches, i) == IF i = 1 THEN last ELSE batches[i - 1]

LEMMA NoBatches ==
  ASSUME NEW q, NEW last, NEW rate
  PROVE  PrefinalizedEther(q, last, <<>>, rate) = 0 /\ PrefinalizedShares(q, last, <<>>) = 0
<1>1. DOMAIN <<>> = {}
  OBVIOUS
<1>2. QED
  BY <1>1, SumEmpty DEF PrefinalizedEther, PrefinalizedShares, SumFunction

LEMMA ValidBatch ==
  ASSUME NEW q, IsQueue(q), NEW last \in 0..Len(q), NEW batches \in Seq(Nat),
         BatchesAreValid(q, last, batches), NEW i \in 1..Len(batches)
  PROVE  /\ StartOf(last, batches, i) \in 0..Len(q)
         /\ batches[i] \in (last + 1)..Len(q)
         /\ StartOf(last, batches, i) <= batches[i]
         /\ BatchAt(q, last, batches, i) = CalcBatch(q, StartOf(last, batches, i), batches[i])
<1> DEFINE n == Len(batches)
<1>1. /\ n \in Nat \ {0} /\ Len(q) \in Nat
      /\ batches[1] > last /\ batches[n] <= Len(q)
      /\ \A k \in 2..n : batches[k - 1] < batches[k]
      /\ \A k \in 1..n : batches[k] \in Nat
  BY EmptySeq DEF BatchesAreValid, IsQueue
<1>2. \A k \in 1..n : batches[k] \in (last + 1)..Len(q)
  <2> SUFFICES ASSUME NEW k \in 1..n PROVE batches[k] \in (last + 1)..Len(q)
    OBVIOUS
  <2>1. 1 \in 1..k /\ k \in 1..n /\ n \in 1..n /\ k \in Nat
    BY <1>1
  <2>2. batches[1] <= batches[k]
    BY <1>1, <2>1, AscendingSequence
  <2>3. batches[k] <= batches[n]
    BY <1>1, <2>1, AscendingSequence
  <2>4. batches[1] \in Nat /\ batches[k] \in Nat /\ batches[n] \in Nat
    BY <1>1
  <2>5. QED
    BY <1>1, <2>2, <2>3, <2>4
<1>3. CASE i = 1
  BY <1>1, <1>2, <1>3 DEF StartOf, BatchAt
<1>4. CASE i # 1
  <2>1. i \in 2..n /\ i - 1 \in 1..n
    BY <1>1, <1>4
  <2>2. QED
    BY <1>1, <1>2, <1>4, <2>1 DEF StartOf, BatchAt
<1>5. QED
  BY <1>3, <1>4

LEMMA SharesOfBatches ==
  ASSUME NEW q, IsQueue(q), NEW last \in 0..Len(q), NEW batches \in Seq(Nat),
         BatchesAreValid(q, last, batches)
  PROVE  PrefinalizedShares(q, last, batches)
           = CumulativeShares(q, batches[Len(batches)]) - CumulativeShares(q, last)
<1> DEFINE n == Len(batches)
           S == 1..n
           c == [i \in 0..n |-> CumulativeShares(q, IF i = 0 THEN last ELSE batches[i])]
           f == [i \in S |-> BatchAt(q, last, batches, i).shares]
<1>1. n \in Nat \ {0} /\ DOMAIN batches = S /\ q \in Seq(Request) /\ Len(q) \in Nat
  BY EmptySeq DEF BatchesAreValid, IsQueue
<1>2. c \in [0..n -> Int]
  <2> SUFFICES ASSUME NEW i \in 0..n
               PROVE  CumulativeShares(q, IF i = 0 THEN last ELSE batches[i]) \in Int
    OBVIOUS
  <2>1. (IF i = 0 THEN last ELSE batches[i]) \in 0..Len(q)
    BY <1>1, ValidBatch
  <2>2. QED
    BY <1>1, <2>1, CumulativeType
<1>3. ASSUME NEW i \in S
      PROVE  f[i] = c[i] - c[i - 1]
  <2>1. f[i] = CalcBatch(q, StartOf(last, batches, i), batches[i]).shares
    BY ValidBatch
  <2>2. CalcBatch(q, StartOf(last, batches, i), batches[i]).shares
          = CumulativeShares(q, batches[i]) - CumulativeShares(q, StartOf(last, batches, i))
    BY DEF CalcBatch
  <2>3. i \in 0..n /\ i - 1 \in 0..n /\ i # 0 /\ (i - 1 = 0 <=> i = 1)
    BY <1>1
  <2>4. c[i] = CumulativeShares(q, batches[i])
        /\ c[i - 1] = CumulativeShares(q, StartOf(last, batches, i))
    BY <2>3 DEF StartOf
  <2>5. QED
    BY <2>1, <2>2, <2>4
<1>4. SumFunctionOnSet(f, S) = c[n] - c[0]
  <2> HIDE DEF c, f
  <2> QED BY <1>1, <1>2, <1>3, SumTelescopes
<1>5. PrefinalizedShares(q, last, batches) = SumFunctionOnSet(f, S)
  BY <1>1 DEF PrefinalizedShares, SumFunction
<1>6. c[n] = CumulativeShares(q, batches[n]) /\ c[0] = CumulativeShares(q, last)
  BY <1>1
<1>7. QED
  BY <1>4, <1>5, <1>6

LEMMA EtherOfBatchesType ==
  ASSUME NEW q, IsQueue(q), NEW last \in 0..Len(q), NEW batches \in Seq(Nat),
         BatchesAreValid(q, last, batches), NEW rate \in Nat
  PROVE  PrefinalizedEther(q, last, batches, rate) \in Nat
<1> DEFINE S == 1..Len(batches)
           f == [i \in S |-> EtherOf(BatchAt(q, last, batches, i), rate)]
<1>1. Len(batches) \in Nat /\ DOMAIN batches = S
  OBVIOUS
<1>2. ASSUME NEW i \in S PROVE f[i] \in Nat
  <2> DEFINE j == StartOf(last, batches, i)
             k == batches[i]
  <2>1. /\ j \in 0..Len(q) /\ k \in 0..Len(q) /\ j <= k
        /\ BatchAt(q, last, batches, i) = CalcBatch(q, j, k)
    BY ValidBatch DEF IsQueue
  <2>2. f[i] = EtherOf(CalcBatch(q, j, k), rate)
    BY <2>1
  <2> HIDE DEF j, k, f
  <2>3. EtherOf(CalcBatch(q, j, k), rate) \in Nat
    BY <2>1, BatchType
  <2>4. QED
    BY <2>2, <2>3
<1>3. PrefinalizedEther(q, last, batches, rate) = SumFunctionOnSet(f, S)
  BY <1>1 DEF PrefinalizedEther, SumFunction
<1>4. IsFiniteSet(S)
  BY <1>1, FS_Interval
<1>5. SumFunctionOnSet(f, S) \in Nat
  <2> HIDE DEF f, S
  <2> QED BY <1>2, <1>4, SumOfNaturals
<1>6. QED
  BY <1>3, <1>5

------------------------------------------------------------------------------

(***************************************************************************)
(* The limiter of a pool of P ether and S shares.                          *)
(***************************************************************************)
Limiters == [preEther : Nat, preShares : Nat, ether : Int, limit : Nat, maxEther : Nat]

LimitFor(P) == IF P = 0 THEN UNLIMITED_REBASE ELSE maxPositiveTokenRebase

IsLimiterOf(l, P, S) ==
  /\ l \in Limiters
  /\ l.preEther = P
  /\ l.preShares = S
  /\ l.limit = LimitFor(P)
  /\ l.maxEther = MaxPooledEther(LimitFor(P), P)
  /\ ~IsUnlimited(l) => l.ether <= l.maxEther

LEMMA LimitType ==
  ASSUME NEW P \in Nat
  PROVE  LimitFor(P) \in Nat /\ MaxPooledEther(LimitFor(P), P) \in Nat
         /\ P <= MaxPooledEther(LimitFor(P), P)
<1>1. LimitFor(P) \in Nat /\ LIMITER_PRECISION_BASE \in Nat \ {0}
  BY TokenRebaseLimiterAssumption DEF LimitFor
<1>2. LimitFor(P) * P \in Nat
  BY <1>1
<1> DEFINE k == (LimitFor(P) * P) \div LIMITER_PRECISION_BASE
<1>3. k \in Nat
  BY <1>1, <1>2, Division
<1>4. MaxPooledEther(LimitFor(P), P) = P + k
  BY DEF MaxPooledEther
<1>5. QED
  <2> HIDE DEF k
  <2> QED BY <1>1, <1>3, <1>4

LEMMA FirstLimiter ==
  ASSUME NEW P \in Nat, NEW S \in Nat
  PROVE  /\ IsLimiterOf(InitLimiterState(maxPositiveTokenRebase, P, S), P, S)
         /\ InitLimiterState(maxPositiveTokenRebase, P, S).ether = P
BY LimitType DEF InitLimiterState, IsLimiterOf, Limiters, LimitFor

LEMMA Increased ==
  ASSUME NEW P \in Nat, NEW S \in Nat, NEW l, IsLimiterOf(l, P, S), NEW amount \in Nat
  PROVE  /\ IsLimiterOf(IncreaseEther(l, amount), P, S)
         /\ ConsumedEther(l, amount) \in 0..amount
         /\ ~IsUnlimited(l) =>
              IncreaseEther(l, amount).ether = l.ether + ConsumedEther(l, amount)
<1> DEFINE e == Smaller(l.ether + amount, l.maxEther)
<1>1. l \in Limiters /\ l.ether \in Int /\ l.maxEther \in Nat
  BY DEF IsLimiterOf, Limiters
<1>2. e \in Int /\ e <= l.maxEther /\ e <= l.ether + amount /\ (l.ether <= l.maxEther => e >= l.ether)
  BY <1>1 DEF Smaller
<1>3. CASE IsUnlimited(l)
  <2>1. IncreaseEther(l, amount) = l /\ ConsumedEther(l, amount) = amount
    BY <1>3 DEF IncreaseEther, ConsumedEther
  <2>2. QED
    BY <1>3, <2>1
<1>4. CASE ~IsUnlimited(l)
  <2> DEFINE k == [l EXCEPT !.ether = e]
  <2>1. IncreaseEther(l, amount) = k /\ ConsumedEther(l, amount) = e - l.ether
    BY <1>4 DEF IncreaseEther, ConsumedEther
  <2>2. k \in Limiters /\ k.ether = e /\ k.preEther = l.preEther /\ k.preShares = l.preShares
        /\ k.limit = l.limit /\ k.maxEther = l.maxEther
    <3> HIDE DEF e
    <3> QED BY <1>1, <1>2 DEF Limiters
  <2> HIDE DEF k, e
  <2>3. IsLimiterOf(k, P, S)
    BY <1>2, <2>2 DEF IsLimiterOf
  <2>4. l.ether <= l.maxEther
    BY <1>4 DEF IsLimiterOf
  <2>5. QED
    BY <1>1, <1>2, <2>1, <2>2, <2>3, <2>4
<1>5. QED
  BY <1>3, <1>4

LEMMA Decreased ==
  ASSUME NEW P \in Nat, NEW S \in Nat, NEW l, IsLimiterOf(l, P, S), NEW amount \in Nat
  PROVE  /\ IsLimiterOf(DecreaseEther(l, amount), P, S)
         /\ ~IsUnlimited(l) => DecreaseEther(l, amount).ether = l.ether - amount
<1>1. l \in Limiters /\ l.ether \in Int /\ l.maxEther \in Nat
  BY DEF IsLimiterOf, Limiters
<1>2. CASE IsUnlimited(l)
  BY <1>2 DEF DecreaseEther
<1>3. CASE ~IsUnlimited(l)
  <2> DEFINE k == [l EXCEPT !.ether = l.ether - amount]
  <2>1. DecreaseEther(l, amount) = k
    BY <1>3 DEF DecreaseEther
  <2>2. k \in Limiters /\ k.ether = l.ether - amount /\ k.preEther = l.preEther
        /\ k.preShares = l.preShares /\ k.limit = l.limit /\ k.maxEther = l.maxEther
    BY <1>1 DEF Limiters
  <2> HIDE DEF k
  <2>3. l.ether <= l.maxEther
    BY <1>3 DEF IsLimiterOf
  <2>4. k.ether <= k.maxEther
    BY <1>1, <2>2, <2>3
  <2>5. QED
    BY <2>1, <2>2, <2>4 DEF IsLimiterOf
<1>4. QED
  BY <1>2, <1>3

(***************************************************************************)
(* An unlimited limiter stays one, and so does a limited one.              *)
(***************************************************************************)
LEMMA SameLimit ==
  ASSUME NEW P, NEW S, NEW k, NEW l, IsLimiterOf(k, P, S), IsLimiterOf(l, P, S)
  PROVE  /\ IsUnlimited(k) <=> IsUnlimited(l)
         /\ k.maxEther = l.maxEther
BY DEF IsLimiterOf, IsUnlimited

(***************************************************************************)
(* The shares a limiter allows to be burnt, and what the limit on them is  *)
(* worth: the shares left are not dearer than the limit.  E is the ether,  *)
(* L the precision, T the limit with it.                                   *)
(***************************************************************************)
LEMMA EtherRateIsBelow ==
  ASSUME NEW P \in Nat \ {0}, NEW E \in Nat, NEW L \in Nat \ {0}, NEW m \in Nat,
         E < P + (m * P) \div L
  PROVE  (E * L) \div P \in Nat /\ (E * L) \div P <= L + m
<1> DEFINE x == (m * P) \div L
           q == (E * L) \div P
           T == L + m
<1>1. m * P \in Nat /\ E * L \in Nat
  OBVIOUS
<1>2. x \in Nat /\ x * L <= m * P
  BY <1>1, Division
<1>3. q \in Nat /\ q * P <= E * L
  BY <1>1, Division
<1> HIDE DEF x, q
<1>4. E * L <= (P + x) * L
  BY <1>2, MultipleMonotone DEF x
<1>5. (P + x) * L = P * L + x * L
  BY <1>2
<1>6. T * P = P * L + m * P
  OBVIOUS
<1>7. q * P <= T * P
  <2>1. q * P \in Int /\ E * L \in Int /\ P * L \in Int /\ x * L \in Int /\ m * P \in Int
    BY <1>2, <1>3
  <2> HIDE DEF T
  <2>2. QED
    BY <1>2, <1>3, <1>4, <1>5, <1>6, <2>1
<1>8. q <= T
  <2> SUFFICES ASSUME T + 1 <= q PROVE FALSE
    BY <1>3
  <2>1. (T + 1) * P <= q * P
    BY <1>3, MultipleMonotone
  <2>2. (T + 1) * P = T * P + P
    OBVIOUS
  <2>3. q * P \in Int /\ T * P \in Int
    BY <1>3
  <2>4. QED
    BY <1>7, <2>1, <2>2, <2>3
<1>9. QED
  BY <1>3, <1>8 DEF q

LEMMA BurnIsLimited ==
  ASSUME NEW P \in Nat \ {0}, NEW S \in Nat, NEW E \in Nat, NEW L \in Nat \ {0}, NEW m \in Nat,
         E < P + (m * P) \div L,
         NEW burnt \in Nat, burnt <= (S * ((m + L) - (E * L) \div P)) \div (m + L),
         NEW left \in Int, left >= S - burnt
  PROVE  E * S * L <= P * left * (L + m) + P * S
<1> DEFINE q == (E * L) \div P
           T == m + L
           rest == T - q
<1>1. E * L \in Nat /\ T \in Nat \ {0} /\ L + m = T
  OBVIOUS
<1>2. q \in Nat /\ q <= T
  <2>1. q \in Nat /\ q <= L + m
    BY EtherRateIsBelow
  <2> HIDE DEF q, T
  <2>2. QED
    BY <1>1, <2>1
<1>3. E * L < q * P + P
  BY <1>1, Division
<1> HIDE DEF q
<1>4. rest \in Nat /\ S * rest \in Nat
  BY <1>1, <1>2
<1> HIDE DEF rest, T
<1>5. ((S * rest) \div T) * T <= S * rest /\ (S * rest) \div T \in Nat
  BY <1>1, <1>4, Division
<1>6. burnt <= (S * rest) \div T
  BY DEF rest, T, q
<1>7. burnt * T <= ((S * rest) \div T) * T
  BY <1>1, <1>5, <1>6, MultipleMonotone
<1>8. burnt * T <= S * rest
  <2>1. burnt * T \in Int /\ ((S * rest) \div T) * T \in Int
    BY <1>1, <1>5
  <2>2. QED
    BY <1>4, <1>5, <1>7, <2>1
<1>9. S * rest = S * T - S * q
  BY <1>1, <1>2 DEF rest
<1>10. (S - burnt) * T <= left * T
  BY <1>1, MultipleMonotone
<1>11. (S - burnt) * T = S * T - burnt * T
  BY <1>1
<1>12. S * q <= left * T
  <2>1. burnt * T \in Int /\ S * T \in Int /\ S * q \in Int /\ left * T \in Int
    BY <1>1, <1>2
  <2>2. QED
    BY <1>8, <1>9, <1>10, <1>11, <2>1
<1>13. (S * q) * P <= (left * T) * P
  BY <1>1, <1>2, <1>12, MultipleMonotone
<1>14. (E * L) * S <= (q * P + P) * S
  BY <1>1, <1>2, <1>3, MultipleMonotone
<1>15. /\ (q * P + P) * S = (q * P) * S + P * S
       /\ (q * P) * S = (S * q) * P
  BY <1>2
<1>16. (left * T) * P = P * left * T /\ (E * L) * S = E * S * L
  BY <1>1
<1>17. /\ (S * q) * P \in Int /\ (left * T) * P \in Int /\ (E * L) * S \in Int
       /\ P * S \in Int
  BY <1>1, <1>2
<1>18. E * S * L <= P * left * T + P * S
  BY <1>13, <1>14, <1>15, <1>16, <1>17
<1>19. QED
  BY <1>1, <1>18

LEMMA FullPoolIsLimited ==
  ASSUME NEW P \in Nat \ {0}, NEW S \in Nat, NEW L \in Nat \ {0}, NEW m \in Nat,
         NEW E, E = P + (m * P) \div L, NEW left \in Int, left >= S
  PROVE  E * S * L <= P * left * (L + m) + P * S
<1> DEFINE x == (m * P) \div L
           T == L + m
<1>1. m * P \in Nat /\ T \in Nat
  OBVIOUS
<1>2. x \in Nat /\ x * L <= m * P
  BY <1>1, Division
<1> HIDE DEF x
<1>3. E = P + x /\ E \in Nat
  BY <1>2 DEF x
<1>4. E * L = P * L + x * L
  BY <1>2, <1>3
<1>5. P * T = P * L + m * P
  OBVIOUS
<1> HIDE DEF T
<1>6. E * L <= P * T /\ E * L \in Int /\ P * T \in Nat
  <2>1. P * L \in Int /\ x * L \in Int /\ m * P \in Int /\ E * L \in Int /\ P * T \in Nat
    BY <1>1, <1>2, <1>3
  <2>2. QED
    BY <1>2, <1>4, <1>5, <2>1
<1>7. (E * L) * S <= (P * T) * S
  BY <1>6, MultipleMonotone
<1>8. S * (P * T) <= left * (P * T)
  BY <1>6, MultipleMonotone
<1>9. (E * L) * S = E * S * L /\ (P * T) * S = S * (P * T) /\ left * (P * T) = P * left * T
  BY <1>1, <1>3
<1>10. P * S \in Nat /\ (E * L) * S \in Int /\ (P * T) * S \in Int /\ left * (P * T) \in Int
  BY <1>6
<1>11. QED
  BY <1>7, <1>8, <1>9, <1>10 DEF T

LEMMA BurnLimitType ==
  ASSUME NEW P \in Nat, NEW S \in Nat, NEW l, IsLimiterOf(l, P, S),
         ~IsUnlimited(l) => l.ether >= 0
  PROVE  SharesToBurnLimit(l) \in Nat
<1> DEFINE L == LIMITER_PRECISION_BASE
           m == LimitFor(P)
           q == (l.ether * L) \div P
           rest == (m + L) - q
<1>1. /\ l \in Limiters /\ l.ether \in Int /\ l.preEther = P /\ l.preShares = S /\ l.limit = m
      /\ l.maxEther = P + (m * P) \div L
  BY DEF IsLimiterOf, Limiters, MaxPooledEther
<1>2. L \in Nat \ {0} /\ m \in Nat
  BY LimitType, TokenRebaseLimiterAssumption
<1>3. CASE IsUnlimited(l)
  BY <1>1, <1>3 DEF SharesToBurnLimit
<1>4. CASE ~IsUnlimited(l) /\ l.ether >= l.maxEther
  BY <1>4 DEF SharesToBurnLimit
<1>5. CASE ~IsUnlimited(l) /\ ~(l.ether >= l.maxEther)
  <2>1. P # 0
    BY <1>1, <1>5 DEF IsUnlimited, LimitFor
  <2> HIDE DEF m, L
  <2>2. l.ether \in Nat /\ l.ether < P + (m * P) \div L
    <3>1. (m * P) \div L \in Nat
      BY <1>2, Division
    <3>2. QED
      BY <1>1, <1>5, <3>1
  <2>3. q \in Nat /\ q <= L + m
    BY <1>2, <2>1, <2>2, EtherRateIsBelow
  <2> HIDE DEF q
  <2>4. S * rest \in Nat /\ m + L \in Nat \ {0}
    BY <1>2, <2>3
  <2>5. (S * rest) \div (m + L) \in Nat
    BY <2>4, Division
  <2>6. SharesToBurnLimit(l)
          = (l.preShares * ((l.limit + L) - (l.ether * L) \div l.preEther)) \div (l.limit + L)
    BY <1>5 DEF SharesToBurnLimit, L
  <2>7. SharesToBurnLimit(l) = (S * rest) \div (m + L)
    BY <1>1, <2>6 DEF q
  <2>8. QED
    BY <2>5, <2>7
<1>6. QED
  BY <1>3, <1>4, <1>5

(***************************************************************************)
(* So a burn that the limiter allows makes the shares left no dearer than  *)
(* the limit.                                                              *)
(***************************************************************************)
LEMMA AllowedBurnIsLimited ==
  ASSUME NEW P \in Nat, NEW S \in Nat, NEW l, IsLimiterOf(l, P, S), ~IsUnlimited(l), l.ether >= 0,
         NEW burnt \in Nat, burnt <= SharesToBurnLimit(l),
         NEW left \in Int, left >= S - burnt
  PROVE  l.ether * S * LIMITER_PRECISION_BASE
           <= P * left * (LIMITER_PRECISION_BASE + maxPositiveTokenRebase) + P * S
<1> DEFINE L == LIMITER_PRECISION_BASE
           m == maxPositiveTokenRebase
<1>1. L \in Nat \ {0} /\ m \in Nat
  BY TokenRebaseLimiterAssumption
<1>2. P \in Nat \ {0} /\ l.limit = m
  BY DEF IsLimiterOf, IsUnlimited, LimitFor
<1>3. /\ l \in Limiters /\ l.ether \in Nat /\ l.preEther = P /\ l.preShares = S
      /\ l.maxEther = P + (m * P) \div L
      /\ l.ether <= l.maxEther
  BY <1>2 DEF IsLimiterOf, Limiters, MaxPooledEther
<1>4. (m * P) \div L \in Nat
  <2>1. m * P \in Nat
    BY <1>1
  <2>2. QED
    BY <1>1, <2>1, Division
<1>5. CASE l.ether >= l.maxEther
  <2>1. SharesToBurnLimit(l) = 0
    BY <1>5 DEF SharesToBurnLimit
  <2>2. left >= S
    BY <2>1
  <2>3. l.ether = P + (m * P) \div L
    BY <1>3, <1>4, <1>5
  <2> HIDE DEF L, m
  <2>4. l.ether * S * L <= P * left * (L + m) + P * S
    BY <1>1, <1>2, <2>2, <2>3, FullPoolIsLimited
  <2>5. QED
    BY <2>4 DEF L, m
<1>6. CASE ~(l.ether >= l.maxEther)
  <2>1. SharesToBurnLimit(l)
          = (l.preShares * ((l.limit + L) - (l.ether * L) \div l.preEther)) \div (l.limit + L)
    BY <1>6 DEF SharesToBurnLimit, L
  <2>2. l.ether < P + (m * P) \div L
    BY <1>3, <1>4, <1>6
  <2>3. burnt <= (S * ((m + L) - (l.ether * L) \div P)) \div (m + L)
    BY <1>2, <1>3, <2>1
  <2> HIDE DEF L, m
  <2> DEFINE E == l.ether
  <2>4. E \in Nat /\ E < P + (m * P) \div L
        /\ burnt <= (S * ((m + L) - (E * L) \div P)) \div (m + L)
    BY <1>3, <2>2, <2>3
  <2> HIDE DEF E
  <2>5. E * S * L <= P * left * (L + m) + P * S
    BY <1>1, <1>2, <2>4, BurnIsLimited
  <2>6. QED
    BY <2>5 DEF E, L, m
<1>7. QED
  BY <1>5, <1>6

(***************************************************************************)
(* What is taken from the vaults and burnt is no more than there is; and   *)
(* unless the limiter is off, the ether in it after the lock is what the   *)
(* pool has then, but for a gain of the validators beyond the limit.       *)
(***************************************************************************)
Surplus(P, gain) ==
  LET surplus == P + gain - MaxPooledEther(maxPositiveTokenRebase, P)
  IN  IF surplus > 0 THEN surplus ELSE 0

LEMMA SmoothenedFacts ==
  ASSUME NEW P \in Nat, NEW S \in Nat, NEW pre \in Nat, NEW post \in Nat, NEW wv \in Nat, NEW el \in Nat,
         NEW req \in Nat, NEW lock \in Nat, NEW new \in Nat,
         CanDecreaseEther(InitLimiterState(maxPositiveTokenRebase, P, S), pre - post),
         NEW s, s = SmoothenTokenRebase(LimiterAfterCL(P, S, pre, post), wv, el, req, lock, new),
         s.canLock
  PROVE  /\ s.withdrawals \in 0..wv
         /\ s.elRewards \in 0..el
         /\ s.sharesToBurn \in 0..(new + req)
         /\ ~IsUnlimited(InitLimiterState(maxPositiveTokenRebase, P, S)) =>
              \A left \in Int : left >= S - s.sharesToBurn =>
                ((P + (post - pre) + s.withdrawals + s.elRewards - lock) - Surplus(P, post - pre))
                    * S * LIMITER_PRECISION_BASE
                  <= P * left * (LIMITER_PRECISION_BASE + maxPositiveTokenRebase) + P * S
<1> DEFINE first == InitLimiterState(maxPositiveTokenRebase, P, S)
           afterCL == LimiterAfterCL(P, S, pre, post)
           afterWithdrawals == IncreaseEther(afterCL, wv)
           afterRewards == IncreaseEther(afterWithdrawals, el)
           afterLock == DecreaseEther(afterRewards, lock)
           Off == IsUnlimited(first)
           M == MaxPooledEther(LimitFor(P), P)
<1>1. IsLimiterOf(first, P, S) /\ first.ether = P /\ M \in Nat /\ P <= M
  BY FirstLimiter, LimitType
<1>2. /\ IsLimiterOf(afterCL, P, S)
      /\ ~Off => afterCL.ether >= 0
      /\ ~Off => afterCL.ether = IF post < pre THEN P - (pre - post)
                                 ELSE IF P + (post - pre) < M THEN P + (post - pre) ELSE M
  <2>1. CASE post < pre
    <3>1. pre - post \in Nat
      BY <2>1
    <3>2. afterCL = DecreaseEther(first, pre - post)
      BY <2>1 DEF LimiterAfterCL
    <3>3. ~Off => pre - post <= first.ether
      BY DEF CanDecreaseEther
    <3> HIDE DEF first, afterCL
    <3>4. IsLimiterOf(afterCL, P, S) /\ (~Off => afterCL.ether = first.ether - (pre - post))
      <4> DEFINE loss == pre - post
      <4> HIDE DEF loss
      <4>1. loss \in Nat /\ afterCL = DecreaseEther(first, loss)
        BY <3>1, <3>2 DEF loss
      <4>2. /\ IsLimiterOf(DecreaseEther(first, loss), P, S)
            /\ ~IsUnlimited(first) => DecreaseEther(first, loss).ether = first.ether - loss
        <5>1. loss \in Nat /\ IsLimiterOf(first, P, S)
          BY <1>1, <4>1
        <5>2. QED
          BY ONLY P \in Nat, S \in Nat, <5>1, Decreased
      <4>3. QED
        BY <4>1, <4>2 DEF loss
    <3>5. QED
      BY <1>1, <2>1, <3>1, <3>3, <3>4
  <2>2. CASE ~(post < pre)
    <3>1. post - pre \in Nat
      BY <2>2
    <3>2. afterCL = IncreaseEther(first, post - pre)
      BY <2>2 DEF LimiterAfterCL
    <3>3. IsLimiterOf(afterCL, P, S)
      <4> HIDE DEF first, afterCL
      <4> QED BY <1>1, <3>1, <3>2, Increased
    <3>4. ~Off => afterCL.ether = Smaller(P + (post - pre), M)
      <4>1. first.maxEther = M /\ first \in Limiters
        BY <1>1 DEF IsLimiterOf
      <4> HIDE DEF first, afterCL, M
      <4>2. ~Off => afterCL = [first EXCEPT !.ether = Smaller(P + (post - pre), M)]
        BY <1>1, <3>2, <4>1 DEF IncreaseEther
      <4>3. QED
        BY <4>1, <4>2 DEF Limiters
    <3> HIDE DEF first, afterCL, M
    <3>5. ~Off => afterCL.ether >= 0
      BY <1>1, <3>1, <3>4 DEF Smaller
    <3>6. QED
      BY <2>2, <3>3, <3>4, <3>5 DEF Smaller
  <2>3. QED
    BY <2>1, <2>2
<1> HIDE DEF afterCL, first
<1>3. /\ IsLimiterOf(afterWithdrawals, P, S)
      /\ ConsumedEther(afterCL, wv) \in 0..wv
      /\ ~IsUnlimited(afterCL) =>
           afterWithdrawals.ether = afterCL.ether + ConsumedEther(afterCL, wv)
  BY <1>2, Increased
<1> HIDE DEF afterWithdrawals
<1>4. /\ IsLimiterOf(afterRewards, P, S)
      /\ ConsumedEther(afterWithdrawals, el) \in 0..el
      /\ ~IsUnlimited(afterWithdrawals) =>
           afterRewards.ether = afterWithdrawals.ether + ConsumedEther(afterWithdrawals, el)
  BY <1>3, Increased
<1> HIDE DEF afterRewards
<1>5. /\ IsLimiterOf(afterLock, P, S)
      /\ ~IsUnlimited(afterRewards) => afterLock.ether = afterRewards.ether - lock
  BY <1>4, Decreased
<1> HIDE DEF afterLock
<1>6. /\ Off <=> IsUnlimited(afterCL)
      /\ Off <=> IsUnlimited(afterWithdrawals)
      /\ Off <=> IsUnlimited(afterRewards)
      /\ Off <=> IsUnlimited(afterLock)
  BY <1>1, <1>2, <1>3, <1>4, <1>5, SameLimit
<1>7. /\ s.withdrawals = ConsumedEther(afterCL, wv)
      /\ s.elRewards = ConsumedEther(afterWithdrawals, el)
      /\ s.sharesToBurn = Smaller(SharesToBurnLimit(afterLock), new + req)
      /\ s.canLock = CanDecreaseEther(afterRewards, lock)
  BY DEF SmoothenTokenRebase, afterCL, afterWithdrawals, afterRewards, afterLock
<1>8. ~Off => lock <= afterRewards.ether
  BY <1>6, <1>7 DEF CanDecreaseEther
<1>9. afterRewards.ether \in Int /\ afterLock.ether \in Int /\ afterCL.ether \in Int
  BY <1>2, <1>4, <1>5 DEF IsLimiterOf, Limiters
<1>10. ~Off => afterLock.ether >= 0
  BY <1>5, <1>6, <1>8, <1>9
<1>11. SharesToBurnLimit(afterLock) \in Nat
  BY <1>5, <1>6, <1>10, BurnLimitType
<1>12. s.sharesToBurn \in 0..(new + req) /\ s.sharesToBurn <= SharesToBurnLimit(afterLock)
  BY <1>7, <1>11 DEF Smaller
<1>13. s.withdrawals \in 0..wv /\ s.elRewards \in 0..el
  BY <1>3, <1>4, <1>7
<1>14. ASSUME ~Off
       PROVE  (P + (post - pre) + s.withdrawals + s.elRewards - lock) - Surplus(P, post - pre)
                = afterLock.ether
  <2> DEFINE gain == post - pre
             rest == Surplus(P, gain)
  <2>1. LimitFor(P) = maxPositiveTokenRebase
    BY <1>1, <1>14 DEF IsLimiterOf, IsUnlimited, LimitFor
  <2>2. rest = IF P + gain > M THEN P + gain - M ELSE 0
    <3>1. rest = IF P + gain - M > 0 THEN P + gain - M ELSE 0
      BY <2>1 DEF Surplus
    <3> HIDE DEF rest, M
    <3>2. gain \in Int
      OBVIOUS
    <3> HIDE DEF gain
    <3>3. QED
      BY <1>1, <3>1, <3>2
  <2>3. afterLock.ether = ((afterCL.ether + s.withdrawals) + s.elRewards) - lock
    BY <1>3, <1>4, <1>5, <1>6, <1>7, <1>14
  <2> HIDE DEF rest, M
  <2>4. afterCL.ether = (P + gain) - rest
    BY <1>1, <1>2, <1>14, <2>2
  <2>5. s.withdrawals \in Int /\ s.elRewards \in Int /\ gain \in Int /\ rest \in Int
    BY <1>1, <1>13, <2>2
  <2>6. (P + gain + s.withdrawals + s.elRewards - lock) - rest = afterLock.ether
    <3> HIDE DEF gain
    <3> QED BY <1>9, <2>3, <2>4, <2>5
  <2>7. QED
    BY <2>6 DEF rest
<1>15. ASSUME ~Off, NEW left \in Int, left >= S - s.sharesToBurn
       PROVE  afterLock.ether * S * LIMITER_PRECISION_BASE
                <= P * left * (LIMITER_PRECISION_BASE + maxPositiveTokenRebase) + P * S
  <2> DEFINE burnt == s.sharesToBurn
  <2>1. burnt \in Nat /\ burnt <= SharesToBurnLimit(afterLock) /\ left >= S - burnt
    BY <1>12, <1>15
  <2> HIDE DEF burnt
  <2>2. QED
    BY <1>5, <1>6, <1>10, <1>15, <2>1, AllowedBurnIsLimited
<1>16. QED
  BY <1>12, <1>13, <1>14, <1>15 DEF first

------------------------------------------------------------------------------

(***************************************************************************)
(* The fee is never worth more than the rewards it is taken from, so that  *)
(* it alone does not make a share cheaper; and the modules get no more     *)
(* than the fee.                                                           *)
(***************************************************************************)
LEMMA FeeType == TotalFee \in Nat /\ TotalFee < PRECISION_POINTS /\ PRECISION_POINTS \in Nat \ {0}
                 /\ ModulesFee \in Nat /\ ModulesFee <= TotalFee
BY AccountingAssumption DEF TotalFee

LEMMA ProductOfNaturals ==
  ASSUME NEW a \in Nat, NEW b \in Nat
  PROVE  a * b \in Nat
OBVIOUS

LEMMA CancelFactor ==
  ASSUME NEW a \in Nat, NEW b \in Nat, NEW k \in Nat \ {0}, a * k <= b * k
  PROVE  a <= b
<1>1. SUFFICES ASSUME a >= b + 1 PROVE FALSE
  OBVIOUS
<1>2. (b + 1) * k <= a * k
  BY <1>1, MultipleMonotone
<1>3. (b + 1) * k = b * k + k /\ b * k \in Nat /\ a * k \in Nat
  OBVIOUS
<1>4. QED
  <2> DEFINE x == b * k
             y == a * k
  <2>1. x + k <= y /\ x \in Nat /\ y \in Nat /\ y <= x
    BY <1>2, <1>3
  <2> HIDE DEF x, y
  <2>2. QED
    BY <2>1

LEMMA FeeIsPaidByRewards ==
  ASSUME NEW P \in Nat, NEW S \in Nat, NEW R \in Nat \ {0}
  PROVE  /\ SharesMintedForRewards(P, S, R) \in Nat
         /\ P * SharesMintedForRewards(P, S, R) <= R * S
<1> DEFINE F == TotalFee
           X == PRECISION_POINTS
           N == R * F * S
           D == (P + R) * X - R * F
           f == SharesMintedForRewards(P, S, R)
<1>1. F \in Nat /\ X \in Nat \ {0} /\ F < X
  BY FeeType
<1> HIDE DEF F, X
<1>2. N \in Nat /\ N <= (R * S) * X
  <2>1. R * S \in Nat /\ N = F * (R * S) /\ (R * S) * X = X * (R * S)
    BY <1>1
  <2>2. F * (R * S) <= X * (R * S)
    BY <1>1, <2>1, MultipleMonotone
  <2>3. F * (R * S) \in Nat
    BY <1>1, <2>1, ProductOfNaturals
  <2>4. QED
    BY <2>1, <2>2, <2>3
<1>3. D \in Nat \ {0} /\ P * X <= D
  <2>1. (P + R) * X = P * X + R * X /\ P * X \in Nat /\ R * X \in Nat /\ R * F \in Nat
    BY <1>1
  <2>2. F + 1 <= X /\ F + 1 \in Int /\ X \in Int
    BY <1>1
  <2>3. (F + 1) * R <= X * R
    BY <2>2, MultipleMonotone
  <2>4. R * F + R <= R * X
    <3>1. (F + 1) * R = R * F + R /\ X * R = R * X
      BY <1>1
    <3>2. QED
      BY <2>3, <3>1
  <2> DEFINE u == P * X
             v == R * X
             w == R * F
  <2>5. D = (u + v) - w /\ u \in Nat /\ v \in Nat /\ w \in Nat /\ w + R <= v
    BY <2>1, <2>4
  <2> HIDE DEF u, v, w, D
  <2>6. D \in Nat \ {0} /\ u <= D
    BY <2>5
  <2>7. QED
    BY <2>6 DEF u
<1>4. f = N \div D
  BY DEF SharesMintedForRewards, F, X
<1> HIDE DEF N, D
<1>5. N \div D \in Nat /\ (N \div D) * D <= N
  BY <1>2, <1>3, Division
<1>6. f \in Nat /\ f * D <= N
  BY <1>4, <1>5
<1> HIDE DEF f
<1>7. (P * X) * f <= D * f
  <2>1. P * X \in Int /\ D \in Int
    BY <1>1, <1>3
  <2>2. QED
    BY <1>3, <1>6, <2>1, MultipleMonotone
<1>8. (P * f) * X <= (R * S) * X
  <2>1. (P * X) * f = (P * f) * X /\ D * f = f * D
    BY <1>1, <1>3, <1>6
  <2>2. (P * f) * X \in Int /\ f * D \in Int /\ (R * S) * X \in Int
    BY <1>1, <1>3, <1>6
  <2> DEFINE u == (P * f) * X
             v == f * D
             w == (R * S) * X
  <2>3. u <= v /\ v <= N /\ N <= w /\ u \in Int /\ v \in Int /\ w \in Int /\ N \in Int
    BY <1>2, <1>6, <1>7, <2>1, <2>2
  <2> HIDE DEF u, v, w
  <2>4. u <= w
    BY <2>3
  <2>5. QED
    BY <2>4 DEF u, w
<1>9. P * f <= R * S
  <2>1. P * f \in Nat /\ R * S \in Nat
    BY <1>6, ProductOfNaturals
  <2> DEFINE u == P * f
             w == R * S
  <2>2. u \in Nat /\ w \in Nat /\ u * X <= w * X
    BY <1>8, <2>1
  <2> HIDE DEF u, w
  <2>3. u <= w
    BY <1>1, <2>2, CancelFactor
  <2>4. QED
    BY <2>3 DEF u, w
<1>10. QED
  BY <1>6, <1>9 DEF f

LEMMA ModulesGetPartOfFee ==
  ASSUME NEW fees \in Nat, NEW modules,
         modules = IF TotalFee > 0 THEN (fees * ModulesFee) \div TotalFee ELSE 0
  PROVE  modules \in Nat /\ modules <= fees
<1> DEFINE F == TotalFee
           M == ModulesFee
<1>1. F \in Nat /\ M \in Nat /\ M <= F
  BY FeeType
<1> HIDE DEF F, M
<1>2. CASE F = 0
  <2>1. modules = 0
    BY <1>2 DEF F
  <2>2. QED
    BY <2>1
<1>3. CASE F # 0
  <2> DEFINE N == fees * M
  <2>1. F \in Nat \ {0} /\ N \in Nat /\ M * fees <= F * fees
    BY <1>1, <1>3, MultipleMonotone
  <2>2. modules = N \div F
    BY <1>1, <1>3 DEF F, M
  <2>3. N <= fees * F
    BY <1>1, <2>1
  <2> HIDE DEF N
  <2>4. N \div F \in Nat /\ (N \div F) * F <= N
    BY <2>1, Division
  <2>5. modules \in Nat /\ modules * F <= fees * F
    <3>1. modules \in Nat /\ modules * F <= N
      BY <2>2, <2>4
    <3>2. modules * F \in Int /\ fees * F \in Int
      BY <1>1, <3>1
    <3>3. QED
      BY <2>1, <2>3, <3>1, <3>2
  <2>6. QED
    BY <2>1, <2>5, CancelFactor
<1>4. QED
  BY <1>2, <1>3

(***************************************************************************)
(* Shares turned into ether and back are no more than they were.           *)
(***************************************************************************)
LEMMA RoundTrip ==
  ASSUME NEW P \in Nat \ {0}, NEW S \in Nat \ {0}, NEW x \in Nat
  PROVE  /\ (x * P) \div S \in Nat
         /\ (((x * P) \div S) * S) \div P \in Nat
         /\ (((x * P) \div S) * S) \div P <= x
<1> DEFINE e == (x * P) \div S
           b == (e * S) \div P
<1>1. x * P \in Nat
  OBVIOUS
<1>2. e \in Nat /\ e * S <= x * P
  BY <1>1, Division
<1> HIDE DEF e
<1>3. e * S \in Nat
  BY <1>2, ProductOfNaturals
<1>4. b \in Nat /\ b * P <= e * S
  BY <1>3, Division
<1> HIDE DEF b
<1>5. b * P <= x * P
  <2> DEFINE u == b * P
             v == e * S
             w == x * P
  <2>1. u \in Int /\ v \in Int /\ w \in Int /\ u <= v /\ v <= w
    BY <1>1, <1>2, <1>3, <1>4
  <2> HIDE DEF u, v, w
  <2>2. u <= w
    BY <2>1
  <2>3. QED
    BY <2>2 DEF u, w
<1>6. b <= x
  BY <1>4, <1>5, CancelFactor
<1>7. QED
  BY <1>2, <1>4, <1>6 DEF b, e

------------------------------------------------------------------------------

(***************************************************************************)
(* The invariant.  The shares of the initial holder are never burnt, so    *)
(* that there are always shares to divide by; the Burner keeps the shares  *)
(* it is asked to burn; and the queue's cumulative values never fall, so   *)
(* that what a report prefinalizes is no negative amount.                  *)
(***************************************************************************)
AccInv ==
  /\ TypeOK
  /\ SharesAddUp
  /\ BurnerHasTheRequested
  /\ shares["dead"] = INITIAL_BALANCE
  /\ IsQueue(queue)
  /\ report # NoReport => reports < MAX_REPORTS

LEMMA PoolType ==
  ASSUME AccInv
  PROVE  /\ TransientBalance \in Nat
         /\ TotalPooledEther \in Nat
         /\ totalShares \in Nat \ {0}
         /\ UnfinalizedStETH \in Nat
         /\ SharesRequestedToBurn \in Nat
         /\ SharesRequestedToBurn <= shares["burner"]
<1>1. /\ bufferedEther \in Nat /\ depositedValidators \in Nat /\ clValidators \in Nat
      /\ clBalance \in Nat /\ totalShares \in Nat /\ clValidators <= depositedValidators
      /\ coverSharesBurnRequested \in Nat /\ nonCoverSharesBurnRequested \in Nat
      /\ shares \in [Accounts -> Nat]
  BY DEF AccInv, TypeOK
<1>2. TransientBalance \in Nat
  <2>1. depositedValidators - clValidators \in Nat /\ DEPOSIT_SIZE \in Nat
    BY <1>1, AccountingAssumption
  <2>2. QED
    BY <2>1, ProductOfNaturals DEF TransientBalance
<1>3. TotalPooledEther \in Nat
  BY <1>1, <1>2 DEF TotalPooledEther
<1>4. totalShares \in Nat \ {0}
  <2>1. /\ shares["dead"] \in Nat \ {0} /\ shares["staker"] \in Nat /\ shares["queue"] \in Nat
        /\ shares["burner"] \in Nat /\ shares["modules"] \in Nat /\ shares["treasury"] \in Nat
    BY <1>1, AccountingAssumption DEF AccInv, Accounts
  <2>2. totalShares = shares["dead"] + shares["staker"] + shares["queue"] + shares["burner"]
                        + shares["modules"] + shares["treasury"]
    BY <1>1, SumOfAccounts DEF AccInv, SharesAddUp
  <2>3. QED
    BY <1>1, <2>1, <2>2
<1>5. UnfinalizedStETH \in Nat
  <2>1. IsQueue(queue) /\ lastFinalizedRequestId \in 0..Len(queue) /\ queue \in Seq(Request)
    BY DEF AccInv, TypeOK
  <2>2. Len(queue) \in 0..Len(queue) /\ lastFinalizedRequestId <= Len(queue)
    BY <2>1
  <2>3. /\ CumulativeStETH(queue, Len(queue)) \in Nat
        /\ CumulativeStETH(queue, lastFinalizedRequestId) \in Nat
        /\ CumulativeStETH(queue, lastFinalizedRequestId) <= CumulativeStETH(queue, Len(queue))
    BY <2>1, <2>2, CumulativeType DEF IsQueue
  <2>4. QED
    BY <2>3 DEF UnfinalizedStETH
<1>6. SharesRequestedToBurn \in Nat /\ SharesRequestedToBurn <= shares["burner"]
  BY <1>1 DEF SharesRequestedToBurn, AccInv, BurnerHasTheRequested
<1>7. QED
  BY <1>2, <1>3, <1>4, <1>5, <1>6

(***************************************************************************)
(* A transfer of shares keeps their sum.                                   *)
(***************************************************************************)
LEMMA AccountsAreFinite == IsFiniteSet(Accounts)
<1> DEFINE S2 == {} \union {"dead"} \union {"staker"}
           S4 == S2 \union {"queue"} \union {"burner"}
           S6 == S4 \union {"modules"} \union {"treasury"}
<1>1. ASSUME NEW S, IsFiniteSet(S), NEW x, NEW y PROVE IsFiniteSet(S \union {x} \union {y})
  <2>1. IsFiniteSet(S \union {x})
    BY <1>1, FS_AddElement
  <2>2. QED
    BY <2>1, FS_AddElement
<1>2. IsFiniteSet(S2)
  BY <1>1, FS_EmptySet
<1> HIDE DEF S2
<1>3. IsFiniteSet(S4)
  BY <1>1, <1>2
<1> HIDE DEF S4
<1>4. IsFiniteSet(S6)
  BY <1>1, <1>3
<1>5. S6 = Accounts
  BY DEF S2, S4, S6, Accounts
<1>6. QED
  BY <1>4, <1>5

LEMMA SumOfShares ==
  ASSUME NEW s \in [Accounts -> Nat], NEW t \in [Accounts -> Nat], NEW a \in Accounts,
         \A c \in Accounts \ {a} : t[c] = s[c]
  PROVE  SumFunction(t) = SumFunction(s) + (t[a] - s[a])
<1>1. Integral(s, Accounts) /\ t[a] \in Int
  BY AccountsAreFinite DEF Integral
<1>2. SumFunctionOnSet(t, Accounts) = SumFunctionOnSet(s, Accounts) + (t[a] - s[a])
  BY <1>1, SumExcept
<1>3. DOMAIN s = Accounts /\ DOMAIN t = Accounts
  OBVIOUS
<1>4. QED
  BY <1>2, <1>3 DEF SumFunction

LEMMA TransferKeepsTheSum ==
  ASSUME NEW s \in [Accounts -> Nat], NEW a \in Accounts, NEW b \in Accounts, a # b,
         NEW x \in Nat, x <= s[a], NEW t \in [Accounts -> Nat], t[a] = s[a] - x, t[b] = s[b] + x,
         \A c \in Accounts \ {a, b} : t[c] = s[c]
  PROVE  SumFunction(t) = SumFunction(s)
<1> DEFINE u == [s EXCEPT ![a] = @ - x]
<1>1. /\ s[a] \in Nat /\ s[b] \in Nat /\ s[a] - x \in Nat /\ s[b] + x \in Nat
  OBVIOUS
<1>2. /\ u \in [Accounts -> Nat] /\ u[a] = s[a] - x
      /\ \A c \in Accounts \ {a} : u[c] = s[c]
  BY <1>1
<1>4. u[b] = s[b] /\ \A c \in Accounts \ {b} : t[c] = u[c]
  BY <1>2
<1> HIDE DEF u
<1>5. SumFunction(u) = SumFunction(s) + (u[a] - s[a])
  BY <1>2, SumOfShares
<1>6. SumFunction(t) = SumFunction(u) + (t[b] - u[b])
  BY <1>2, <1>4, SumOfShares
<1>7. SumFunction(s) \in Int
  BY AccountsAreFinite, SumType DEF SumFunction, Integral
<1>8. QED
  BY <1>1, <1>2, <1>4, <1>5, <1>6, <1>7

------------------------------------------------------------------------------

(***************************************************************************)
(* The steps but the report.                                               *)
(***************************************************************************)
LEMMA SubmitStep ==
  ASSUME AccInv, NEW amount \in Nat, Submit(amount)
  PROVE  AccInv' /\ (QueueHasTheUnfinalized => QueueHasTheUnfinalized') /\ SharePool!Stake
<1> DEFINE minted == SharesByPooledEth(amount)
<1>1. /\ TransientBalance \in Nat /\ TotalPooledEther \in Nat \ {0} /\ totalShares \in Nat \ {0}
  BY PoolType DEF Submit, SharesHavePrice
<1>2. minted \in Nat
  BY <1>1, ProductOfNaturals, Division DEF SharesByPooledEth
<1>3. /\ amount # 0 /\ staked + amount <= MAX_STAKED
      /\ totalShares' = totalShares + minted
      /\ shares' = [shares EXCEPT !["staker"] = @ + minted]
      /\ bufferedEther' = bufferedEther + amount
      /\ staked' = staked + amount
      /\ UNCHANGED <<depositedValidators, clValidators, clBalance, burnerVars, vaultVars, queueVars,
                     report, reports>>
  BY DEF Submit
<1> HIDE DEF minted
<1>4. shares \in [Accounts -> Nat] /\ "staker" \in Accounts /\ shares["staker"] \in Nat
  BY DEF AccInv, TypeOK, Accounts
<1>5. /\ shares' \in [Accounts -> Nat] /\ shares'["staker"] = shares["staker"] + minted
      /\ \A c \in Accounts \ {"staker"} : shares'[c] = shares[c]
  BY <1>2, <1>3, <1>4
<1>6. SumFunction(shares') = SumFunction(shares) + minted
  <2>1. SumFunction(shares') = SumFunction(shares) + (shares'["staker"] - shares["staker"])
    BY <1>4, <1>5, SumOfShares
  <2>2. QED
    BY <1>2, <1>4, <1>5, <2>1
<1>7. TypeOK'
  <2>1. staked' \in 0..MAX_STAKED /\ bufferedEther' \in Nat /\ totalShares' \in Nat
    <3>1. staked \in 0..MAX_STAKED /\ MAX_STAKED \in Nat /\ bufferedEther \in Nat /\ totalShares \in Nat
      BY AccountingAssumption DEF AccInv, TypeOK
    <3>2. QED
      BY <1>2, <1>3, <3>1
  <2>2. QED
    BY <1>3, <1>5, <2>1 DEF AccInv, TypeOK, burnerVars, vaultVars, queueVars
<1>8. SharesAddUp'
  BY <1>3, <1>6 DEF AccInv, SharesAddUp
<1>9. BurnerHasTheRequested' /\ shares'["dead"] = INITIAL_BALANCE
  BY <1>3, <1>5 DEF AccInv, BurnerHasTheRequested, SharesRequestedToBurn, burnerVars, Accounts
<1>10. IsQueue(queue)' /\ (report' # NoReport => reports' < MAX_REPORTS)
  BY <1>3 DEF AccInv, queueVars
<1>11. QueueHasTheUnfinalized => QueueHasTheUnfinalized'
  BY <1>3, <1>5 DEF QueueHasTheUnfinalized, queueVars, Accounts
<1>12. SharePool!Stake
  <2>1. bufferedEther \in Nat /\ clBalance \in Nat
    BY DEF AccInv, TypeOK
  <2>2. bufferedEther' > bufferedEther /\ bufferedEther' - bufferedEther = amount
    BY <1>3, <2>1
  <2>3. TotalPooledEther = bufferedEther + (clBalance + TransientBalance)
    BY <1>1, <2>1 DEF TotalPooledEther
  <2>4. totalShares' = totalShares
          + ((bufferedEther' - bufferedEther) * totalShares)
              \div (bufferedEther + (clBalance + TransientBalance))
    BY <1>3, <2>2, <2>3 DEF minted, SharesByPooledEth
  <2>5. TransientBalance' = TransientBalance
    BY <1>3 DEF TransientBalance
  <2>6. QED
    BY <1>3, <2>2, <2>4, <2>5 DEF SharePool!Stake, SharePool!Pooled, vaultVars, queueVars
<1>13. QED
  BY <1>7, <1>8, <1>9, <1>10, <1>11, <1>12 DEF AccInv

LEMMA DepositStep ==
  ASSUME AccInv, NEW count \in Nat, Deposit(count)
  PROVE  AccInv' /\ (QueueHasTheUnfinalized => QueueHasTheUnfinalized') /\ SharePool!Deposit
<1> DEFINE spent == count * DEPOSIT_SIZE
<1>1. /\ count > 0 /\ spent <= DepositableEther
      /\ bufferedEther' = bufferedEther - spent
      /\ depositedValidators' = depositedValidators + count
      /\ UNCHANGED <<clValidators, clBalance, sharesVars, burnerVars, vaultVars, queueVars, reportVars>>
  BY DEF Deposit
<1>2. /\ bufferedEther \in Nat /\ depositedValidators \in Nat /\ clValidators \in Nat
      /\ clBalance \in Nat /\ clValidators <= depositedValidators
      /\ UnfinalizedStETH \in Nat /\ TransientBalance \in Nat
  BY PoolType DEF AccInv, TypeOK
<1>3. spent \in Nat
  BY AccountingAssumption
<1>4. spent <= bufferedEther
  <2> HIDE DEF spent
  <2> QED BY <1>1, <1>2, <1>3 DEF DepositableEther
<1>5. TransientBalance' = TransientBalance + spent
  <2>1. (depositedValidators + count) - clValidators = (depositedValidators - clValidators) + count
    BY <1>2
  <2>2. DEPOSIT_SIZE \in Nat /\ depositedValidators - clValidators \in Int
    BY <1>2, AccountingAssumption
  <2>3. ((depositedValidators - clValidators) + count) * DEPOSIT_SIZE
          = (depositedValidators - clValidators) * DEPOSIT_SIZE + count * DEPOSIT_SIZE
    BY <2>2
  <2>4. QED
    BY <1>1, <2>1, <2>3 DEF TransientBalance
<1> HIDE DEF spent
<1>6. TypeOK'
  BY <1>1, <1>2, <1>3, <1>4
     DEF AccInv, TypeOK, sharesVars, burnerVars, vaultVars, queueVars, reportVars
<1>7. SharesAddUp' /\ BurnerHasTheRequested' /\ shares'["dead"] = INITIAL_BALANCE
  BY <1>1 DEF AccInv, SharesAddUp, BurnerHasTheRequested, SharesRequestedToBurn, sharesVars, burnerVars
<1>8. IsQueue(queue)' /\ (report' # NoReport => reports' < MAX_REPORTS)
  BY <1>1 DEF AccInv, queueVars, reportVars
<1>9. QueueHasTheUnfinalized => QueueHasTheUnfinalized'
  BY <1>1 DEF QueueHasTheUnfinalized, queueVars, sharesVars
<1>10. SharePool!Deposit
  <2>1. bufferedEther' \in 0..bufferedEther
    BY <1>1, <1>2, <1>3, <1>4
  <2>2. clBalance' + TransientBalance' = clBalance + TransientBalance + bufferedEther - bufferedEther'
    BY <1>1, <1>2, <1>3, <1>4, <1>5
  <2>3. QED
    BY <1>1, <2>1, <2>2 DEF SharePool!Deposit, vaultVars, queueVars, sharesVars
<1>11. QED
  BY <1>6, <1>7, <1>8, <1>9, <1>10 DEF AccInv

(***************************************************************************)
(* What the other transfers have in common: neither the pool nor the vaults*)
(* change.                                                                 *)
(***************************************************************************)
LEMMA TransferStep ==
  ASSUME AccInv, NEW from \in Accounts, NEW to \in Accounts, from # to, from # "dead",
         NEW amount \in Nat, TransferShares(from, to, amount),
         UNCHANGED <<poolVars, vaultVars, lockedEtherAmount, lastFinalizedRequestId, reportVars>>
  PROVE  /\ shares' \in [Accounts -> Nat]
         /\ SharesAddUp'
         /\ to # "dead" => shares'["dead"] = INITIAL_BALANCE
         /\ shares'[from] = shares[from] - amount
         /\ shares'[to] = shares[to] + amount
         /\ \A c \in Accounts \ {from, to} : shares'[c] = shares[c]
         /\ UNCHANGED <<bufferedEther, clBalance + TransientBalance, withdrawalVault + elRewardsVault,
                        lockedEtherAmount, totalShares>>
<1>1. /\ amount <= shares[from] /\ shares \in [Accounts -> Nat]
      /\ shares' = [shares EXCEPT ![from] = @ - amount, ![to] = @ + amount]
      /\ totalShares' = totalShares
  BY DEF TransferShares, AccInv, TypeOK
<1>2. /\ shares' \in [Accounts -> Nat]
      /\ SumFunction(shares') = SumFunction(shares)
      /\ shares'[from] = shares[from] - amount
      /\ shares'[to] = shares[to] + amount
      /\ \A c \in Accounts \ {from, to} : shares'[c] = shares[c]
  <2>1. shares[from] \in Nat /\ shares[to] \in Nat /\ shares[from] - amount \in Nat
        /\ shares[to] + amount \in Nat
    BY <1>1
  <2>2. /\ shares' \in [Accounts -> Nat]
        /\ shares'[from] = shares[from] - amount
        /\ shares'[to] = shares[to] + amount
        /\ \A c \in Accounts \ {from, to} : shares'[c] = shares[c]
    BY <1>1, <2>1
  <2> DEFINE s == shares
             t == shares'
  <2>3. /\ s \in [Accounts -> Nat] /\ t \in [Accounts -> Nat] /\ amount <= s[from]
        /\ t[from] = s[from] - amount /\ t[to] = s[to] + amount
        /\ \A c \in Accounts \ {from, to} : t[c] = s[c]
    BY <1>1, <2>2
  <2> HIDE DEF s, t
  <2>4. SumFunction(t) = SumFunction(s)
    BY <2>3, TransferKeepsTheSum
  <2>5. QED
    BY <2>2, <2>4 DEF s, t
<1>3. SharesAddUp'
  BY <1>1, <1>2 DEF AccInv, SharesAddUp
<1>4. to # "dead" => shares'["dead"] = INITIAL_BALANCE
  BY <1>2 DEF AccInv, Accounts
<1>5. UNCHANGED <<bufferedEther, clBalance + TransientBalance, withdrawalVault + elRewardsVault,
                  lockedEtherAmount, totalShares>>
  BY <1>1 DEF TransientBalance, poolVars, vaultVars
<1>6. QED
  BY <1>2, <1>3, <1>4, <1>5

PoolUnchanged ==
  UNCHANGED <<bufferedEther, clBalance + TransientBalance, withdrawalVault + elRewardsVault,
              lockedEtherAmount, totalShares>>

LEMMA AmountInShares ==
  ASSUME AccInv, SharesHavePrice, NEW amount \in Nat
  PROVE  SharesByPooledEth(amount) \in Nat
<1>1. TotalPooledEther \in Nat \ {0} /\ totalShares \in Nat
  BY PoolType DEF SharesHavePrice
<1>2. QED
  BY <1>1, ProductOfNaturals, Division DEF SharesByPooledEth

LEMMA RequestWithdrawalStep ==
  ASSUME AccInv, NEW amount \in Nat, RequestWithdrawal(amount)
  PROVE  AccInv' /\ (QueueHasTheUnfinalized => QueueHasTheUnfinalized') /\ PoolUnchanged
<1> DEFINE x == SharesByPooledEth(amount)
           n == Len(queue)
           request == [cumulativeStETH  |-> CumulativeStETH(queue, n) + amount,
                       cumulativeShares |-> CumulativeShares(queue, n) + x,
                       timestamp        |-> reports,
                       reportTimestamp  |-> reports]
<1>1. x \in Nat
  BY AmountInShares DEF RequestWithdrawal
<1> HIDE DEF x
<1>2. /\ TransferShares("staker", "queue", x)
      /\ queue' = Append(queue, request)
      /\ UNCHANGED <<poolVars, burnerVars, vaultVars, lastFinalizedRequestId, lockedEtherAmount,
                     reportVars>>
  BY DEF RequestWithdrawal, x
<1>3. IsQueue(queue) /\ queue \in Seq(Request) /\ n \in Nat /\ lastFinalizedRequestId \in 0..n
      /\ reports \in Nat
  BY AccountingAssumption DEF AccInv, TypeOK
<1>4. CumulativeStETH(queue, n) \in Nat /\ CumulativeShares(queue, n) \in Nat
  <2>1. n \in 0..n
    BY <1>3
  <2>2. QED
    BY <1>3, <2>1, CumulativeType
<1>5. request \in Request
  BY <1>1, <1>3, <1>4 DEF Request
<1>6. /\ request.cumulativeStETH = CumulativeStETH(queue, n) + amount
      /\ request.cumulativeShares = CumulativeShares(queue, n) + x
  OBVIOUS
<1> HIDE DEF request
<1>7. /\ IsQueue(queue') /\ Len(queue') = n + 1
      /\ \A id \in 0..n : CumulativeShares(queue', id) = CumulativeShares(queue, id)
      /\ CumulativeShares(queue', n + 1) = CumulativeShares(queue, n) + x
  BY <1>1, <1>2, <1>3, <1>5, <1>6, QueueAppends
<1>8. "staker" \in Accounts /\ "queue" \in Accounts /\ "burner" \in Accounts
  BY DEF Accounts
<1>9. /\ shares' \in [Accounts -> Nat]
      /\ SharesAddUp'
      /\ shares'["dead"] = INITIAL_BALANCE
      /\ shares'["queue"] = shares["queue"] + x
      /\ shares'["burner"] = shares["burner"]
      /\ PoolUnchanged
  BY <1>1, <1>2, <1>8, TransferStep DEF PoolUnchanged
<1>10. totalShares' = totalShares
  BY <1>2 DEF TransferShares
<1>11. lastFinalizedRequestId' \in 0..Len(queue')
  BY <1>2, <1>3, <1>7
<1>12. TypeOK'
  BY <1>2, <1>7, <1>9, <1>10, <1>11
     DEF AccInv, TypeOK, IsQueue, poolVars, burnerVars, vaultVars, reportVars
<1>13. BurnerHasTheRequested' /\ (report' # NoReport => reports' < MAX_REPORTS)
  BY <1>2, <1>9 DEF AccInv, BurnerHasTheRequested, SharesRequestedToBurn, burnerVars, reportVars
<1>14. ASSUME QueueHasTheUnfinalized PROVE QueueHasTheUnfinalized'
  <2>1. /\ CumulativeShares(queue', lastFinalizedRequestId')
             = CumulativeShares(queue, lastFinalizedRequestId)
        /\ CumulativeShares(queue, lastFinalizedRequestId) \in Nat
    BY <1>2, <1>3, <1>7, CumulativeType
  <2>2. shares["queue"] = CumulativeShares(queue, n) - CumulativeShares(queue, lastFinalizedRequestId)
    BY <1>14 DEF QueueHasTheUnfinalized
  <2>3. shares'["queue"]
          = CumulativeShares(queue', Len(queue')) - CumulativeShares(queue', lastFinalizedRequestId')
    BY <1>1, <1>4, <1>7, <1>9, <2>1, <2>2
  <2>4. QED
    BY <2>3 DEF QueueHasTheUnfinalized
<1>15. QED
  BY <1>7, <1>9, <1>12, <1>13, <1>14 DEF AccInv

(***************************************************************************)
(* A transfer between the stakers, the Burner and the treasury.            *)
(***************************************************************************)
LEMMA BurnerStep ==
  ASSUME AccInv, NEW from \in {"staker", "burner"}, NEW to \in {"burner", "treasury"}, from # to,
         NEW amount \in Nat, TransferShares(from, to, amount),
         UNCHANGED <<poolVars, vaultVars, queueVars, reportVars>>,
         coverSharesBurnRequested' \in Nat, nonCoverSharesBurnRequested' \in Nat,
         BurnerHasTheRequested'
  PROVE  AccInv' /\ (QueueHasTheUnfinalized => QueueHasTheUnfinalized') /\ PoolUnchanged
<1>1. from \in Accounts /\ to \in Accounts /\ from # "dead" /\ to # "dead" /\ "queue" \in Accounts
      /\ from # "queue" /\ to # "queue"
  BY DEF Accounts
<1>2. UNCHANGED <<poolVars, vaultVars, lockedEtherAmount, lastFinalizedRequestId, reportVars>>
  BY DEF queueVars
<1>3. /\ shares' \in [Accounts -> Nat]
      /\ SharesAddUp'
      /\ shares'["dead"] = INITIAL_BALANCE
      /\ shares'["queue"] = shares["queue"]
      /\ PoolUnchanged
  BY <1>1, <1>2, TransferStep DEF PoolUnchanged
<1>4. totalShares' = totalShares
  BY DEF TransferShares
<1>5. TypeOK'
  BY <1>3, <1>4 DEF AccInv, TypeOK, poolVars, vaultVars, queueVars, reportVars
<1>6. IsQueue(queue)' /\ (report' # NoReport => reports' < MAX_REPORTS)
  BY DEF AccInv, queueVars, reportVars
<1>7. QueueHasTheUnfinalized => QueueHasTheUnfinalized'
  BY <1>3 DEF QueueHasTheUnfinalized, queueVars
<1>8. QED
  BY <1>3, <1>5, <1>6, <1>7 DEF AccInv

LEMMA RequestBurnStep ==
  ASSUME AccInv, NEW isCover \in BOOLEAN, NEW amount \in Nat,
         TransferShares("staker", "burner", amount), RequestBurn(isCover, amount),
         UNCHANGED <<poolVars, vaultVars, queueVars, reportVars>>
  PROVE  AccInv' /\ (QueueHasTheUnfinalized => QueueHasTheUnfinalized') /\ PoolUnchanged
<1>1. /\ coverSharesBurnRequested \in Nat /\ nonCoverSharesBurnRequested \in Nat
      /\ shares \in [Accounts -> Nat] /\ "burner" \in Accounts /\ "staker" \in Accounts
  BY DEF AccInv, TypeOK, Accounts
<1>2. /\ coverSharesBurnRequested' \in Nat /\ nonCoverSharesBurnRequested' \in Nat
      /\ coverSharesBurnRequested' + nonCoverSharesBurnRequested'
           = coverSharesBurnRequested + nonCoverSharesBurnRequested + amount
  BY <1>1 DEF RequestBurn
<1>3. shares'["burner"] = shares["burner"] + amount /\ shares["burner"] \in Nat
  BY <1>1 DEF TransferShares
<1>4. BurnerHasTheRequested'
  <2>1. shares["burner"] >= coverSharesBurnRequested + nonCoverSharesBurnRequested
    BY DEF AccInv, BurnerHasTheRequested, SharesRequestedToBurn
  <2>2. shares'["burner"] >= coverSharesBurnRequested' + nonCoverSharesBurnRequested'
    <3> DEFINE before == shares["burner"]
               after == shares'["burner"]
               asked == coverSharesBurnRequested + nonCoverSharesBurnRequested
    <3>1. asked \in Nat
      BY <1>1
    <3>2. before \in Nat /\ after = before + amount
      BY <1>3
    <3>3. before >= asked
      BY <2>1
    <3>4. coverSharesBurnRequested' + nonCoverSharesBurnRequested' = asked + amount
      BY <1>2
    <3> HIDE DEF before, after, asked
    <3>5. after >= asked + amount
      BY <3>1, <3>2, <3>3
    <3>6. QED
      BY <3>4, <3>5 DEF after
  <2>3. QED
    BY <2>2 DEF BurnerHasTheRequested, SharesRequestedToBurn
<1>5. QED
  BY <1>2, <1>4, BurnerStep

LEMMA SendToBurnerStep ==
  ASSUME AccInv, NEW amount \in Nat, SendToBurner(amount)
  PROVE  AccInv' /\ (QueueHasTheUnfinalized => QueueHasTheUnfinalized') /\ PoolUnchanged
<1> DEFINE x == SharesByPooledEth(amount)
<1>1. x \in Nat
  BY AmountInShares DEF SendToBurner
<1>2. /\ TransferShares("staker", "burner", x)
      /\ UNCHANGED <<poolVars, burnerVars, vaultVars, queueVars, reportVars>>
  BY DEF SendToBurner
<1> HIDE DEF x
<1>3. shares \in [Accounts -> Nat] /\ "burner" \in Accounts /\ "staker" \in Accounts
  BY DEF AccInv, TypeOK, Accounts
<1>4. shares'["burner"] = shares["burner"] + x /\ shares["burner"] \in Nat
  BY <1>2, <1>3 DEF TransferShares
<1>5. SharesRequestedToBurn' = SharesRequestedToBurn /\ SharesRequestedToBurn \in Nat
      /\ SharesRequestedToBurn <= shares["burner"]
  BY <1>2, PoolType DEF SharesRequestedToBurn, burnerVars
<1>6. BurnerHasTheRequested'
  BY <1>1, <1>4, <1>5 DEF BurnerHasTheRequested
<1>7. coverSharesBurnRequested' \in Nat /\ nonCoverSharesBurnRequested' \in Nat
  BY <1>2 DEF AccInv, TypeOK, burnerVars
<1>8. QED
  BY <1>1, <1>2, <1>6, <1>7, BurnerStep

LEMMA RecoverExcessStep ==
  ASSUME AccInv, RecoverExcessStETH
  PROVE  AccInv' /\ (QueueHasTheUnfinalized => QueueHasTheUnfinalized') /\ PoolUnchanged
<1> DEFINE x == SharesByPooledEth(PooledEthByShares(ExcessShares))
<1>1. /\ TransferShares("burner", "treasury", x)
      /\ PooledEthByShares(ExcessShares) > 0
      /\ UNCHANGED <<poolVars, burnerVars, vaultVars, queueVars, reportVars>>
  BY DEF RecoverExcessStETH
<1>2. shares \in [Accounts -> Nat] /\ "burner" \in Accounts /\ "treasury" \in Accounts
      /\ shares["burner"] \in Nat
  BY DEF AccInv, TypeOK, Accounts
<1>3. /\ SharesRequestedToBurn \in Nat /\ SharesRequestedToBurn <= shares["burner"]
      /\ TotalPooledEther \in Nat /\ totalShares \in Nat \ {0}
  BY PoolType
<1>4. ExcessShares \in Nat /\ SharesRequestedToBurn + ExcessShares = shares["burner"]
  BY <1>2, <1>3 DEF ExcessShares
<1>5. TotalPooledEther # 0
  <2>1. SUFFICES ASSUME TotalPooledEther = 0 PROVE FALSE
    OBVIOUS
  <2>2. ExcessShares * 0 = 0 /\ 0 \div totalShares = 0
    BY <1>3, <1>4
  <2>3. PooledEthByShares(ExcessShares) = 0
    BY <2>1, <2>2 DEF PooledEthByShares
  <2>4. QED
    BY <1>1, <2>3
<1>6. x \in Nat /\ x <= ExcessShares
  BY <1>3, <1>4, <1>5, RoundTrip DEF SharesByPooledEth, PooledEthByShares
<1> HIDE DEF x
<1>7. shares'["burner"] = shares["burner"] - x
  BY <1>1, <1>2 DEF TransferShares
<1>8. SharesRequestedToBurn' = SharesRequestedToBurn
  BY <1>1 DEF SharesRequestedToBurn, burnerVars
<1>9. BurnerHasTheRequested'
  BY <1>2, <1>3, <1>4, <1>6, <1>7, <1>8 DEF BurnerHasTheRequested
<1>10. coverSharesBurnRequested' \in Nat /\ nonCoverSharesBurnRequested' \in Nat
  BY <1>1 DEF AccInv, TypeOK, burnerVars
<1>11. QED
  BY <1>1, <1>6, <1>9, <1>10, BurnerStep

LEMMA ReceiveStep ==
  ASSUME AccInv, NEW amount \in Nat, ReceiveWithdrawals(amount) \/ ReceiveELRewards(amount)
  PROVE  AccInv' /\ (QueueHasTheUnfinalized => QueueHasTheUnfinalized') /\ SharePool!Receive
<1>1. UNCHANGED <<poolVars, sharesVars, burnerVars, queueVars, reportVars>>
  BY DEF ReceiveWithdrawals, ReceiveELRewards
<1>2. withdrawalVault \in Nat /\ elRewardsVault \in Nat
  BY DEF AccInv, TypeOK
<1>3. /\ withdrawalVault' \in Nat /\ elRewardsVault' \in Nat
      /\ withdrawalVault' + elRewardsVault' >= withdrawalVault + elRewardsVault
  BY <1>2 DEF ReceiveWithdrawals, ReceiveELRewards
<1>4. TypeOK'
  BY <1>1, <1>3 DEF AccInv, TypeOK, poolVars, sharesVars, burnerVars, queueVars, reportVars
<1>5. SharesAddUp' /\ BurnerHasTheRequested' /\ shares'["dead"] = INITIAL_BALANCE
      /\ IsQueue(queue)' /\ (report' # NoReport => reports' < MAX_REPORTS)
  BY <1>1 DEF AccInv, SharesAddUp, BurnerHasTheRequested, SharesRequestedToBurn,
              sharesVars, burnerVars, queueVars, reportVars
<1>6. QueueHasTheUnfinalized => QueueHasTheUnfinalized'
  BY <1>1 DEF QueueHasTheUnfinalized, queueVars, sharesVars
<1>7. SharePool!Receive
  BY <1>1, <1>3 DEF SharePool!Receive, TransientBalance, poolVars, sharesVars, queueVars
<1>8. QED
  BY <1>4, <1>5, <1>6, <1>7 DEF AccInv

------------------------------------------------------------------------------

(***************************************************************************)
(* What a report that goes through does to the pool.                       *)
(***************************************************************************)
LEMMA WithdrawalsOfReport ==
  ASSUME AccInv, NEW r \in Report, CheckWithdrawals(r)
  PROVE  /\ EtherToLock(r) \in Nat
         /\ SharesOfWithdrawals(r) \in Int
         /\ r.batches = <<>> => EtherToLock(r) = 0 /\ SharesOfWithdrawals(r) = 0
         /\ r.batches # <<>> =>
              /\ r.batches[Len(r.batches)] \in lastFinalizedRequestId..Len(queue)
              /\ SharesOfWithdrawals(r) = CumulativeShares(queue, r.batches[Len(r.batches)])
                                            - CumulativeShares(queue, lastFinalizedRequestId)
<1>1. IsQueue(queue) /\ queue \in Seq(Request) /\ lastFinalizedRequestId \in 0..Len(queue)
      /\ r.batches \in Seq(Nat) /\ r.simulatedShareRate \in Nat
  BY DEF AccInv, TypeOK, Report
<1>2. CASE r.batches = <<>>
  BY <1>2, NoBatches DEF EtherToLock, SharesOfWithdrawals
<1>3. CASE r.batches # <<>>
  <2> DEFINE batches == r.batches
             last == batches[Len(batches)]
  <2>1. BatchesAreValid(queue, lastFinalizedRequestId, batches)
    BY <1>3 DEF CheckWithdrawals
  <2>2. Len(batches) \in 1..Len(batches)
    <3>1. Len(batches) \in Nat /\ Len(batches) # 0
      BY <1>1, <1>3, EmptySeq
    <3>2. QED
      BY <3>1
  <2>3. last \in (lastFinalizedRequestId + 1)..Len(queue)
    <3> DEFINE b == batches
    <3>1. b \in Seq(Nat) /\ BatchesAreValid(queue, lastFinalizedRequestId, b) /\ Len(b) \in 1..Len(b)
      BY <1>1, <2>1, <2>2
    <3> HIDE DEF b
    <3>2. b[Len(b)] \in (lastFinalizedRequestId + 1)..Len(queue)
      BY <1>1, <3>1, ValidBatch
    <3>3. QED
      BY <3>2 DEF b
  <2>4. EtherToLock(r) \in Nat
    <3> DEFINE b == batches
               rate == r.simulatedShareRate
    <3>1. b \in Seq(Nat) /\ BatchesAreValid(queue, lastFinalizedRequestId, b) /\ rate \in Nat
      BY <1>1, <2>1
    <3> HIDE DEF b, rate
    <3>2. PrefinalizedEther(queue, lastFinalizedRequestId, b, rate) \in Nat
      BY <1>1, <3>1, EtherOfBatchesType
    <3>3. QED
      BY <3>2 DEF b, rate, EtherToLock
  <2>5. SharesOfWithdrawals(r) = CumulativeShares(queue, last)
                                   - CumulativeShares(queue, lastFinalizedRequestId)
    <3> DEFINE b == batches
    <3>1. b \in Seq(Nat) /\ BatchesAreValid(queue, lastFinalizedRequestId, b)
      BY <1>1, <2>1
    <3> HIDE DEF b
    <3>2. PrefinalizedShares(queue, lastFinalizedRequestId, b)
            = CumulativeShares(queue, b[Len(b)]) - CumulativeShares(queue, lastFinalizedRequestId)
      BY <1>1, <3>1, SharesOfBatches
    <3>3. QED
      BY <3>2 DEF b, SharesOfWithdrawals
  <2> HIDE DEF last
  <2>6. last \in 0..Len(queue) /\ last \in lastFinalizedRequestId..Len(queue)
    BY <1>1, <2>3
  <2>7. CumulativeShares(queue, last) \in Nat /\ CumulativeShares(queue, lastFinalizedRequestId) \in Nat
    BY <1>1, <2>6, CumulativeType
  <2>8. SharesOfWithdrawals(r) \in Int
    BY <2>5, <2>7
  <2>9. QED
    BY <1>3, <2>4, <2>5, <2>6, <2>8 DEF last
<1>4. QED
  BY <1>2, <1>3

LEMMA SharesOfReport ==
  ASSUME AccInv, NEW r \in Report, CheckWithdrawals(r)
  PROVE  SharesOfWithdrawals(r) \in Nat
<1>1. CASE r.batches = <<>>
  BY <1>1, WithdrawalsOfReport
<1>2. CASE r.batches # <<>>
  <2> DEFINE last == r.batches[Len(r.batches)]
  <2>1. /\ last \in lastFinalizedRequestId..Len(queue)
        /\ SharesOfWithdrawals(r) = CumulativeShares(queue, last)
                                      - CumulativeShares(queue, lastFinalizedRequestId)
    BY <1>2, WithdrawalsOfReport
  <2> HIDE DEF last
  <2>2. IsQueue(queue) /\ queue \in Seq(Request) /\ lastFinalizedRequestId \in 0..Len(queue)
    BY DEF AccInv, TypeOK
  <2>3. last \in 0..Len(queue) /\ lastFinalizedRequestId <= last
    BY <2>1, <2>2
  <2>4. /\ CumulativeShares(queue, last) \in Nat
        /\ CumulativeShares(queue, lastFinalizedRequestId) \in Nat
        /\ CumulativeShares(queue, lastFinalizedRequestId) <= CumulativeShares(queue, last)
    BY <2>2, <2>3, CumulativeType DEF IsQueue
  <2>5. QED
    BY <2>1, <2>4
<1>3. QED
  BY <1>1, <1>2

IsWithinLimit(r, s) ==
  ~IsUnlimited(InitLimiterState(maxPositiveTokenRebase, TotalPooledEther, totalShares)) =>
    \A left \in Int : left >= totalShares - s.sharesToBurn =>
      ((TotalPooledEther + (r.clBalance - PreCLBalance(r)) + s.withdrawals + s.elRewards - EtherToLock(r))
          - Surplus(TotalPooledEther, r.clBalance - PreCLBalance(r)))
          * totalShares * LIMITER_PRECISION_BASE
        <= TotalPooledEther * left * (LIMITER_PRECISION_BASE + maxPositiveTokenRebase)
           + TotalPooledEther * totalShares

LEMMA ReportFacts ==
  ASSUME AccInv, NEW r \in Report, CanHandle(r), NEW s, s = Smoothened(r)
  PROVE  /\ r.clValidators \in clValidators..depositedValidators
         /\ PreCLBalance(r) \in Nat
         /\ EtherToLock(r) \in Nat
         /\ SharesOfWithdrawals(r) \in 0..shares["queue"]
         /\ s.withdrawals \in 0..withdrawalVault
         /\ s.elRewards \in 0..elRewardsVault
         /\ s.sharesToBurn \in 0..(SharesOfWithdrawals(r) + r.sharesRequestedToBurn)
         /\ s.sharesToBurn <= SharesRequestedToBurn + SharesOfWithdrawals(r)
         /\ PostBufferedEther(r, s) \in Nat
         /\ IsWithinLimit(r, s)
<1> DEFINE P == TotalPooledEther
           S == totalShares
           pre == PreCLBalance(r)
           post == r.clBalance
           wv == r.withdrawalVaultBalance
           el == r.elRewardsVaultBalance
           req == r.sharesRequestedToBurn
           lock == EtherToLock(r)
           new == SharesOfWithdrawals(r)
<1>1. P \in Nat /\ S \in Nat /\ SharesRequestedToBurn \in Nat
  BY PoolType
<1>2. post \in Nat /\ wv \in Nat /\ el \in Nat /\ req \in Nat /\ r.clValidators \in Nat
  BY DEF Report
<1>3. /\ bufferedEther \in Nat /\ depositedValidators \in Nat /\ clValidators \in Nat
      /\ clBalance \in Nat /\ withdrawalVault \in Nat /\ elRewardsVault \in Nat
      /\ shares["queue"] \in Nat
  BY DEF AccInv, TypeOK, Accounts
<1>4. /\ r.clValidators <= depositedValidators /\ r.clValidators >= clValidators
      /\ wv <= withdrawalVault /\ el <= elRewardsVault /\ req <= SharesRequestedToBurn
      /\ CheckWithdrawals(r)
      /\ new <= shares["queue"]
      /\ CanDecreaseEther(InitLimiterState(maxPositiveTokenRebase, P, S), pre - post)
      /\ s.canLock
      /\ PostBufferedEther(r, s) >= 0
      /\ s.sharesToBurn <= SharesRequestedToBurn + new
  BY DEF CanHandle, CLStateIsConsistent, CheckAccountingOracleReport
<1>5. pre \in Nat
  <2>1. r.clValidators - clValidators \in Nat /\ DEPOSIT_SIZE \in Nat
    BY <1>2, <1>3, <1>4, AccountingAssumption
  <2>2. (r.clValidators - clValidators) * DEPOSIT_SIZE \in Nat
    BY <2>1, ProductOfNaturals
  <2>3. QED
    BY <1>3, <2>2 DEF PreCLBalance
<1>6. lock \in Nat /\ new \in Nat
  BY <1>4, WithdrawalsOfReport, SharesOfReport
<1>7. s = SmoothenTokenRebase(LimiterAfterCL(P, S, pre, post), wv, el, req, lock, new)
  BY DEF Smoothened
<1>8. /\ s.withdrawals \in 0..wv
      /\ s.elRewards \in 0..el
      /\ s.sharesToBurn \in 0..(new + req)
      /\ ~IsUnlimited(InitLimiterState(maxPositiveTokenRebase, P, S)) =>
           \A left \in Int : left >= S - s.sharesToBurn =>
             ((P + (post - pre) + s.withdrawals + s.elRewards - lock) - Surplus(P, post - pre))
                 * S * LIMITER_PRECISION_BASE
               <= P * left * (LIMITER_PRECISION_BASE + maxPositiveTokenRebase) + P * S
  <2> HIDE DEF P, S, pre, post, wv, el, req, lock, new
  <2> QED BY <1>1, <1>2, <1>4, <1>5, <1>6, <1>7, SmoothenedFacts
<1>9. IsWithinLimit(r, s)
  BY <1>8 DEF IsWithinLimit
<1>10. PostBufferedEther(r, s) \in Nat
  <2>1. s.withdrawals \in Int /\ s.elRewards \in Int
    BY <1>2, <1>8
  <2>2. PostBufferedEther(r, s) \in Int
    BY <1>3, <1>6, <2>1 DEF PostBufferedEther
  <2>3. QED
    BY <1>4, <2>2
<1> HIDE DEF P, S, pre, post, wv, el, req, lock, new
<1>11. /\ s.withdrawals \in 0..withdrawalVault /\ s.elRewards \in 0..elRewardsVault
       /\ new \in 0..shares["queue"] /\ r.clValidators \in clValidators..depositedValidators
  BY <1>2, <1>3, <1>4, <1>6, <1>8
<1>12. QED
  BY <1>4, <1>5, <1>6, <1>8, <1>9, <1>10, <1>11 DEF pre, lock, new, req

LEMMA FeesOfReport ==
  ASSUME AccInv, NEW r \in Report, CanHandle(r), NEW s, s = Smoothened(r),
         NEW change, change = (r.clBalance - PreCLBalance(r)) + s.withdrawals + s.elRewards
  PROVE  /\ SharesMintedAsFees(r, s) \in Nat
         /\ change >= 0 => TotalPooledEther * SharesMintedAsFees(r, s) <= change * totalShares
<1> DEFINE P == TotalPooledEther
           S == totalShares
           pre == PreCLBalance(r)
           fees == SharesMintedAsFees(r, s)
           rewards == r.clBalance + s.withdrawals - pre
<1>1. P \in Nat /\ S \in Nat
  BY PoolType
<1>2. /\ pre \in Nat /\ r.clBalance \in Nat /\ withdrawalVault \in Nat /\ elRewardsVault \in Nat
      /\ s.withdrawals \in 0..withdrawalVault /\ s.elRewards \in 0..elRewardsVault
  BY ReportFacts DEF AccInv, TypeOK, Report
<1>3. change = rewards + s.elRewards /\ change \in Int /\ rewards \in Int /\ s.elRewards \in Nat
  <2> HIDE DEF pre
  <2> QED BY <1>2 DEF pre
<1>4. fees = IF rewards > 0 /\ TotalFee > 0 THEN SharesMintedForRewards(P, S, rewards + s.elRewards) ELSE 0
  BY DEF SharesMintedAsFees
<1> HIDE DEF P, S, fees, rewards
<1>5. CASE rewards > 0 /\ TotalFee > 0
  <2>1. change \in Nat \ {0} /\ fees = SharesMintedForRewards(P, S, change)
    BY <1>3, <1>4, <1>5
  <2>2. SharesMintedForRewards(P, S, change) \in Nat
        /\ P * SharesMintedForRewards(P, S, change) <= change * S
    BY <1>1, <2>1, FeeIsPaidByRewards
  <2>3. QED
    BY <2>1, <2>2 DEF P, S, fees
<1>6. CASE ~(rewards > 0 /\ TotalFee > 0)
  <2>1. fees = 0
    BY <1>4, <1>6
  <2>2. change >= 0 => P * 0 <= change * S
    <3>1. ASSUME change >= 0 PROVE change * S \in Nat
      BY <1>1, <1>3, <3>1, ProductOfNaturals
    <3>2. P * 0 = 0
      BY <1>1
    <3>3. QED
      BY <3>1, <3>2
  <2>3. QED
    BY <2>1, <2>2 DEF P, S, fees
<1>7. QED
  BY <1>5, <1>6

(***************************************************************************)
(* The shares after a report: those of the withdrawals have gone to the    *)
(* Burner, and all it does not burn are still requested of it.             *)
(***************************************************************************)
LEMMA HandledShares ==
  ASSUME AccInv, NEW r \in Report, HandleOracleReport(r), NEW s, s = Smoothened(r)
  PROVE  /\ shares' \in [Accounts -> Nat]
         /\ shares'["dead"] = INITIAL_BALANCE
         /\ shares'["queue"] = shares["queue"] - SharesOfWithdrawals(r)
         /\ totalShares' = (totalShares - s.sharesToBurn) + SharesMintedAsFees(r, s)
         /\ totalShares' \in Nat
         /\ SharesAddUp'
         /\ BurnerHasTheRequested'
         /\ coverSharesBurnRequested' \in Nat /\ nonCoverSharesBurnRequested' \in Nat
<1> DEFINE new == SharesOfWithdrawals(r)
           burnt == s.sharesToBurn
           fees == SharesMintedAsFees(r, s)
           modules == IF TotalFee > 0 THEN (fees * ModulesFee) \div TotalFee ELSE 0
           coverNow == Smaller(burnt, coverSharesBurnRequested)
<1>1. CanHandle(r)
  BY DEF HandleOracleReport
<1>2. /\ totalShares' = (totalShares - burnt) + fees
      /\ shares' = [shares EXCEPT
                      !["queue"]    = @ - new,
                      !["burner"]   = @ + new - burnt,
                      !["modules"]  = @ + modules,
                      !["treasury"] = @ + fees - modules]
      /\ coverSharesBurnRequested' = coverSharesBurnRequested - coverNow
      /\ nonCoverSharesBurnRequested' = nonCoverSharesBurnRequested + new - (burnt - coverNow)
  BY DEF HandleOracleReport, PostTotalShares, CommitSharesToBurn
<1>3. /\ new \in 0..shares["queue"] /\ burnt \in Nat /\ burnt <= SharesRequestedToBurn + new
  <2>1. r.sharesRequestedToBurn \in Nat
    BY DEF Report
  <2>2. QED
    BY <1>1, <2>1, ReportFacts
<1>4. fees \in Nat
  <2> DEFINE change == (r.clBalance - PreCLBalance(r)) + s.withdrawals + s.elRewards
  <2>1. change = (r.clBalance - PreCLBalance(r)) + s.withdrawals + s.elRewards
    OBVIOUS
  <2> HIDE DEF change
  <2> QED BY <1>1, <2>1, FeesOfReport
<1>5. modules \in Nat /\ modules <= fees
  <2> DEFINE f == fees
             m == modules
  <2>1. m = (IF TotalFee > 0 THEN (f * ModulesFee) \div TotalFee ELSE 0) /\ f \in Nat
    BY <1>4
  <2> HIDE DEF f, m
  <2>2. m \in Nat /\ m <= f
    BY <2>1, ModulesGetPartOfFee
  <2>3. QED
    BY <2>2 DEF f, m
<1>6. /\ coverSharesBurnRequested \in Nat /\ nonCoverSharesBurnRequested \in Nat
      /\ shares \in [Accounts -> Nat] /\ totalShares \in Nat
      /\ coverSharesBurnRequested + nonCoverSharesBurnRequested <= shares["burner"]
      /\ shares["dead"] = INITIAL_BALANCE
      /\ totalShares = SumFunction(shares)
      /\ SharesRequestedToBurn = coverSharesBurnRequested + nonCoverSharesBurnRequested
  BY DEF AccInv, TypeOK, SharesAddUp, BurnerHasTheRequested, SharesRequestedToBurn
<1>7. coverNow \in Nat /\ coverNow <= coverSharesBurnRequested /\ coverNow <= burnt
      /\ (coverNow = burnt \/ coverNow = coverSharesBurnRequested)
  BY <1>3, <1>6 DEF Smaller
<1> HIDE DEF new, burnt, fees, modules, coverNow
<1>8. /\ shares["dead"] \in Nat /\ shares["staker"] \in Nat /\ shares["queue"] \in Nat
      /\ shares["burner"] \in Nat /\ shares["modules"] \in Nat /\ shares["treasury"] \in Nat
  BY <1>6 DEF Accounts
<1>9. /\ DOMAIN shares' = Accounts
      /\ shares'["dead"] = shares["dead"]
      /\ shares'["staker"] = shares["staker"]
      /\ shares'["queue"] = shares["queue"] - new
      /\ shares'["burner"] = shares["burner"] + new - burnt
      /\ shares'["modules"] = shares["modules"] + modules
      /\ shares'["treasury"] = shares["treasury"] + fees - modules
  BY <1>2, <1>6 DEF Accounts
<1>10. /\ shares["queue"] - new \in Nat
       /\ shares["burner"] + new - burnt \in Nat
       /\ shares["modules"] + modules \in Nat
       /\ shares["treasury"] + fees - modules \in Nat
  BY <1>3, <1>4, <1>5, <1>6, <1>8
<1>11. /\ \A a \in Accounts : shares'[a] \in Nat
       /\ shares' \in [Accounts -> Nat]
  <2>1. shares' = [a \in Accounts |-> shares'[a]]
    BY <1>2, <1>6
  <2>2. \A a \in Accounts : shares'[a] \in Nat
    BY <1>8, <1>9, <1>10 DEF Accounts
  <2>3. QED
    BY <2>1, <2>2
<1>12. SumFunction(shares') = (totalShares - burnt) + fees
  <2> DEFINE t == shares'
  <2>1. DOMAIN t = Accounts /\ \A a \in Accounts : t[a] \in Int
    BY <1>9, <1>11
  <2> HIDE DEF t
  <2>2. SumFunction(t) = t["dead"] + t["staker"] + t["queue"] + t["burner"]
                           + t["modules"] + t["treasury"]
    BY <2>1, SumOfAccounts
  <2>3. SumFunction(shares) = shares["dead"] + shares["staker"] + shares["queue"] + shares["burner"]
                                + shares["modules"] + shares["treasury"]
    <3>1. DOMAIN shares = Accounts /\ \A a \in Accounts : shares[a] \in Int
      BY <1>6
    <3>2. QED
      BY <3>1, SumOfAccounts
  <2>4. new \in Int /\ burnt \in Int /\ fees \in Int /\ modules \in Int
    BY <1>3, <1>4, <1>5, <1>8
  <2>5. /\ t["dead"] = shares["dead"]
        /\ t["staker"] = shares["staker"]
        /\ t["queue"] = shares["queue"] - new
        /\ t["burner"] = shares["burner"] + new - burnt
        /\ t["modules"] = shares["modules"] + modules
        /\ t["treasury"] = shares["treasury"] + fees - modules
    BY <1>9 DEF t
  <2>6. SumFunction(t) = (totalShares - burnt) + fees
    BY <1>6, <1>8, <2>2, <2>3, <2>4, <2>5
  <2>7. QED
    BY <2>6 DEF t
<1>13. totalShares' \in Nat /\ SharesAddUp'
  <2>1. SharesAddUp'
    BY <1>2, <1>12 DEF SharesAddUp
  <2>2. totalShares' = shares'["dead"] + shares'["staker"] + shares'["queue"] + shares'["burner"]
                         + shares'["modules"] + shares'["treasury"]
    <3> DEFINE t == shares'
    <3>1. DOMAIN t = Accounts /\ \A a \in Accounts : t[a] \in Int
      BY <1>9, <1>11
    <3> HIDE DEF t
    <3>2. SumFunction(t) = t["dead"] + t["staker"] + t["queue"] + t["burner"]
                             + t["modules"] + t["treasury"]
      BY <3>1, SumOfAccounts
    <3>3. QED
      BY <1>2, <1>12, <3>2 DEF t
  <2>3. /\ shares'["dead"] \in Nat /\ shares'["staker"] \in Nat /\ shares'["queue"] \in Nat
        /\ shares'["burner"] \in Nat /\ shares'["modules"] \in Nat /\ shares'["treasury"] \in Nat
    BY <1>11 DEF Accounts
  <2>4. QED
    BY <2>1, <2>2, <2>3
<1>14. coverSharesBurnRequested' \in Nat /\ nonCoverSharesBurnRequested' \in Nat
  BY <1>2, <1>3, <1>6, <1>7, <1>8
<1>15. BurnerHasTheRequested'
  <2>1. coverSharesBurnRequested' + nonCoverSharesBurnRequested'
          = (coverSharesBurnRequested + nonCoverSharesBurnRequested) + new - burnt
    BY <1>2, <1>3, <1>6, <1>7, <1>8
  <2>2. shares'["burner"] >= coverSharesBurnRequested' + nonCoverSharesBurnRequested'
    BY <1>3, <1>6, <1>8, <1>9, <2>1
  <2>3. QED
    BY <2>2 DEF BurnerHasTheRequested, SharesRequestedToBurn
<1>16. QED
  BY <1>2, <1>6, <1>9, <1>11, <1>13, <1>14, <1>15 DEF new, burnt, fees

LEMMA HandledEther ==
  ASSUME AccInv, NEW r \in Report, HandleOracleReport(r), NEW s, s = Smoothened(r)
  PROVE  /\ bufferedEther' \in Nat /\ clValidators' \in 0..depositedValidators /\ clBalance' \in Nat
         /\ depositedValidators' = depositedValidators
         /\ withdrawalVault' = withdrawalVault - s.withdrawals /\ withdrawalVault' \in Nat
         /\ elRewardsVault' = elRewardsVault - s.elRewards /\ elRewardsVault' \in Nat
         /\ lockedEtherAmount' = lockedEtherAmount + EtherToLock(r)
         /\ bufferedEther' = (bufferedEther + s.elRewards + s.withdrawals) - EtherToLock(r)
         /\ TransientBalance' = TransientBalance - (PreCLBalance(r) - clBalance)
         /\ TotalPooledEther' \in Nat
         /\ TotalPooledEther' = TotalPooledEther + (r.clBalance - PreCLBalance(r)) + s.withdrawals
                                  + s.elRewards - EtherToLock(r)
         /\ clBalance' - clBalance - (clValidators' - clValidators) * DEPOSIT_SIZE
              = r.clBalance - PreCLBalance(r)
<1> DEFINE lock == EtherToLock(r)
           appeared == (r.clValidators - clValidators) * DEPOSIT_SIZE
<1>1. CanHandle(r) /\ CheckWithdrawals(r)
  BY DEF HandleOracleReport, CanHandle
<1>2. /\ clValidators' = r.clValidators /\ clBalance' = r.clBalance
      /\ bufferedEther' = PostBufferedEther(r, s)
      /\ withdrawalVault' = withdrawalVault - s.withdrawals
      /\ elRewardsVault' = elRewardsVault - s.elRewards
      /\ FinalizeWithdrawals(r)
      /\ depositedValidators' = depositedValidators
  BY DEF HandleOracleReport
<1>3. /\ bufferedEther \in Nat /\ depositedValidators \in Nat /\ clValidators \in Nat
      /\ clBalance \in Nat /\ withdrawalVault \in Nat /\ elRewardsVault \in Nat
      /\ lockedEtherAmount \in Nat /\ r.clBalance \in Nat /\ DEPOSIT_SIZE \in Nat
      /\ clValidators <= depositedValidators /\ TransientBalance \in Nat
  BY PoolType, AccountingAssumption DEF AccInv, TypeOK, Report
<1>4. /\ r.clValidators \in clValidators..depositedValidators
      /\ s.withdrawals \in 0..withdrawalVault /\ s.elRewards \in 0..elRewardsVault
      /\ lock \in Nat /\ PostBufferedEther(r, s) \in Nat
  BY <1>1, ReportFacts
<1>5. bufferedEther' = (bufferedEther + s.elRewards + s.withdrawals) - lock /\ bufferedEther' \in Nat
  BY <1>2, <1>3, <1>4 DEF PostBufferedEther
<1>6. lockedEtherAmount' = lockedEtherAmount + lock
  <2>1. CASE lock > 0
    BY <1>2, <2>1 DEF FinalizeWithdrawals
  <2>2. CASE ~(lock > 0)
    <3>1. lock = 0 /\ lockedEtherAmount' = lockedEtherAmount
      BY <1>2, <1>4, <2>2 DEF FinalizeWithdrawals
    <3>2. QED
      BY <1>3, <3>1
  <2>3. QED
    BY <2>1, <2>2
<1>7. appeared \in Nat /\ PreCLBalance(r) = clBalance + appeared
  <2>1. r.clValidators - clValidators \in Nat
    BY <1>3, <1>4
  <2>2. QED
    BY <1>3, <2>1, ProductOfNaturals DEF PreCLBalance
<1>8. TransientBalance' = TransientBalance - appeared /\ TransientBalance' \in Nat
  <2> DEFINE a == depositedValidators - r.clValidators
             b == r.clValidators - clValidators
  <2>1. a \in Nat /\ b \in Nat /\ depositedValidators - clValidators = a + b
    BY <1>3, <1>4
  <2>2. TransientBalance' = a * DEPOSIT_SIZE /\ TransientBalance = (a + b) * DEPOSIT_SIZE
        /\ appeared = b * DEPOSIT_SIZE
    BY <1>2, <2>1 DEF TransientBalance
  <2> HIDE DEF a, b, appeared
  <2>3. (a + b) * DEPOSIT_SIZE = a * DEPOSIT_SIZE + b * DEPOSIT_SIZE
        /\ a * DEPOSIT_SIZE \in Nat /\ b * DEPOSIT_SIZE \in Nat
    BY <1>3, <2>1
  <2>4. QED
    BY <2>2, <2>3
<1>9. clBalance' - clBalance - (clValidators' - clValidators) * DEPOSIT_SIZE
        = r.clBalance - PreCLBalance(r)
  <2>1. (clValidators' - clValidators) * DEPOSIT_SIZE = appeared
    BY <1>2
  <2> HIDE DEF appeared
  <2>2. QED
    BY <1>2, <1>3, <1>7, <2>1
<1> HIDE DEF lock, appeared
<1>10. TotalPooledEther' \in Nat
       /\ TotalPooledEther' = TotalPooledEther + (r.clBalance - PreCLBalance(r)) + s.withdrawals
                                + s.elRewards - lock
  <2>1. /\ TotalPooledEther' = bufferedEther' + clBalance' + TransientBalance'
        /\ TotalPooledEther = bufferedEther + clBalance + TransientBalance
    BY DEF TotalPooledEther
  <2>2. s.withdrawals \in Int /\ s.elRewards \in Int
    BY <1>3, <1>4
  <2>3. QED
    BY <1>2, <1>3, <1>4, <1>5, <1>7, <1>8, <2>1, <2>2
<1>11. clValidators' \in 0..depositedValidators /\ clBalance' \in Nat
       /\ withdrawalVault' \in Nat /\ elRewardsVault' \in Nat
  BY <1>2, <1>3, <1>4
<1>12. TransientBalance' = TransientBalance - (PreCLBalance(r) - clBalance)
  BY <1>3, <1>7, <1>8
<1>13. QED
  BY <1>2, <1>5, <1>6, <1>9, <1>10, <1>11, <1>12 DEF lock

LEMMA HandledQueue ==
  ASSUME AccInv, NEW r \in Report, HandleOracleReport(r)
  PROVE  /\ queue' = queue
         /\ lastFinalizedRequestId' \in 0..Len(queue)
         /\ QueueHasTheUnfinalized /\ (r.batches # <<>> => EtherToLock(r) > 0) => QueueHasTheUnfinalized'
<1> DEFINE s == Smoothened(r)
           lock == EtherToLock(r)
           last == r.batches[Len(r.batches)]
           C(id) == CumulativeShares(queue, id)
<1>1. CanHandle(r) /\ CheckWithdrawals(r) /\ FinalizeWithdrawals(r) /\ queue' = queue
  BY DEF HandleOracleReport, CanHandle
<1>2. queue \in Seq(Request) /\ lastFinalizedRequestId \in 0..Len(queue)
  BY DEF AccInv, TypeOK
<1>3. shares'["queue"] = shares["queue"] - SharesOfWithdrawals(r)
  BY HandledShares
<1>4. lock \in Nat
  BY <1>1, WithdrawalsOfReport
<1>5. shares["queue"] \in Nat
  BY DEF AccInv, TypeOK, Accounts
<1>6. CASE r.batches = <<>>
  <2>1. lock = 0 /\ SharesOfWithdrawals(r) = 0
    BY <1>1, <1>6, WithdrawalsOfReport
  <2>2. lastFinalizedRequestId' = lastFinalizedRequestId
    BY <1>1, <2>1 DEF FinalizeWithdrawals
  <2>3. shares'["queue"] = shares["queue"]
    BY <1>3, <1>5, <2>1
  <2>4. QueueHasTheUnfinalized => QueueHasTheUnfinalized'
    BY <1>1, <2>2, <2>3 DEF QueueHasTheUnfinalized
  <2>5. QED
    BY <1>1, <1>2, <2>2, <2>4
<1>7. CASE r.batches # <<>>
  <2>1. last \in lastFinalizedRequestId..Len(queue)
        /\ SharesOfWithdrawals(r) = C(last) - C(lastFinalizedRequestId)
    BY <1>1, <1>7, WithdrawalsOfReport
  <2>2. lastFinalizedRequestId' = IF lock > 0 THEN last ELSE lastFinalizedRequestId
    BY <1>1 DEF FinalizeWithdrawals
  <2> HIDE DEF last, lock
  <2>3. last \in 0..Len(queue) /\ Len(queue) \in 0..Len(queue)
    BY <1>2, <2>1
  <2>4. C(last) \in Nat /\ C(lastFinalizedRequestId) \in Nat /\ C(Len(queue)) \in Nat
    BY <1>2, <2>3, CumulativeType
  <2>5. ASSUME QueueHasTheUnfinalized, lock > 0 PROVE QueueHasTheUnfinalized'
    <3>1. shares["queue"] = C(Len(queue)) - C(lastFinalizedRequestId)
      BY <2>5 DEF QueueHasTheUnfinalized
    <3>2. shares'["queue"] = C(Len(queue)) - C(last)
      BY <1>3, <2>1, <2>4, <3>1
    <3>3. lastFinalizedRequestId' = last
      BY <2>2, <2>5
    <3>4. QED
      BY <1>1, <3>2, <3>3 DEF QueueHasTheUnfinalized
  <2>6. QED
    BY <1>1, <1>2, <1>7, <2>2, <2>3, <2>5 DEF lock
<1>8. QED
  BY <1>6, <1>7

LEMMA OracleReportStep ==
  ASSUME AccInv, OracleReport
  PROVE  /\ AccInv'
         /\ QueueHasTheUnfinalized /\ FinalizationLocksEther => QueueHasTheUnfinalized'
<1>1. report # NoReport /\ HandleOracleReport(report) /\ report' = NoReport /\ staked' = 0
      /\ reports' = reports + 1
  BY DEF OracleReport
<1>2. report \in Report
  BY <1>1 DEF AccInv, TypeOK
<1>3. ASSUME NEW r, r = report
      PROVE  /\ TypeOK' /\ SharesAddUp' /\ BurnerHasTheRequested' /\ IsQueue(queue')
             /\ shares'["dead"] = INITIAL_BALANCE
             /\ QueueHasTheUnfinalized /\ FinalizationLocksEther => QueueHasTheUnfinalized'
  <2> DEFINE s == Smoothened(r)
  <2>1. r \in Report /\ HandleOracleReport(r) /\ s = Smoothened(r)
    BY <1>1, <1>2, <1>3
  <2> HIDE DEF s
  <2>2. /\ shares' \in [Accounts -> Nat]
        /\ shares'["dead"] = INITIAL_BALANCE
        /\ totalShares' \in Nat
        /\ SharesAddUp'
        /\ BurnerHasTheRequested'
        /\ coverSharesBurnRequested' \in Nat /\ nonCoverSharesBurnRequested' \in Nat
    BY <2>1, HandledShares
  <2>3. /\ bufferedEther' \in Nat /\ clValidators' \in 0..depositedValidators /\ clBalance' \in Nat
        /\ depositedValidators' = depositedValidators
        /\ withdrawalVault' \in Nat
        /\ elRewardsVault' \in Nat
        /\ lockedEtherAmount' = lockedEtherAmount + EtherToLock(r)
    BY <2>1, HandledEther
  <2>4. /\ queue' = queue
        /\ lastFinalizedRequestId' \in 0..Len(queue)
        /\ QueueHasTheUnfinalized /\ (r.batches # <<>> => EtherToLock(r) > 0) => QueueHasTheUnfinalized'
    BY <2>1, HandledQueue
  <2>5. CheckWithdrawals(r)
    BY <2>1 DEF HandleOracleReport, CanHandle
  <2>6. EtherToLock(r) \in Nat
    BY <2>1, <2>5, WithdrawalsOfReport
  <2>7. reports' \in 0..MAX_REPORTS /\ staked' \in 0..MAX_STAKED
    <3>1. reports \in 0..MAX_REPORTS /\ reports < MAX_REPORTS /\ {MAX_REPORTS, MAX_STAKED} \subseteq Nat
      BY <1>1, AccountingAssumption DEF AccInv, TypeOK
    <3>2. QED
      BY <1>1, <3>1
  <2>8. /\ depositedValidators \in Nat /\ lockedEtherAmount \in Nat /\ queue \in Seq(Request)
        /\ IsQueue(queue)
    BY DEF AccInv, TypeOK
  <2>9. /\ lockedEtherAmount' \in Nat /\ clValidators' \in Nat
        /\ clValidators' <= depositedValidators'
    BY <2>3, <2>6, <2>8
  <2>10. TypeOK'
    BY <1>1, <2>2, <2>3, <2>4, <2>7, <2>8, <2>9 DEF TypeOK
  <2>11. IsQueue(queue')
    BY <2>4, <2>8
  <2>12. FinalizationLocksEther => (r.batches # <<>> => EtherToLock(r) > 0)
    BY <1>1, <1>3 DEF FinalizationLocksEther
  <2>13. QED
    BY <2>2, <2>4, <2>10, <2>11, <2>12
<1>4. QED
  BY <1>1, <1>3 DEF AccInv

LEMMA OracleReportKeepsEther ==
  ASSUME AccInv, OracleReport
  PROVE  /\ SharePool!KeepsEther
         /\ report.batches = <<>> => SharePool!KeepsPrice
<1>1. report # NoReport /\ HandleOracleReport(report)
  BY DEF OracleReport
<1>2. report \in Report
  BY <1>1 DEF AccInv, TypeOK
<1>3. ASSUME NEW r, r = report
      PROVE  SharePool!KeepsEther /\ (r.batches = <<>> => SharePool!KeepsPrice)
  <2> DEFINE s == Smoothened(r)
             lock == EtherToLock(r)
             w == s.withdrawals
             e == s.elRewards
             change == (r.clBalance - PreCLBalance(r)) + w + e
             fees == SharesMintedAsFees(r, s)
  <2>1. r \in Report /\ HandleOracleReport(r) /\ CanHandle(r) /\ CheckWithdrawals(r) /\ s = Smoothened(r)
    BY <1>1, <1>2, <1>3 DEF HandleOracleReport, CanHandle
  <2>2. /\ bufferedEther \in Nat /\ clBalance \in Nat /\ withdrawalVault \in Nat /\ elRewardsVault \in Nat
        /\ lockedEtherAmount \in Nat /\ r.clBalance \in Nat
        /\ TotalPooledEther \in Nat /\ TransientBalance \in Nat /\ totalShares \in Nat
    BY <2>1, PoolType DEF AccInv, TypeOK, Report
  <2> HIDE DEF s
  <2>3. /\ bufferedEther' \in Nat /\ clBalance' \in Nat
        /\ withdrawalVault' = withdrawalVault - w /\ withdrawalVault' \in Nat
        /\ elRewardsVault' = elRewardsVault - e /\ elRewardsVault' \in Nat
        /\ lockedEtherAmount' = lockedEtherAmount + lock
        /\ bufferedEther' = (bufferedEther + e + w) - lock
        /\ TransientBalance' = TransientBalance - (PreCLBalance(r) - clBalance)
        /\ TotalPooledEther' \in Nat
        /\ TotalPooledEther' = TotalPooledEther + (r.clBalance - PreCLBalance(r)) + w + e - lock
    BY <2>1, HandledEther
  <2>4. lock \in Nat /\ w \in 0..withdrawalVault /\ e \in 0..elRewardsVault /\ PreCLBalance(r) \in Nat
        /\ s.sharesToBurn \in Nat
    <3>1. s.sharesToBurn \in 0..(SharesOfWithdrawals(r) + r.sharesRequestedToBurn)
          /\ SharesOfWithdrawals(r) \in 0..shares["queue"]
          /\ lock \in Nat /\ w \in 0..withdrawalVault /\ e \in 0..elRewardsVault /\ PreCLBalance(r) \in Nat
      BY <2>1, ReportFacts
    <3>2. QED
      BY <3>1
  <2>5. SharePool!KeepsEther
    <3>1. bufferedEther' >= 0 /\ lockedEtherAmount' >= lockedEtherAmount
      BY <2>2, <2>3, <2>4
    <3>2. withdrawalVault' + elRewardsVault' \in 0..(withdrawalVault + elRewardsVault)
      BY <2>2, <2>3, <2>4
    <3>3. bufferedEther' + (withdrawalVault' + elRewardsVault') + lockedEtherAmount'
            = bufferedEther + (withdrawalVault + elRewardsVault) + lockedEtherAmount
      BY <2>2, <2>3, <2>4
    <3>4. QED
      BY <3>1, <3>2, <3>3 DEF SharePool!KeepsEther
  <2>6. ASSUME r.batches = <<>> PROVE SharePool!KeepsPrice
    <3>1. lock = 0 /\ lockedEtherAmount' = lockedEtherAmount
      BY <2>1, <2>2, <2>3, <2>6, WithdrawalsOfReport, SMTT(30)
    <3>2. TotalPooledEther' = TotalPooledEther + change /\ change \in Int
      BY <2>2, <2>3, <2>4, <3>1
    <3>3. /\ SharePool!Pooled = TotalPooledEther
          /\ (bufferedEther' + (clBalance' + TransientBalance')) = TotalPooledEther'
      <4>1. TransientBalance' \in Int
        BY <2>2, <2>3, <2>4
      <4>2. QED
        BY <2>2, <2>3, <4>1 DEF SharePool!Pooled, TotalPooledEther
    <3>4. /\ fees \in Nat
          /\ change >= 0 => TotalPooledEther * fees <= change * totalShares
      <4> DEFINE c == change
      <4>1. c = (r.clBalance - PreCLBalance(r)) + s.withdrawals + s.elRewards
        OBVIOUS
      <4> HIDE DEF c
      <4>2. /\ SharesMintedAsFees(r, s) \in Nat
            /\ c >= 0 => TotalPooledEther * SharesMintedAsFees(r, s) <= c * totalShares
        BY <2>1, <4>1, FeesOfReport
      <4>3. QED
        BY <4>2 DEF c
    <3>5. totalShares' = (totalShares - s.sharesToBurn) + fees /\ totalShares' \in Nat
      BY <2>1, HandledShares
    <3> DEFINE P == TotalPooledEther
               S == totalShares
               P2 == TotalPooledEther'
               S2 == totalShares'
    <3>6. ASSUME change >= 0 PROVE P2 * S >= P * S2
      <4> HIDE DEF change, fees
      <4>1. S2 <= S + fees /\ S2 \in Nat /\ P2 = P + change /\ P \in Nat /\ S \in Nat /\ change \in Nat
        BY <2>2, <2>4, <3>2, <3>4, <3>5, <3>6
      <4>2. P * fees <= change * S /\ fees \in Nat
        BY <3>4, <3>6
      <4> HIDE DEF P, S, P2, S2
      <4>3. S2 * P <= (S + fees) * P
        <5>1. S2 \in Int /\ S + fees \in Int
          BY <4>1, <4>2
        <5>2. QED
          BY <4>1, <5>1, MultipleMonotone
      <4>4. (S + fees) * P = P * S + P * fees /\ S2 * P = P * S2 /\ P2 * S = P * S + change * S
        BY <4>1, <4>2
      <4>5. P * S \in Nat /\ P * fees \in Nat /\ P * S2 \in Nat /\ change * S \in Nat
        BY <4>1, <4>2, ProductOfNaturals
      <4> DEFINE a == P * S
                 b == P * fees
                 c == P * S2
                 d == change * S
      <4>6. c <= a + b /\ b <= d /\ a \in Nat /\ b \in Nat /\ c \in Nat /\ d \in Nat /\ P2 * S = a + d
        BY <4>2, <4>3, <4>4, <4>5
      <4> HIDE DEF a, b, c, d
      <4>7. P2 * S >= c
        BY <4>6
      <4>8. QED
        BY <4>7 DEF c
    <3>7. P2 + lockedEtherAmount' - P - lockedEtherAmount = change
      <4> HIDE DEF change
      <4> QED BY <2>2, <3>1, <3>2
    <3>8. SharePool!Pooled' = P2
      BY <3>3 DEF SharePool!Pooled
    <3> HIDE DEF change
    <3>9. QED
      BY <3>3, <3>6, <3>7, <3>8 DEF SharePool!KeepsPrice
  <2>7. QED
    BY <2>5, <2>6
<1>4. QED
  BY <1>3

LEMMA OracleReportIsLimited ==
  ASSUME AccInv, OracleReport
  PROVE  RebaseIsLimited
<1>1. report # NoReport /\ HandleOracleReport(report)
  BY DEF OracleReport
<1>2. report \in Report
  BY <1>1 DEF AccInv, TypeOK
<1>3. ASSUME NEW r, r = report
      PROVE  RebaseIsLimited
  <2> DEFINE s == Smoothened(r)
             P == TotalPooledEther
             S == totalShares
             isOff == IsUnlimited(InitLimiterState(maxPositiveTokenRebase, P, S))
             gain == r.clBalance - PreCLBalance(r)
             surplus == P + gain - MaxPooledEther(maxPositiveTokenRebase, P)
  <2>1. r \in Report /\ HandleOracleReport(r) /\ CanHandle(r) /\ s = Smoothened(r)
    BY <1>1, <1>2, <1>3 DEF HandleOracleReport
  <2> HIDE DEF s
  <2>2. IsWithinLimit(r, s)
    BY <2>1, ReportFacts
  <2>3. /\ totalShares' = (S - s.sharesToBurn) + SharesMintedAsFees(r, s)
        /\ totalShares' \in Nat
    BY <2>1, HandledShares
  <2>4. SharesMintedAsFees(r, s) \in Nat /\ s.sharesToBurn \in Nat /\ S \in Nat
    <3> DEFINE c == gain + s.withdrawals + s.elRewards
    <3>1. c = (r.clBalance - PreCLBalance(r)) + s.withdrawals + s.elRewards
      OBVIOUS
    <3> HIDE DEF c
    <3>2. SharesMintedAsFees(r, s) \in Nat
      BY <2>1, <3>1, FeesOfReport
    <3>3. s.sharesToBurn \in 0..(SharesOfWithdrawals(r) + r.sharesRequestedToBurn)
      BY <2>1, ReportFacts
    <3>4. QED
      BY <3>2, <3>3, PoolType
  <2>5. totalShares' \in Int /\ totalShares' >= S - s.sharesToBurn
    BY <2>3, <2>4
  <2>6. ~isOff =>
          (TotalPooledEther' - Surplus(P, gain)) * S * LIMITER_PRECISION_BASE
            <= P * totalShares' * (LIMITER_PRECISION_BASE + maxPositiveTokenRebase) + P * S
    <3>1. TotalPooledEther' = P + gain + s.withdrawals + s.elRewards - EtherToLock(r)
      BY <2>1, HandledEther
    <3>2. QED
      BY <2>2, <2>5, <3>1 DEF IsWithinLimit
  <2>7. clBalance' - clBalance - (clValidators' - clValidators) * DEPOSIT_SIZE = gain
    BY <2>1, HandledEther
  <2>8. Surplus(P, gain) = IF surplus > 0 THEN surplus ELSE 0
    BY DEF Surplus
  <2> HIDE DEF P, S, gain
  <2>9. QED
    BY <2>6, <2>7, <2>8 DEF RebaseIsLimited, P, S
<1>4. QED
  BY <1>3

------------------------------------------------------------------------------

(***************************************************************************)
(* The report that is gathered.  Its simulation burns nothing, so that     *)
(* there are shares to divide by.                                          *)
(***************************************************************************)
LEMMA SimulationType ==
  ASSUME AccInv, NEW r \in Report, r.batches = <<>>, CanHandle(Simulated(r))
  PROVE  /\ SimulatedShareRate(r) \in Nat
         /\ FinalizationBatches(r) \in Seq(Nat)
<1> DEFINE t == Simulated(r)
           s == Smoothened(t)
<1>1. t \in Report /\ t.sharesRequestedToBurn = 0 /\ t.batches = <<>>
  BY DEF Simulated, Report
<1>2. CanHandle(t) /\ CheckWithdrawals(t)
  BY DEF CanHandle
<1> HIDE DEF t
<1>3. SharesOfWithdrawals(t) = 0
  BY <1>1, <1>2, WithdrawalsOfReport
<1>4. s = Smoothened(t)
  OBVIOUS
<1> HIDE DEF s
<1>5. /\ t.clValidators \in clValidators..depositedValidators
      /\ s.withdrawals \in 0..withdrawalVault /\ s.elRewards \in 0..elRewardsVault
      /\ s.sharesToBurn \in 0..(SharesOfWithdrawals(t) + t.sharesRequestedToBurn)
      /\ PostBufferedEther(t, s) \in Nat
  BY <1>1, <1>2, <1>4, ReportFacts
<1>6. s.sharesToBurn = 0
  BY <1>1, <1>3, <1>5
<1>7. SharesMintedAsFees(t, s) \in Nat
  <2> DEFINE c == (t.clBalance - PreCLBalance(t)) + s.withdrawals + s.elRewards
  <2>1. c = (t.clBalance - PreCLBalance(t)) + s.withdrawals + s.elRewards
    OBVIOUS
  <2> HIDE DEF c
  <2>2. QED
    BY <1>1, <1>2, <1>4, <2>1, FeesOfReport
<1>8. totalShares \in Nat \ {0} /\ UnfinalizedStETH \in Nat
  BY PoolType
<1>9. PostTotalShares(t, s) \in Nat \ {0}
  BY <1>6, <1>7, <1>8 DEF PostTotalShares
<1>10. PostTotalPooledEther(t, s) \in Nat
  <2>1. depositedValidators \in Nat /\ clValidators \in Nat /\ DEPOSIT_SIZE \in Nat /\ t.clBalance \in Nat
    BY <1>1, AccountingAssumption DEF AccInv, TypeOK, Report
  <2>2. depositedValidators - t.clValidators \in Nat
    BY <1>5, <2>1
  <2>3. (depositedValidators - t.clValidators) * DEPOSIT_SIZE \in Nat
    BY <2>1, <2>2, ProductOfNaturals
  <2>4. QED
    BY <1>5, <2>1, <2>3, SMTT(30) DEF PostTotalPooledEther
<1>11. SimulatedShareRate(r) = (PostTotalPooledEther(t, s) * SHARE_RATE_PRECISION)
                                 \div PostTotalShares(t, s)
  BY DEF SimulatedShareRate, s, t
<1>12. SimulatedShareRate(r) \in Nat
  <2> DEFINE N == PostTotalPooledEther(t, s) * SHARE_RATE_PRECISION
             D == PostTotalShares(t, s)
  <2>1. N \in Nat /\ D \in Nat \ {0}
    BY <1>9, <1>10, ReportSanityCheckerAssumption, ProductOfNaturals
  <2> HIDE DEF N, D
  <2>2. N \div D \in Nat
    BY <2>1, Division
  <2>3. QED
    BY <1>11, <2>2 DEF N, D
<1>13. AvailableEth(r) \in Int
  <2>1. bufferedEther \in Nat /\ withdrawalVault \in Nat /\ elRewardsVault \in Nat
    BY DEF AccInv, TypeOK
  <2>2. AvailableEth(r) = s.withdrawals + s.elRewards + Smaller(bufferedEther, UnfinalizedStETH)
    BY DEF AvailableEth, s, t
  <2>3. Smaller(bufferedEther, UnfinalizedStETH) \in Int
    BY <1>8, <2>1 DEF Smaller
  <2>4. s.withdrawals \in Int /\ s.elRewards \in Int
    BY <1>5, <2>1
  <2>5. QED
    BY <2>2, <2>3, <2>4
<1>14. FinalizationBatches(r) \in Seq(Nat)
  <2>1. IsQueue(queue) /\ lastFinalizedRequestId \in 0..Len(queue) /\ MAX_REQUESTS \in Nat
    BY AccountingAssumption DEF AccInv, TypeOK
  <2> DEFINE rate == SimulatedShareRate(r)
             budget == AvailableEth(r)
  <2>2. rate \in Nat /\ budget \in Int
    BY <1>12, <1>13
  <2>3. FinalizationBatches(r) =
          IF budget = 0 THEN <<>>
          ELSE CalculateFinalizationBatches(queue, lastFinalizedRequestId, rate,
                 reports, MAX_REQUESTS, StartCalculation(budget)).batches
    BY DEF FinalizationBatches
  <2> HIDE DEF rate, budget
  <2>4. CalculateFinalizationBatches(queue, lastFinalizedRequestId, rate,
          reports, MAX_REQUESTS, StartCalculation(budget)).batches \in Seq(Nat)
    BY <2>1, <2>2, CalculatedBatchesType
  <2>5. <<>> \in Seq(Nat)
    BY EmptySeq
  <2>6. QED
    BY <2>3, <2>4, <2>5
<1>15. QED
  BY <1>12, <1>14

LEMMA GatherReportStep ==
  ASSUME AccInv, NEW validators \in clValidators..depositedValidators, NEW reward \in Int,
         NEW excludeVaultsBalances \in BOOLEAN, NEW skipWithdrawals \in BOOLEAN,
         GatherReport(validators, reward, excludeVaultsBalances, skipWithdrawals)
  PROVE  AccInv' /\ (QueueHasTheUnfinalized => QueueHasTheUnfinalized') /\ PoolUnchanged
         /\ reports' = reports
<1> DEFINE diff == (validators - clValidators) * DEPOSIT_SIZE + reward
           observed == Observed(validators, diff, excludeVaultsBalances)
<1>1. /\ reports < MAX_REPORTS /\ report = NoReport /\ observed.clBalance >= 0
      /\ ~skipWithdrawals => CanHandle(Simulated(observed))
      /\ report' = IF skipWithdrawals THEN observed
                   ELSE [observed EXCEPT !.batches = FinalizationBatches(observed),
                                         !.simulatedShareRate = SimulatedShareRate(observed)]
      /\ staked' = 0
      /\ UNCHANGED <<poolVars, sharesVars, burnerVars, vaultVars, queueVars, reports>>
  BY DEF GatherReport
<1>2. /\ clValidators \in Nat /\ depositedValidators \in Nat /\ clBalance \in Nat
      /\ withdrawalVault \in Nat /\ elRewardsVault \in Nat /\ SharesRequestedToBurn \in Nat
  BY PoolType DEF AccInv, TypeOK
<1>3. observed \in Report /\ observed.batches = <<>>
  <2>1. validators \in Nat
    BY <1>2
  <2>2. clBalance + diff \in Nat
    <3>1. diff \in Int
      BY <1>2, <2>1, AccountingAssumption
    <3>2. observed.clBalance = clBalance + diff
      BY DEF Observed
    <3> HIDE DEF diff, observed
    <3>3. QED
      BY <1>1, <1>2, <3>1, <3>2
  <2> HIDE DEF diff
  <2>3. QED
    BY <1>2, <2>1, <2>2, EmptySeq DEF Observed, Report
<1> HIDE DEF observed
<1>4. report' \in Report
  <2>1. CASE skipWithdrawals
    BY <1>1, <1>3, <2>1
  <2>2. CASE ~skipWithdrawals
    <3>1. SimulatedShareRate(observed) \in Nat /\ FinalizationBatches(observed) \in Seq(Nat)
      BY <1>1, <1>3, <2>2, SimulationType
    <3>2. QED
      BY <1>1, <1>3, <2>2, <3>1 DEF Report
  <2>3. QED
    BY <2>1, <2>2
<1>5. TypeOK'
  <2>1. staked' \in 0..MAX_STAKED
    BY <1>1, AccountingAssumption
  <2>2. QED
    BY <1>1, <1>4, <2>1
       DEF AccInv, TypeOK, poolVars, sharesVars, burnerVars, vaultVars, queueVars
<1>6. SharesAddUp' /\ BurnerHasTheRequested' /\ shares'["dead"] = INITIAL_BALANCE
      /\ IsQueue(queue)' /\ (report' # NoReport => reports' < MAX_REPORTS)
  BY <1>1 DEF AccInv, SharesAddUp, BurnerHasTheRequested, SharesRequestedToBurn,
              sharesVars, burnerVars, queueVars
<1>7. QueueHasTheUnfinalized => QueueHasTheUnfinalized'
  BY <1>1 DEF QueueHasTheUnfinalized, queueVars, sharesVars
<1>8. PoolUnchanged /\ reports' = reports
  BY <1>1 DEF PoolUnchanged, TransientBalance, poolVars, sharesVars, vaultVars, queueVars
<1>9. QED
  BY <1>5, <1>6, <1>7, <1>8 DEF AccInv

------------------------------------------------------------------------------

(***************************************************************************)
(* All steps.                                                              *)
(***************************************************************************)
LEMMA AccInit ==
  Init => AccInv /\ QueueHasTheUnfinalized /\ SharePool!Init
<1> SUFFICES ASSUME Init PROVE AccInv /\ QueueHasTheUnfinalized /\ SharePool!Init
  OBVIOUS
<1>1. INITIAL_BALANCE \in Nat /\ {MAX_STAKED, MAX_REPORTS} \subseteq Nat
  BY AccountingAssumption
<1>2. queue = <<>> /\ Len(queue) = 0 /\ queue \in Seq(Request)
  BY EmptySeq DEF Init
<1>3. TypeOK
  BY <1>1, <1>2 DEF Init, TypeOK
<1>4. IsQueue(queue)
  <2>1. \A i \in 0..Len(queue) : CumulativeStETH(queue, i) = 0 /\ CumulativeShares(queue, i) = 0
    BY <1>2 DEF CumulativeStETH, CumulativeShares
  <2>2. QED
    BY <1>2, <2>1 DEF IsQueue
<1>5. SharesAddUp
  <2> DEFINE s == shares
  <2>1. DOMAIN s = Accounts /\ \A a \in Accounts : s[a] \in Int
    BY <1>1 DEF Init
  <2>2. /\ s["dead"] = INITIAL_BALANCE /\ s["staker"] = 0 /\ s["queue"] = 0 /\ s["burner"] = 0
        /\ s["modules"] = 0 /\ s["treasury"] = 0
    BY DEF Init, Accounts
  <2> HIDE DEF s
  <2>3. SumFunction(s) = s["dead"] + s["staker"] + s["queue"] + s["burner"] + s["modules"] + s["treasury"]
    BY <2>1, SumOfAccounts
  <2>4. SumFunction(s) = INITIAL_BALANCE
    BY <1>1, <2>2, <2>3
  <2>5. QED
    BY <2>4 DEF s, SharesAddUp, Init
<1>6. BurnerHasTheRequested /\ shares["dead"] = INITIAL_BALANCE
  BY DEF Init, BurnerHasTheRequested, SharesRequestedToBurn, Accounts
<1>7. QueueHasTheUnfinalized
  BY <1>2 DEF Init, QueueHasTheUnfinalized, CumulativeShares, Accounts
<1>8. SharePool!Init
  <2>1. (0 - 0) * DEPOSIT_SIZE = 0
    BY AccountingAssumption
  <2>2. QED
    BY <2>1 DEF Init, SharePool!Init, TransientBalance
<1>9. QED
  BY <1>3, <1>4, <1>5, <1>6, <1>7, <1>8 DEF AccInv, Init

(***************************************************************************)
(* A step is a stake, a deposit, an income of the vaults, a report, or     *)
(* leaves the pool alone.                                                  *)
(***************************************************************************)
LEMMA AccNext ==
  ASSUME AccInv, [Next]_vars
  PROVE  /\ AccInv'
         /\ QueueHasTheUnfinalized /\ FinalizationLocksEther => QueueHasTheUnfinalized'
         /\ OracleReport \/ reports' = reports
         /\ OracleReport \/ SharePool!Stake \/ SharePool!Deposit \/ SharePool!Receive \/ PoolUnchanged
<1> DEFINE Goal == /\ AccInv'
                   /\ QueueHasTheUnfinalized /\ FinalizationLocksEther => QueueHasTheUnfinalized'
                   /\ OracleReport \/ reports' = reports
                   /\ OracleReport \/ SharePool!Stake \/ SharePool!Deposit \/ SharePool!Receive
                        \/ PoolUnchanged
<1>1. /\ Stakes \subseteq Nat /\ Requests \subseteq Nat /\ Burns \subseteq Nat
      /\ VaultIncomes \subseteq Nat /\ CLRewards \subseteq Int /\ DEPOSIT_SIZE \in Nat \ {0}
  BY AccountingAssumption
<1>2. ASSUME NEW amount \in Stakes, Submit(amount) PROVE Goal
  <2>1. reports' = reports
    BY <1>2 DEF Submit
  <2>2. QED
    BY <1>1, <1>2, <2>1, SubmitStep
<1>3. ASSUME NEW count \in 1..(bufferedEther \div DEPOSIT_SIZE), Deposit(count) PROVE Goal
  <2>1. bufferedEther \in Nat
    BY DEF AccInv, TypeOK
  <2>2. bufferedEther \div DEPOSIT_SIZE \in Nat
    BY <1>1, <2>1, Division
  <2>3. count \in Nat
    BY <2>2
  <2>4. reports' = reports
    BY <1>3 DEF Deposit, reportVars
  <2>5. QED
    BY <1>3, <2>3, <2>4, DepositStep
<1>4. ASSUME NEW amount \in Requests, RequestWithdrawal(amount) PROVE Goal
  <2>1. reports' = reports
    BY <1>4 DEF RequestWithdrawal, reportVars
  <2>2. QED
    BY <1>1, <1>4, <2>1, RequestWithdrawalStep
<1>5. ASSUME NEW isCover \in BOOLEAN, NEW amount \in Burns, RequestBurnMyStETH(isCover, amount) PROVE Goal
  <2> DEFINE x == SharesByPooledEth(amount)
  <2>1. x \in Nat
    BY <1>1, <1>5, AmountInShares DEF RequestBurnMyStETH
  <2>2. /\ TransferShares("staker", "burner", x) /\ RequestBurn(isCover, x)
        /\ UNCHANGED <<poolVars, vaultVars, queueVars, reportVars>>
    BY <1>5 DEF RequestBurnMyStETH
  <2> HIDE DEF x
  <2>3. reports' = reports
    BY <2>2 DEF reportVars
  <2>4. QED
    BY <2>1, <2>2, <2>3, RequestBurnStep
<1>6. ASSUME NEW isCover \in BOOLEAN, NEW amount \in Burns, RequestBurnShares(isCover, amount) PROVE Goal
  <2>1. /\ TransferShares("staker", "burner", amount) /\ RequestBurn(isCover, amount)
        /\ UNCHANGED <<poolVars, vaultVars, queueVars, reportVars>>
    BY <1>6 DEF RequestBurnShares
  <2>2. reports' = reports
    BY <2>1 DEF reportVars
  <2>3. QED
    BY <1>1, <2>1, <2>2, RequestBurnStep
<1>7. ASSUME NEW amount \in Burns, SendToBurner(amount) PROVE Goal
  <2>1. reports' = reports
    BY <1>7 DEF SendToBurner, reportVars
  <2>2. QED
    BY <1>1, <1>7, <2>1, SendToBurnerStep
<1>8. ASSUME RecoverExcessStETH PROVE Goal
  <2>1. reports' = reports
    BY <1>8 DEF RecoverExcessStETH, reportVars
  <2>2. QED
    BY <1>8, <2>1, RecoverExcessStep
<1>9. ASSUME NEW amount \in VaultIncomes, ReceiveWithdrawals(amount) \/ ReceiveELRewards(amount) PROVE Goal
  <2>1. reports' = reports
    BY <1>9 DEF ReceiveWithdrawals, ReceiveELRewards, reportVars
  <2>2. QED
    BY <1>1, <1>9, <2>1, ReceiveStep
<1>10. ASSUME NEW validators \in clValidators..depositedValidators, NEW reward \in CLRewards,
              NEW excludeVaultsBalances \in BOOLEAN, NEW skipWithdrawals \in BOOLEAN,
              GatherReport(validators, reward, excludeVaultsBalances, skipWithdrawals)
       PROVE  Goal
  <2>1. reward \in Int
    BY <1>1
  <2>2. QED
    BY <1>10, <2>1, GatherReportStep
<1>11. ASSUME OracleReport PROVE Goal
  BY <1>11, OracleReportStep
<1>12. ASSUME UNCHANGED vars PROVE Goal
  <2>1. UNCHANGED <<poolVars, sharesVars, burnerVars, vaultVars, queueVars, reportVars>>
    BY <1>12 DEF vars
  <2>2. TypeOK'
    BY <2>1 DEF AccInv, TypeOK, poolVars, sharesVars, burnerVars, vaultVars, queueVars, reportVars
  <2>3. SharesAddUp' /\ BurnerHasTheRequested' /\ shares'["dead"] = INITIAL_BALANCE
        /\ IsQueue(queue)' /\ (report' # NoReport => reports' < MAX_REPORTS)
    BY <2>1 DEF AccInv, SharesAddUp, BurnerHasTheRequested, SharesRequestedToBurn,
                sharesVars, burnerVars, queueVars, reportVars
  <2>4. QueueHasTheUnfinalized => QueueHasTheUnfinalized'
    BY <2>1 DEF QueueHasTheUnfinalized, queueVars, sharesVars
  <2>5. PoolUnchanged /\ reports' = reports
    BY <2>1 DEF PoolUnchanged, TransientBalance, poolVars, sharesVars, vaultVars, queueVars, reportVars
  <2>6. QED
    BY <2>2, <2>3, <2>4, <2>5 DEF AccInv
<1> HIDE DEF Goal
<1>13. Goal
  BY <1>2, <1>3, <1>4, <1>5, <1>6, <1>7, <1>8, <1>9, <1>10, <1>11, <1>12 DEF Next
<1>14. QED
  BY <1>13 DEF Goal

LEMMA AccAlways == Spec => []AccInv
<1>1. Init => AccInv
  BY AccInit
<1>2. AccInv /\ [Next]_vars => AccInv'
  BY AccNext
<1>3. QED
  BY <1>1, <1>2, PTL DEF Spec

(***************************************************************************)
(* The types: no subtraction of the accounting underflows, the validators  *)
(* on the consensus layer are among the deposited ones, and what is        *)
(* gathered is a report.                                                   *)
(***************************************************************************)
THEOREM AccountingTypes == Spec => []TypeOK
<1>1. AccInv => TypeOK
  BY DEF AccInv
<1>2. QED
  BY <1>1, AccAlways, PTL

(***************************************************************************)
(* The shares add up and the Burner has what is requested of it, whatever  *)
(* a report burns, mints and limits.                                       *)
(***************************************************************************)
THEOREM SharesAlwaysAddUp == Spec => [](SharesAddUp /\ BurnerHasTheRequested)
<1>1. AccInv => SharesAddUp /\ BurnerHasTheRequested
  BY DEF AccInv
<1>2. QED
  BY <1>1, AccAlways, PTL

(***************************************************************************)
(* All shares are accounted for, those of the queue as long as no report   *)
(* finalizes requests that are worth nothing: the queue would keep the     *)
(* requests whose shares are burnt.                                        *)
(***************************************************************************)
THEOREM SharesStayAccountedFor ==
  Spec /\ []FinalizationLocksEther => []SharesAreAccountedFor
<1>1. Init => QueueHasTheUnfinalized
  BY AccInit
<1>2. AccInv /\ FinalizationLocksEther /\ QueueHasTheUnfinalized /\ [Next]_vars => QueueHasTheUnfinalized'
  BY AccNext
<1>3. AccInv /\ QueueHasTheUnfinalized => SharesAreAccountedFor
  BY DEF AccInv, SharesAreAccountedFor
<1>4. QED
  BY <1>1, <1>2, <1>3, AccAlways, PTL DEF Spec

(***************************************************************************)
(* No report makes a share dearer by more than the limit, whatever is      *)
(* submitted, requested and burnt between gathering and handling it.       *)
(***************************************************************************)
THEOREM RebasesStayLimited == Spec => RebasesAreLimited
<1>1. AccInv /\ [Next]_vars => [RebaseIsLimited]_vars
  <2> SUFFICES ASSUME AccInv, [Next]_vars PROVE RebaseIsLimited
    OBVIOUS
  <2>1. OracleReport \/ reports' = reports
    BY AccNext
  <2>2. CASE OracleReport
    BY <2>2, OracleReportIsLimited
  <2>3. CASE reports' = reports
    BY <2>3 DEF RebaseIsLimited
  <2>4. QED
    BY <2>1, <2>2, <2>3
<1>2. QED
  BY <1>1, AccAlways, PTL DEF Spec, RebasesAreLimited

(***************************************************************************)
(* Ether is conserved: it comes in by stakes, the vaults and the           *)
(* validators, a stake buys shares at the price before it, and all else    *)
(* moves ether within the pool.                                            *)
(***************************************************************************)
THEOREM EtherIsConserved == Spec => SharePool!EtherSpec
<1>1. Init => SharePool!Init
  BY AccInit
<1>2. AccInv /\ [Next]_vars =>
        [SharePool!Stake \/ SharePool!Deposit \/ SharePool!Receive \/ SharePool!KeepsEther]_(SharePool!poolVars)
  <2> SUFFICES ASSUME AccInv, [Next]_vars
               PROVE  \/ SharePool!Stake \/ SharePool!Deposit \/ SharePool!Receive \/ SharePool!KeepsEther
                      \/ UNCHANGED SharePool!poolVars
    OBVIOUS
  <2>1. OracleReport \/ SharePool!Stake \/ SharePool!Deposit \/ SharePool!Receive \/ PoolUnchanged
    BY AccNext
  <2>2. CASE OracleReport
    BY <2>2, OracleReportKeepsEther
  <2>3. CASE PoolUnchanged
    BY <2>3 DEF PoolUnchanged, SharePool!poolVars
  <2>4. QED
    BY <2>1, <2>2, <2>3
<1>3. QED
  BY <1>1, <1>2, AccAlways, PTL DEF Spec, SharePool!EtherSpec

(***************************************************************************)
(* A report without withdrawals makes a share cheaper only if the          *)
(* validators lost more than the vaults make up for: the fee is paid by    *)
(* the rewards alone.                                                      *)
(***************************************************************************)
THEOREM RewardsPayTheFee ==
  Spec => [][OracleReport /\ report.batches = <<>> => SharePool!KeepsPrice]_vars
<1>1. AccInv /\ [Next]_vars => [OracleReport /\ report.batches = <<>> => SharePool!KeepsPrice]_vars
  <2> SUFFICES ASSUME AccInv, OracleReport, report.batches = <<>> PROVE SharePool!KeepsPrice
    OBVIOUS
  <2>1. QED
    BY OracleReportKeepsEther
<1>2. QED
  BY <1>1, AccAlways, PTL DEF Spec
===============================================================================

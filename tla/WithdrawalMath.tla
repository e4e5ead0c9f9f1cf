--------------------------- MODULE WithdrawalMath ---------------------------
(***************************************************************************)
(* The calculations of WithdrawalQueueBase that change no state: the value *)
(* of a range of requests, the batches a report finalizes, and the search  *)
(* for the checkpoint of a request.                                        *)
(*                                                                         *)
(* A queue is the sequence of its requests; request ids count from 1.      *)
(***************************************************************************)
EXTENDS Integers, Sequences, SequencesExt

CONSTANTS
  E27_PRECISION_BASE,   \* precision of a share rate
  MAX_BATCHES_LENGTH    \* limit of the length of finalization batches

ASSUME WithdrawalMathAssumption ==
  /\ E27_PRECISION_BASE \in Nat \ {0}
  /\ MAX_BATCHES_LENGTH \in Nat \ {0}

NOT_FOUND == 0

CumulativeStETH(queue, id) == IF id = 0 THEN 0 ELSE queue[id].cumulativeStETH
CumulativeShares(queue, id) == IF id = 0 THEN 0 ELSE queue[id].cumulativeShares

(***************************************************************************)
(* _calcBatch: the requests after preStart, up to end.                     *)
(***************************************************************************)
CalcBatch(queue, preStart, end) ==
  LET stETH  == CumulativeStETH(queue, end) - CumulativeStETH(queue, preStart)
      shares == CumulativeShares(queue, end) - CumulativeShares(queue, preStart)
  IN  [shareRate |-> (stETH * E27_PRECISION_BASE) \div shares, stETH |-> stETH, shares |-> shares]

(***************************************************************************)
(* The ether a batch is worth under a maximal share rate: nominal, or      *)
(* discounted if its own rate is higher.                                   *)
(***************************************************************************)
EtherOf(batch, maxShareRate) ==
  IF batch.shareRate > maxShareRate
  THEN (batch.shares * maxShareRate) \div E27_PRECISION_BASE
  ELSE batch.stETH

------------------------------------------------------------------------------

(***************************************************************************)
(* prefinalize.                                                            *)
(***************************************************************************)
BatchesAreValid(queue, lastFinalized, batches) ==
  /\ batches # <<>>
  /\ batches[1] > lastFinalized
  /\ batches[Len(batches)] <= Len(queue)
  /\ \A i \in 2..Len(batches) : batches[i - 1] < batches[i]

BatchAt(queue, lastFinalized, batches, i) ==
  CalcBatch(queue, IF i = 1 THEN lastFinalized ELSE batches[i - 1], batches[i])

PrefinalizedEther(queue, lastFinalized, batches, maxShareRate) ==
  SumFunction([i \in DOMAIN batches |->
                 EtherOf(BatchAt(queue, lastFinalized, batches, i), maxShareRate)])

OverlappingShares(queue, lastFinalized, batches) ==   \* mutant: each batch starts at the first request
  SumFunction([i \in DOMAIN batches |-> CalcBatch(queue, lastFinalized, batches[i]).shares])

PrefinalizedShares(queue, lastFinalized, batches) ==
  SumFunction([i \in DOMAIN batches |-> BatchAt(queue, lastFinalized, batches, i).shares])

------------------------------------------------------------------------------

(***************************************************************************)
(* calculateFinalizationBatches: one call handles up to perCall requests   *)
(* and returns a state to be passed to the next call.  The budget is       *)
(* charged before the length of the batches is looked at.                  *)
(***************************************************************************)
StartCalculation(budget) == [remainingEthBudget |-> budget, finished |-> FALSE, batches |-> <<>>]

CanCalculate(state) == ~state.finished /\ state.remainingEthBudget # 0

AlwaysJoins(queue, maxShareRate, prevShareRate, shareRate, id) == TRUE   \* mutant: one batch for all

JoinsLastBatch(queue, maxShareRate, prevShareRate, shareRate, id) ==
  \/ id > 1 /\ queue[id - 1].reportTimestamp = queue[id].reportTimestamp
  \/ prevShareRate <= maxShareRate /\ shareRate <= maxShareRate
  \/ prevShareRate > maxShareRate /\ shareRate > maxShareRate

HandleRequest(queue, maxShareRate, maxTimestamp, acc, id) ==
  LET batch == CalcBatch(queue, id - 1, id)
      eth   == EtherOf(batch, maxShareRate)
      n     == Len(acc.batches)
      charged  == [acc EXCEPT !.remainingEthBudget = @ - eth]
      handled  == [charged EXCEPT !.prevShareRate = batch.shareRate]
      extended == JoinsLastBatch(queue, maxShareRate, acc.prevShareRate, batch.shareRate, id)
  IN  IF acc.stopped \/ queue[id].timestamp > maxTimestamp \/ eth > acc.remainingEthBudget
      THEN [acc EXCEPT !.stopped = TRUE]
      ELSE IF n # 0 /\ extended
      THEN [handled EXCEPT !.batches[n] = id]
      ELSE IF n = MAX_BATCHES_LENGTH
      THEN [charged EXCEPT !.stopped = TRUE]
      ELSE [handled EXCEPT !.batches = Append(@, id)]

(***************************************************************************)
(* A call takes up the rate of the request the previous one handled last.  *)
(***************************************************************************)
LastHandled(lastFinalized, state) ==
  IF state.batches = <<>> THEN lastFinalized ELSE state.batches[Len(state.batches)]

StartWithoutRate(queue, lastFinalized, state) ==   \* mutant: every call starts afresh
  [remainingEthBudget |-> state.remainingEthBudget, batches |-> state.batches,
   prevShareRate |-> 0, stopped |-> FALSE]

StartOfCall(queue, lastFinalized, state) ==
  LET prev == LastHandled(lastFinalized, state)
  IN  [remainingEthBudget |-> state.remainingEthBudget,
       batches            |-> state.batches,
       prevShareRate      |-> IF state.batches = <<>> THEN 0
                              ELSE CalcBatch(queue, prev - 1, prev).shareRate,
       stopped            |-> FALSE]

CalculateFinalizationBatches(queue, lastFinalized, maxShareRate, maxTimestamp, perCall, state) ==
  LET prev    == LastHandled(lastFinalized, state)
      count   == IF prev + perCall < Len(queue) THEN perCall ELSE Len(queue) - prev
      result  == FoldLeft(LAMBDA acc, id : HandleRequest(queue, maxShareRate, maxTimestamp, acc, id),
                          StartOfCall(queue, lastFinalized, state), [k \in 1..count |-> prev + k])
  IN  [remainingEthBudget |-> result.remainingEthBudget,
       finished           |-> result.stopped \/ prev + count = Len(queue),
       batches            |-> result.batches]

------------------------------------------------------------------------------

(***************************************************************************)
(* _findCheckpointHint over checkpoints start..end, for a finalized        *)
(* request.                                                                *)
(***************************************************************************)
FindAlwaysRight(checkpoints, requestId, start, end) == end - 1   \* mutant: no search

FindWithinCheckpoints(checkpoints, requestId, start, end) ==
  LET search[range \in Nat \X Nat] ==
        LET min == range[1]
            max == range[2]
            mid == (max + min + 1) \div 2
        IN  IF max <= min THEN min
            ELSE IF checkpoints[mid].fromRequestId <= requestId
            THEN search[<<mid, max>>]
            ELSE search[<<min, mid - 1>>]
  IN  search[<<start, end - 1>>]

FindCheckpointHint(checkpoints, lastFinalized, requestId, start, end) ==
  LET last == Len(checkpoints)
  IN  IF last = 0 \/ requestId > lastFinalized \/ start > end
      THEN NOT_FOUND
      ELSE IF requestId >= checkpoints[end].fromRequestId
      THEN IF end = last \/ requestId < checkpoints[end + 1].fromRequestId THEN end ELSE NOT_FOUND
      ELSE IF requestId < checkpoints[start].fromRequestId
      THEN NOT_FOUND
      ELSE FindWithinCheckpoints(checkpoints, requestId, start, end)

==============================================================================

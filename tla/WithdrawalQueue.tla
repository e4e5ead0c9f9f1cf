--------------------------- MODULE WithdrawalQueue ---------------------------
(***************************************************************************)
(* The withdrawal queue (WithdrawalQueueBase, WithdrawalQueue and          *)
(* WithdrawalQueueERC721 as one contract): holders lock stETH in requests, *)
(* an oracle report finalizes the oldest ones at a share rate, owners      *)
(* claim the ether or transfer the request, which is a token.              *)
(*                                                                         *)
(* A transaction over several requests is the sequence of its single ones. *)
(* The call that sends ether comes last in a claim, so what its recipient  *)
(* does in turn is another step.  stETH is external: a pool of ether and   *)
(* shares that a report replaces.                                          *)
(***************************************************************************)
EXTENDS WithdrawalMath, PausableUntil

CONSTANTS
  Accounts,                      \* token holders
  NoAccount,                     \* address(0)
  MIN_STETH_WITHDRAWAL_AMOUNT,
  MAX_STETH_WITHDRAWAL_AMOUNT,
  BUNKER_MODE_DISABLED_TIMESTAMP, \* type(uint256).max: later than any block
  REQUEST_TIMESTAMP_MARGIN,      \* limit of the report sanity checker
  Amounts,                       \* bound: amounts asked for
  Pools,                         \* bound: states of the stETH pool
  Budgets,                       \* bound: ether a report may spend on requests
  BunkerModes,                   \* bound: bunker mode flags reported
  ReportDelays,                  \* bound: time from the reference slot to its report
  PauseDurations,                \* bound
  MAX_REQUESTS,                  \* bound on the length of the queue
  MAX_TIME                       \* bound on the clock

Pool == [ether : Nat \ {0}, shares : Nat \ {0}]

ASSUME WithdrawalQueueAssumption ==
  /\ NoAccount \notin Accounts
  /\ MIN_STETH_WITHDRAWAL_AMOUNT \in Nat \ {0}
  /\ MAX_STETH_WITHDRAWAL_AMOUNT \in Nat
  /\ BUNKER_MODE_DISABLED_TIMESTAMP \in Nat
  /\ REQUEST_TIMESTAMP_MARGIN \in Nat
  /\ Amounts \subseteq Nat
  /\ Budgets \subseteq Nat
  /\ BunkerModes \subseteq BOOLEAN
  /\ ReportDelays \subseteq Nat \ {0}
  /\ Pools \subseteq Pool
  /\ PauseDurations \subseteq Nat \ {0}
  /\ MAX_REQUESTS \in Nat
  /\ MAX_TIME \in Nat

VARIABLES
  now,                      \* block.timestamp
  steth,                    \* external: the stETH pool
  queueShares,              \* external: stETH shares of this contract
  balance,                  \* ether of this contract
  paid,                     \* external: ether sent to claimers so far
  queue,                    \* QUEUE_POSITION, without the dummy request 0
  checkpoints,              \* CHECKPOINTS_POSITION, without the dummy 0
  lastFinalizedRequestId,
  lockedEtherAmount,
  requestsByOwner,
  tokenApprovals,           \* TOKEN_APPROVALS_POSITION
  operatorApprovals,        \* OPERATOR_APPROVALS_POSITION
  lastReportTimestamp,
  bunkerModeSinceTimestamp,
  resumeSinceTimestamp      \* of PausableUntil

etherVars == <<queueShares, balance, paid, lockedEtherAmount>>
queueVars == <<queue, checkpoints, lastFinalizedRequestId>>
tokenVars == <<requestsByOwner, tokenApprovals, operatorApprovals>>
reportVars == <<steth, lastReportTimestamp, bunkerModeSinceTimestamp>>
vars == <<now, etherVars, queueVars, tokenVars, reportVars, resumeSinceTimestamp>>

WithdrawalRequest ==
  [cumulativeStETH : Nat, cumulativeShares : Nat, owner : Accounts,
   timestamp : Nat, claimed : BOOLEAN, reportTimestamp : Nat]

Checkpoint == [fromRequestId : Nat, maxShareRate : Nat]

TypeOK ==
  /\ now \in Nat
  /\ steth \in Pool
  /\ queueShares \in Nat
  /\ balance \in Nat
  /\ paid \in Nat
  /\ queue \in Seq(WithdrawalRequest)
  /\ checkpoints \in Seq(Checkpoint)
  /\ lastFinalizedRequestId \in 0..Len(queue)
  /\ lockedEtherAmount \in Nat
  /\ requestsByOwner \in [Accounts -> SUBSET (1..Len(queue))]
  /\ tokenApprovals \in [1..Len(queue) -> Accounts \union {NoAccount}]
  /\ operatorApprovals \in [Accounts -> SUBSET Accounts]
  /\ lastReportTimestamp \in Nat
  /\ bunkerModeSinceTimestamp \in Nat
  /\ resumeSinceTimestamp \in Nat

(***************************************************************************)
(* initialize: the queue is empty and paused.                              *)
(***************************************************************************)
Init ==
  /\ now = 1
  /\ steth \in Pools
  /\ queueShares = 0
  /\ balance = 0
  /\ paid = 0
  /\ queue = <<>>
  /\ checkpoints = <<>>
  /\ lastFinalizedRequestId = 0
  /\ lockedEtherAmount = 0
  /\ requestsByOwner = [a \in Accounts |-> {}]
  /\ tokenApprovals = <<>>
  /\ operatorApprovals = [a \in Accounts |-> {}]
  /\ lastReportTimestamp = 0
  /\ bunkerModeSinceTimestamp = BUNKER_MODE_DISABLED_TIMESTAMP
  /\ resumeSinceTimestamp = PAUSE_INFINITELY

------------------------------------------------------------------------------

lastRequestId == Len(queue)
Paused == IsPaused(resumeSinceTimestamp, now)
IsBunkerModeActive == bunkerModeSinceTimestamp < BUNKER_MODE_DISABLED_TIMESTAMP

UnfinalizedStETH ==
  CumulativeStETH(queue, lastRequestId) - CumulativeStETH(queue, lastFinalizedRequestId)

(***************************************************************************)
(* StETH: conversions at the current rate, rounded down.                   *)
(***************************************************************************)
SharesByPooledEth(amount) == (amount * steth.shares) \div steth.ether
PooledEthByShares(shares) == (shares * steth.ether) \div steth.shares

(***************************************************************************)
(* Requesting.  The shares that come with the stETH are the ones recorded. *)
(***************************************************************************)
Enqueue(amountOfStETH, amountOfShares, owner) ==
  LET requestId == lastRequestId + 1
  IN  /\ lastRequestId < MAX_REQUESTS
      /\ queue' = Append(queue,
           [cumulativeStETH  |-> CumulativeStETH(queue, lastRequestId) + amountOfStETH,
            cumulativeShares |-> CumulativeShares(queue, lastRequestId) + amountOfShares,
            owner            |-> owner,
            timestamp        |-> now,
            claimed          |-> FALSE,
            reportTimestamp  |-> lastReportTimestamp])
      /\ requestsByOwner' = [requestsByOwner EXCEPT ![owner] = @ \union {requestId}]
      /\ tokenApprovals' = Append(tokenApprovals, NoAccount)
      /\ UNCHANGED <<checkpoints, lastFinalizedRequestId, operatorApprovals>>

RequestWithdrawal(amountOfStETH, owner) ==
  /\ ~Paused
  /\ amountOfStETH >= MIN_STETH_WITHDRAWAL_AMOUNT
  /\ amountOfStETH <= MAX_STETH_WITHDRAWAL_AMOUNT
  /\ Enqueue(amountOfStETH, SharesByPooledEth(amountOfStETH), owner)
  /\ queueShares' = queueShares + SharesByPooledEth(amountOfStETH)
  /\ UNCHANGED <<now, balance, paid, lockedEtherAmount, reportVars, resumeSinceTimestamp>>

(***************************************************************************)
(* requestWithdrawalsWstETH: a wstETH is a share; unwrapping gives stETH.  *)
(***************************************************************************)
RequestWithdrawalWstETH(amountOfWstETH, owner) ==
  RequestWithdrawal(PooledEthByShares(amountOfWstETH), owner)

------------------------------------------------------------------------------

(***************************************************************************)
(* _finalize, with the ether the report sends along.                       *)
(***************************************************************************)
FinalizeFromLast(lastId, amountOfETH, maxShareRate) ==   \* mutant: starts one request early
  /\ lastId > lastFinalizedRequestId
  /\ checkpoints' = Append(checkpoints,
       [fromRequestId |-> lastFinalizedRequestId, maxShareRate |-> maxShareRate])
  /\ lockedEtherAmount' = lockedEtherAmount + amountOfETH
  /\ balance' = balance + amountOfETH
  /\ lastFinalizedRequestId' = lastId

Finalize(lastId, amountOfETH, maxShareRate) ==
  /\ ~Paused
  /\ lastId <= lastRequestId
  /\ lastId > lastFinalizedRequestId
  /\ amountOfETH <= CumulativeStETH(queue, lastId) - CumulativeStETH(queue, lastFinalizedRequestId)
  /\ checkpoints' = Append(checkpoints,
       [fromRequestId |-> lastFinalizedRequestId + 1, maxShareRate |-> maxShareRate])
  /\ lockedEtherAmount' = lockedEtherAmount + amountOfETH
  /\ balance' = balance + amountOfETH
  /\ lastFinalizedRequestId' = lastId

(***************************************************************************)
(* Lido's part of a report: price the batches, request the burning of      *)
(* their shares, and finalize if there is ether to lock.                   *)
(***************************************************************************)
ProcessWithdrawals(batches, maxShareRate, reportTimestamp) ==
  LET eth    == PrefinalizedEther(queue, lastFinalizedRequestId, batches, maxShareRate)
      shares == PrefinalizedShares(queue, lastFinalizedRequestId, batches)
      lastId == batches[Len(batches)]
  IN  IF batches = <<>> \/ Paused
      THEN UNCHANGED <<checkpoints, lastFinalizedRequestId, queueShares, balance, lockedEtherAmount>>
      ELSE /\ maxShareRate > 0
           /\ reportTimestamp >= queue[lastId].timestamp + REQUEST_TIMESTAMP_MARGIN
           /\ BatchesAreValid(queue, lastFinalizedRequestId, batches)
           /\ queueShares' = queueShares - shares
           /\ IF eth > 0
              THEN Finalize(lastId, eth, maxShareRate)
              ELSE UNCHANGED <<checkpoints, lastFinalizedRequestId, balance, lockedEtherAmount>>

OnOracleReport(isBunkerModeNow, bunkerStartTimestamp, currentReportTimestamp) ==
  /\ bunkerStartTimestamp < now
  /\ currentReportTimestamp < now
  /\ lastReportTimestamp' = currentReportTimestamp
  /\ bunkerModeSinceTimestamp' =
       IF isBunkerModeNow = IsBunkerModeActive THEN bunkerModeSinceTimestamp
       ELSE IF isBunkerModeNow THEN bunkerStartTimestamp
       ELSE BUNKER_MODE_DISABLED_TIMESTAMP

(***************************************************************************)
(* What the oracle daemon reports: as many requests as the budget allows,  *)
(* at the share rate the report leaves.                                    *)
(***************************************************************************)
ShareRate(pool) == (pool.ether * E27_PRECISION_BASE) \div pool.shares

(***************************************************************************)
(* A request of MIN_STETH_WITHDRAWAL_AMOUNT (100 wei) made at one of the   *)
(* rates is worth at least a wei at any other.                             *)
(***************************************************************************)
ASSUME RequestIsWorthAWei ==
  \A p, q \in Pools :
    ((MIN_STETH_WITHDRAWAL_AMOUNT * p.shares) \div p.ether) * ShareRate(q) >= E27_PRECISION_BASE

FinalizationBatches(budget, maxShareRate, reportTimestamp) ==
  IF budget = 0 THEN <<>>
  ELSE CalculateFinalizationBatches(queue, lastFinalizedRequestId, maxShareRate,
         reportTimestamp - REQUEST_TIMESTAMP_MARGIN, MAX_REQUESTS, StartCalculation(budget)).batches

OracleReport(isBunkerModeNow, reportTimestamp, budget, pool) ==
  LET maxShareRate == ShareRate(pool)
  IN  /\ reportTimestamp > lastReportTimestamp
      /\ OnOracleReport(isBunkerModeNow, lastReportTimestamp, reportTimestamp)
      /\ ProcessWithdrawals(FinalizationBatches(budget, maxShareRate, reportTimestamp),
                            maxShareRate, reportTimestamp)
      /\ steth' = pool
      /\ UNCHANGED <<now, paid, queue, tokenVars, resumeSinceTimestamp>>

------------------------------------------------------------------------------

(***************************************************************************)
(* Claiming.                                                               *)
(***************************************************************************)
HintIsValid(table, requestId, hint) ==
  /\ hint \in DOMAIN table
  /\ requestId >= table[hint].fromRequestId
  /\ hint < Len(table) => requestId < table[hint + 1].fromRequestId

ClaimableWithHint(requestId, hint) ==
  EtherOf(CalcBatch(queue, requestId - 1, requestId), checkpoints[hint].maxShareRate)

ClaimKeepingTheToken(requestId, hint, sender) ==   \* mutant: the token is not removed
  /\ requestId \in 1..lastFinalizedRequestId
  /\ ~queue[requestId].claimed
  /\ queue[requestId].owner = sender
  /\ HintIsValid(checkpoints, requestId, hint)
  /\ queue' = [queue EXCEPT ![requestId].claimed = TRUE]
  /\ lockedEtherAmount' = lockedEtherAmount - ClaimableWithHint(requestId, hint)
  /\ balance' = balance - ClaimableWithHint(requestId, hint)
  /\ paid' = paid + ClaimableWithHint(requestId, hint)
  /\ UNCHANGED <<now, queueShares, checkpoints, lastFinalizedRequestId, tokenVars, reportVars,
                 resumeSinceTimestamp>>

Claim(requestId, hint, sender) ==
  LET eth == ClaimableWithHint(requestId, hint)
  IN  /\ requestId \in 1..lastFinalizedRequestId
      /\ ~queue[requestId].claimed
      /\ queue[requestId].owner = sender
      /\ queue' = [queue EXCEPT ![requestId].claimed = TRUE]
      /\ requestId \in requestsByOwner[sender]
      /\ requestsByOwner' = [requestsByOwner EXCEPT ![sender] = @ \ {requestId}]
      /\ HintIsValid(checkpoints, requestId, hint)
      /\ lockedEtherAmount >= eth
      /\ lockedEtherAmount' = lockedEtherAmount - eth
      /\ balance >= eth
      /\ balance' = balance - eth
      /\ paid' = paid + eth
      /\ UNCHANGED <<now, queueShares, checkpoints, lastFinalizedRequestId, tokenApprovals,
                     operatorApprovals, reportVars, resumeSinceTimestamp>>

ClaimWithdrawal(requestId, sender) ==
  Claim(requestId,
        FindCheckpointHint(checkpoints, lastFinalizedRequestId, requestId, 1, Len(checkpoints)),
        sender)

------------------------------------------------------------------------------

Transfer(sender, from, to, requestId) ==
  /\ to # from
  /\ requestId \in DOMAIN queue
  /\ ~queue[requestId].claimed
  /\ from = queue[requestId].owner
  /\ sender \in {from, tokenApprovals[requestId]} \union operatorApprovals[from]
  /\ tokenApprovals' = [tokenApprovals EXCEPT ![requestId] = NoAccount]
  /\ queue' = [queue EXCEPT ![requestId].owner = to]
  /\ requestId \in requestsByOwner[from] /\ requestId \notin requestsByOwner[to]
  /\ requestsByOwner' = [requestsByOwner EXCEPT ![from] = @ \ {requestId},
                                                ![to]   = @ \union {requestId}]
  /\ UNCHANGED <<now, etherVars, checkpoints, lastFinalizedRequestId, operatorApprovals,
                 reportVars, resumeSinceTimestamp>>

Approve(sender, to, requestId) ==
  LET owner == queue[requestId].owner
  IN  /\ requestId \in DOMAIN queue
      /\ ~queue[requestId].claimed
      /\ to # owner
      /\ sender \in {owner} \union operatorApprovals[owner]
      /\ tokenApprovals' = [tokenApprovals EXCEPT ![requestId] = to]
      /\ UNCHANGED <<now, etherVars, queueVars, requestsByOwner, operatorApprovals, reportVars,
                     resumeSinceTimestamp>>

SetApprovalForAll(owner, operator, approved) ==
  /\ owner # operator
  /\ operatorApprovals' = [operatorApprovals EXCEPT ![owner] =
                             IF approved THEN @ \union {operator} ELSE @ \ {operator}]
  /\ UNCHANGED <<now, etherVars, queueVars, requestsByOwner, tokenApprovals, reportVars,
                 resumeSinceTimestamp>>

------------------------------------------------------------------------------

(***************************************************************************)
(* Pausing, and the clock.                                                 *)
(***************************************************************************)
Resume ==
  /\ Paused
  /\ resumeSinceTimestamp' = Resumed(now)
  /\ UNCHANGED <<now, etherVars, queueVars, tokenVars, reportVars>>

PauseFor(duration) ==
  /\ ~Paused
  /\ duration # 0
  /\ resumeSinceTimestamp' = PausedFor(duration, now)
  /\ UNCHANGED <<now, etherVars, queueVars, tokenVars, reportVars>>

PauseUntil(inclusive) ==
  /\ ~Paused
  /\ inclusive >= now
  /\ resumeSinceTimestamp' = PausedUntil(inclusive)
  /\ UNCHANGED <<now, etherVars, queueVars, tokenVars, reportVars>>

AdvanceClock ==
  /\ now < MAX_TIME
  /\ now' = now + 1
  /\ UNCHANGED <<etherVars, queueVars, tokenVars, reportVars, resumeSinceTimestamp>>

Next ==
  \/ AdvanceClock
  \/ \E a \in Accounts, amount \in Amounts :
       RequestWithdrawal(amount, a) \/ RequestWithdrawalWstETH(amount, a)
  \/ \E bunker \in BunkerModes, d \in ReportDelays, budget \in Budgets, pool \in Pools :
       OracleReport(bunker, now - d, budget, pool)
  \/ \E id \in DOMAIN queue, a \in Accounts :
       \/ ClaimWithdrawal(id, a)
       \/ \E hint \in DOMAIN checkpoints : Claim(id, hint, a)
       \/ \E from \in Accounts, to \in Accounts : Transfer(a, from, to, id)
       \/ \E to \in Accounts \union {NoAccount} : Approve(a, to, id)
  \/ \E a \in Accounts, b \in Accounts, approved \in BOOLEAN : SetApprovalForAll(a, b, approved)
  \/ Resume
  \/ \E d \in PauseDurations : PauseFor(d) \/ PauseUntil(now + d - 1)

Spec == Init /\ [][Next]_vars

------------------------------------------------------------------------------

Finalized == 1..lastFinalizedRequestId
Unclaimed == {id \in Finalized : ~queue[id].claimed}

Claimable(id) == ClaimableWithHint(id, CHOOSE h \in DOMAIN checkpoints : HintIsValid(checkpoints, id, h))

(***************************************************************************)
(* Each finalized request has one valid hint, and the binary search of     *)
(* _findCheckpointHint finds it in every range that contains it and in no  *)
(* other (l. 418-452 against the check of the hint, l. 489-504): now, and  *)
(* when further reports have finalized one request more each.              *)
(***************************************************************************)
HintIsUniqueAndFound ==
  \A more \in 0..2 :
    LET last  == lastFinalizedRequestId + more
        table == checkpoints \o
                   [k \in 1..more |-> [fromRequestId |-> lastFinalizedRequestId + k,
                                      maxShareRate  |-> E27_PRECISION_BASE]]
    IN  \A id \in 1..last :
          \E hint \in DOMAIN table :
            /\ \A h \in DOMAIN table : HintIsValid(table, id, h) <=> h = hint
            /\ \A start, end \in DOMAIN table :
                 FindCheckpointHint(table, last, id, start, end) =
                   IF hint \in start..end THEN hint ELSE NOT_FOUND

(***************************************************************************)
(* What is locked is what is still to be claimed, but for rounding.        *)
(* Reports pay for batches, requests are claimed one by one, and _claim    *)
(* takes only dust to be left over, 1-2 wei per request (l. 473-475).  So  *)
(* it is while a batch holds requests of one side of the rate only.  One   *)
(* that joins requests of the same report on both sides (l. 262) may be a  *)
(* wei short, and every such batch has two requests at least.  Left over   *)
(* per request is at most a wei more than a share is worth: 2 wei, while a *)
(* share is worth less than two.                                           *)
(***************************************************************************)
EtherToClaim == MapThenSumSet(Claimable, Unclaimed)

LockedEtherIsToBeClaimed ==
  /\ 2 * (EtherToClaim - lockedEtherAmount) <= lastFinalizedRequestId
  /\ lockedEtherAmount - EtherToClaim <= 2 * lastFinalizedRequestId

(***************************************************************************)
(* The shares on the contract are the ones of the unfinalized requests:    *)
(* what is burnt for a report, batch by batch, is what was locked for the  *)
(* requests it finalized, and Lido's reserve (unfinalizedStETH) and the    *)
(* shares speak of the same requests.                                      *)
(***************************************************************************)
SharesAreOfUnfinalized ==
  queueShares = CumulativeShares(queue, lastRequestId) - CumulativeShares(queue, lastFinalizedRequestId)

(***************************************************************************)
(* The set of an owner is the set of unclaimed requests with that owner.   *)
(***************************************************************************)
OwnersHoldTheirRequests ==
  \A a \in Accounts :
    requestsByOwner[a] = {id \in DOMAIN queue : queue[id].owner = a /\ ~queue[id].claimed}

(***************************************************************************)
(* The result of one or more calls of calculateFinalizationBatches.        *)
(***************************************************************************)
Calculated(rate, budget, perCall) ==
  CalculateFinalizationBatches(queue, lastFinalizedRequestId, rate, now, perCall,
                               StartCalculation(budget))

(***************************************************************************)
(* Rates a report may come at: those of the pools, and rates in between,   *)
(* at which one request is paid in full and another is discounted.         *)
(***************************************************************************)
Rates == {(ShareRate(p) + ShareRate(q)) \div 2 : p, q \in Pools}

(***************************************************************************)
(* Budgets at which the calculation may stop after a request, or just      *)
(* before or behind it.                                                    *)
(***************************************************************************)
ClaimAt(rate, id) == EtherOf(CalcBatch(queue, id - 1, id), rate)
ClaimsAt(rate, last) ==
  MapThenSumSet(LAMBDA id : ClaimAt(rate, id), lastFinalizedRequestId + 1 .. last)

UsefulBudgets(rate) ==
  {ClaimsAt(rate, id) + d : id \in lastFinalizedRequestId + 1 .. lastRequestId, d \in {-1, 0, 1}}

(***************************************************************************)
(* Splitting the calculation over calls changes nothing in its result.  A  *)
(* state that is not finished either can be passed to the next call, which *)
(* then returns what a single call would have; or its budget is used up to *)
(* the last wei.  The next call rejects that one (l. 221), and its batches *)
(* are those of the single call, which finds no wei for another request.   *)
(***************************************************************************)
CalculationIgnoresCallSize ==
  \A rate \in Rates : \A budget \in UsefulBudgets(rate), perCall \in 1..MAX_REQUESTS :
    LET first == Calculated(rate, budget, perCall)
        rest  == CalculateFinalizationBatches(queue, lastFinalizedRequestId, rate, now,
                                              MAX_REQUESTS, first)
        whole == Calculated(rate, budget, MAX_REQUESTS)
    IN  ~first.finished =>
          IF CanCalculate(first) THEN rest = whole
          ELSE /\ whole.finished /\ whole.batches = first.batches
               /\ whole.remainingEthBudget = first.remainingEthBudget

(***************************************************************************)
(* "invoke the function with returned `state` until it returns a state     *)
(* with `finished` flag set" (calculateFinalizationBatches, l. 212-213): a *)
(* state that is not finished can be passed to the next call.              *)
(***************************************************************************)
UnfinishedCanBeContinued ==
  \A rate \in Rates : \A budget \in UsefulBudgets(rate), perCall \in 1..MAX_REQUESTS :
    LET first == Calculated(rate, budget, perCall)
    IN  first.finished \/ CanCalculate(first)

(***************************************************************************)
(* The batches calculated for a budget are ones prefinalize accepts, and   *)
(* the ether it asks for is the one their requests claim, but for what     *)
(* pricing batches instead of requests costs: it may be a wei short for a  *)
(* batch with requests on both sides of the rate, of two requests at       *)
(* least, and exceed the budget by 2 wei per request.                      *)
(***************************************************************************)
PrefinalizeFitsCalculation ==
  \A rate \in Rates : \A budget \in UsefulBudgets(rate) :
    LET batches  == Calculated(rate, budget, MAX_REQUESTS).batches
        last     == batches[Len(batches)]
        eth      == PrefinalizedEther(queue, lastFinalizedRequestId, batches, rate)
        requests == last - lastFinalizedRequestId
    IN  batches # <<>> =>
          /\ BatchesAreValid(queue, lastFinalizedRequestId, batches)
          /\ 2 * (ClaimsAt(rate, last) - eth) <= requests
          /\ eth <= budget + 2 * requests

(***************************************************************************)
(* The queue implements Withdrawals: first in, first finalized; the value  *)
(* fixed by the finalization is what is claimed, once.                     *)
(***************************************************************************)
RequestStatus(id) ==
  LET amount == CalcBatch(queue, id - 1, id).stETH
  IN  IF id > lastFinalizedRequestId THEN [amount |-> amount, state |-> "pending", value |-> 0]
      ELSE [amount |-> amount,
            state  |-> IF queue[id].claimed THEN "claimed" ELSE "finalized",
            value  |-> Claimable(id)]

W == INSTANCE Withdrawals WITH
       Amounts  <- MIN_STETH_WITHDRAWAL_AMOUNT..MAX_STETH_WITHDRAWAL_AMOUNT,
       requests <- [id \in 1..Len(queue) |-> RequestStatus(id)]

ImplementsWithdrawals == W!Spec

==============================================================================

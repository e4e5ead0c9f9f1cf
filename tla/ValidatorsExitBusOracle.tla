------------------------ MODULE ValidatorsExitBusOracle ------------------------
(***************************************************************************)
(* ValidatorsExitBusOracle: a report lists validators that should exit, in *)
(* strictly ascending order, and per node operator the index of the last   *)
(* validator asked must grow from report to report.                        *)
(*                                                                         *)
(* The payload of a report is <<requests, requestsCount, dataFormat>>; a   *)
(* request is <<moduleId, nodeOpId, valIndex>>.  The events it emits are   *)
(* counted in "asked".  The limit of the sanity checker on requests is     *)
(* left out: it only refuses a report.                                     *)
(***************************************************************************)
EXTENDS BaseOracle, PausableUntil, SequencesExt

CONSTANTS
  exitBus,      \* the contract, one of the Oracles
  ModuleIds,    \* what fits the 24 bits of a module id, zero included
  NodeOpIds,
  ValIndices

ASSUME ExitBusAssumption ==
  /\ exitBus \in Oracles
  /\ ModuleIds \subseteq Nat /\ NodeOpIds \subseteq Nat /\ ValIndices \subseteq Nat
  /\ IsFiniteSet(ModuleIds) /\ IsFiniteSet(NodeOpIds) /\ IsFiniteSet(ValIndices)

DATA_FORMAT_LIST == 1

VARIABLES
  resumeSince,               \* of PausableUntil
  lastRequested,             \* last requested index of an operator, -1 if none was
  totalRequestsProcessed,
  dataProcessingState,
  asked                      \* how often ValidatorExitRequest was emitted

exitBusVars ==
  <<resumeSince, lastRequested, totalRequestsProcessed, dataProcessingState, asked>>

NodeOpKeys == ModuleIds \X NodeOpIds

Requests == ModuleIds \X NodeOpIds \X ValIndices

NOT_REQUESTED == -1

(***************************************************************************)
(* initialize: the contract starts paused.                                 *)
(***************************************************************************)
ExitBusInit ==
  /\ resumeSince = PausedFor(PAUSE_INFINITELY, 0)
  /\ lastRequested = [key \in NodeOpKeys |-> NOT_REQUESTED]
  /\ totalRequestsProcessed = 0
  /\ dataProcessingState = [refSlot |-> 0, requestsCount |-> 0]
  /\ asked = [r \in Requests |-> 0]

ExitBusPaused == IsPaused(resumeSince, now)

Resume ==
  /\ ExitBusPaused
  /\ resumeSince' = Resumed(now)
  /\ UNCHANGED <<baseOracleVars, lastRequested, totalRequestsProcessed, dataProcessingState, asked>>

Pause(until) ==
  /\ ~ExitBusPaused
  /\ resumeSince' = until
  /\ UNCHANGED <<baseOracleVars, lastRequested, totalRequestsProcessed, dataProcessingState, asked>>

PauseFor(duration) == duration # 0 /\ Pause(PausedFor(duration, now))

PauseUntil(inclusive) == inclusive >= now /\ Pause(PausedUntil(inclusive))

------------------------------------------------------------------------------

(***************************************************************************)
(* _processExitRequestsList.  The index of the operator at hand is kept in *)
(* memory, and stored when another operator follows and at the end; the    *)
(* key of module 0 and operator 0 stands for no operator.                  *)
(***************************************************************************)
NO_KEY == <<0, 0>>

Precedes(a, b) ==
  \/ a[1] < b[1]
  \/ a[1] = b[1] /\ a[2] < b[2]
  \/ a[1] = b[1] /\ a[2] = b[2] /\ a[3] < b[3]

Stored(state) ==
  IF state.key = NO_KEY THEN state.stored
  ELSE [state.stored EXCEPT ![state.key] = state.index]

StoredBefore(state) == state.stored   \* mutant: the last operator's index is not stored

FinallyStored(state) == Stored(state)

ModuleIsValid(moduleId) == moduleId # 0

ProcessExitRequest(state, r) ==
  LET key    == <<r[1], r[2]>>
      stored == IF key = state.key THEN state.stored ELSE Stored(state)
      index  == IF key = state.key THEN state.index ELSE stored[key]
  IN  IF Precedes(state.previous, r) /\ ModuleIsValid(r[1]) /\ r[3] > index
      THEN [state EXCEPT !.stored = stored, !.key = key, !.index = r[3], !.previous = r]
      ELSE [state EXCEPT !.reverted = TRUE, !.previous = r]

ProcessExitRequestsList(requests) ==
  LET last == FoldLeft(ProcessExitRequest,
                [reverted |-> FALSE, stored |-> lastRequested, key |-> NO_KEY,
                 index |-> NOT_REQUESTED, previous |-> <<0, 0, 0>>], requests)
  IN  [reverted |-> last.reverted, stored |-> FinallyStored(last)]

SubmitExitRequests(data) ==
  LET requests == data.payload[1]
      result   == ProcessExitRequestsList(requests)
  IN  /\ ~ExitBusPaused
      /\ SubmitReportData(exitBus, data)
      /\ data.payload[3] = DATA_FORMAT_LIST
      /\ Len(requests) = data.payload[2]
      /\ ~result.reverted
      /\ lastRequested' = result.stored
      /\ dataProcessingState' = [refSlot |-> data.refSlot, requestsCount |-> data.payload[2]]
      /\ totalRequestsProcessed' = totalRequestsProcessed + data.payload[2]
      /\ asked' = [r \in Requests |->
           asked[r] + Cardinality({i \in DOMAIN requests : requests[i] = r})]
      /\ UNCHANGED resumeSince

------------------------------------------------------------------------------

(***************************************************************************)
(* No validator is asked to exit twice, over all reports, and what the     *)
(* views answer is what was asked: the last index of every operator and    *)
(* the number of requests (getLastRequestedValidatorIndices,               *)
(* getTotalRequestsProcessed).                                             *)
(***************************************************************************)
IndicesAsked(key) == {i \in ValIndices : asked[<<key[1], key[2], i>>] # 0}

EveryValidatorIsAskedOnce ==
  /\ \A r \in Requests : asked[r] <= 1
  /\ \A key \in NodeOpKeys : lastRequested[key] = Max(IndicesAsked(key) \union {NOT_REQUESTED})
  /\ totalRequestsProcessed = SumFunction(asked)

==============================================================================

---------------------------- MODULE PausableUntil ----------------------------
(***************************************************************************)
(* PausableUntil: a contract is paused until the time it stores, for ever  *)
(* if that is PAUSE_INFINITELY.  A contract using it keeps the time in a   *)
(* variable of its own and passes it here.                                 *)
(***************************************************************************)
EXTENDS Integers

CONSTANT PAUSE_INFINITELY   \* type(uint256).max: later than any block

ASSUME PauseAssumption == PAUSE_INFINITELY \in Nat

IsPaused(resumeSince, t) == t < resumeSince

Resumed(t) == t

PausedFor(duration, t) ==
  IF duration = PAUSE_INFINITELY THEN PAUSE_INFINITELY ELSE t + duration

PausedUntil(inclusive) ==
  IF inclusive = PAUSE_INFINITELY THEN PAUSE_INFINITELY ELSE inclusive + 1

==============================================================================

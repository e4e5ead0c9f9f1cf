--------------------------- MODULE ReportProcessor ---------------------------
(***************************************************************************)
(* What IReportAsyncProcessor promises, without deadlines, versions or     *)
(* consensus contracts: each oracle holds at most one pending report, of a *)
(* slot later than any it processed; the pending report may be replaced or *)
(* dropped until it is taken; taking it is final.                          *)
(***************************************************************************)
EXTENDS Integers

CONSTANTS
  Oracles,
  Hashes,     \* report hashes
  NoReport    \* no pending report

VARIABLES
  pending,    \* per oracle: the pending report or NoReport
  processed   \* per oracle: the last slot whose report was taken

vars == <<pending, processed>>

Report == [hash : Hashes, refSlot : Nat]

Init ==
  /\ pending = [o \in Oracles |-> NoReport]
  /\ processed \in [Oracles -> Nat]

(***************************************************************************)
(* A new report becomes pending, or replaces one of no later slot.         *)
(***************************************************************************)
Agree(o) ==
  /\ pending'[o] \in Report
  /\ pending'[o].refSlot > processed[o]
  /\ pending[o] # NoReport => pending'[o].refSlot >= pending[o].refSlot
  /\ pending' = [pending EXCEPT ![o] = pending'[o]]
  /\ UNCHANGED processed

Drop(o) ==
  /\ pending[o] # NoReport
  /\ pending' = [pending EXCEPT ![o] = NoReport]
  /\ UNCHANGED processed

Take(o) ==
  /\ pending[o] # NoReport
  /\ processed' = [processed EXCEPT ![o] = pending[o].refSlot]
  /\ pending' = [pending EXCEPT ![o] = NoReport]

Next ==
  \E o \in Oracles :
    \/ Agree(o)
    \/ Drop(o)
    \/ Take(o)

Spec == Init /\ [][Next]_vars

==============================================================================

--------------------------- MODULE TwoPhaseReports ---------------------------
(***************************************************************************)
(* What an oracle that reports in two phases promises: of each report that *)
(* was agreed on the main data is taken at most once, slots go up, and the *)
(* extra data is taken at most once, only after the main data and only     *)
(* until a later report is agreed on.                                      *)
(***************************************************************************)
EXTENDS Integers

VARIABLES
  agreed,      \* {slot} of the report agreed on, or {}
  main,        \* slot of the last main data taken
  delivered    \* its extra data was taken

vars == <<agreed, main, delivered>>

Init ==
  /\ agreed = {}
  /\ main \in Nat
  /\ delivered = FALSE

Agree ==
  /\ \E slot \in agreed' :
       /\ agreed' = {slot}
       /\ slot > main
       /\ \A earlier \in agreed : slot >= earlier
  /\ UNCHANGED <<main, delivered>>

Drop ==
  /\ \A slot \in agreed : slot > main
  /\ agreed' = {}
  /\ UNCHANGED <<main, delivered>>

TakeMain ==
  /\ \A slot \in agreed : slot > main
  /\ agreed = {main'}
  /\ delivered' = FALSE
  /\ UNCHANGED agreed

TakeExtra ==
  /\ agreed = {main}
  /\ ~delivered
  /\ delivered' = TRUE
  /\ UNCHANGED <<agreed, main>>

Next ==
  \/ Agree
  \/ Drop
  \/ TakeMain
  \/ TakeExtra

Spec == Init /\ [][Next]_vars

==============================================================================

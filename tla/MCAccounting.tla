----------------------------- MODULE MCAccounting -----------------------------
(***************************************************************************)
(* Accounting for TLC.                                                     *)
(***************************************************************************)
EXTENDS Accounting

RewardsAndLosses == {-2, 3}
===============================================================================

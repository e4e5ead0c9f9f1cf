------------------------------ MODULE MCStaking ------------------------------
(***************************************************************************)
(* Staking for TLC.  The stake limit is packed into fields of 96 and 32    *)
(* bits; the configurations make them a few units wide, so that limits at  *)
(* and beyond the width of a field occur.                                  *)
(***************************************************************************)
EXTENDS Staking
===============================================================================

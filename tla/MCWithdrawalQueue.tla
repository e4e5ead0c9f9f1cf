-------------------------- MODULE MCWithdrawalQueue --------------------------
(***************************************************************************)
(* WithdrawalQueue for TLC.                                                *)
(***************************************************************************)
EXTENDS WithdrawalQueue

(***************************************************************************)
(* The pool grows and shrinks: with two rates some requests are paid in    *)
(* full while others in the same queue are discounted.  With the first     *)
(* pool, and the rate between the two, a batch of one report joins a       *)
(* request below the rate and one above it, and is locked a wei short.     *)
(***************************************************************************)
RatePools == {[ether |-> 22, shares |-> 19], [ether |-> 15, shares |-> 20]}
OnePool == {[ether |-> 11, shares |-> 10]}

AccountSymmetry == Permutations(Accounts)
==============================================================================

---------------------------------- MODULE Pool ----------------------------------
(***************************************************************************)
(* What the accounting promises to the holders of shares, and no more:     *)
(* ether is in the buffer, with the validators, in the vaults or locked    *)
(* for withdrawals; it comes in from stakers, to the vaults and to the     *)
(* validators, and otherwise only changes its place; and the price of a    *)
(* share falls only with a loss of the validators.                         *)
(***************************************************************************)
EXTENDS Integers

VARIABLES
  buffer,
  validators,     \* ether deposited, with the rewards and losses since
  vaults,
  locked,
  shares

Pooled == buffer + validators

(***************************************************************************)
(* A stake buys shares at the price before it, rounded down.               *)
(***************************************************************************)
Stake ==
  /\ buffer' > buffer
  /\ shares' = shares + ((buffer' - buffer) * shares) \div Pooled
  /\ UNCHANGED <<validators, vaults, locked>>

Deposit ==
  /\ buffer' \in 0..buffer
  /\ validators' = validators + buffer - buffer'
  /\ UNCHANGED <<vaults, locked, shares>>

Receive ==
  /\ vaults' >= vaults
  /\ UNCHANGED <<buffer, validators, locked, shares>>

(***************************************************************************)
(* The validators' balance is whatever it is found to be.  What leaves the *)
(* vaults is in the buffer or locked, and what is locked no longer backs   *)
(* the shares: their price does not fall, or what the validators lost was  *)
(* more than what the vaults made up for.                                  *)
(***************************************************************************)
KeepsEther ==
  /\ buffer' >= 0
  /\ vaults' \in 0..vaults
  /\ locked' >= locked
  /\ buffer' + vaults' + locked' = buffer + vaults + locked

KeepsPrice ==
  LET change == Pooled' + locked' - Pooled - locked
  IN  change >= 0 => Pooled' * shares >= Pooled * shares'

Rebase == KeepsEther /\ KeepsPrice

Init ==
  /\ buffer = shares
  /\ validators = 0
  /\ vaults = 0
  /\ locked = 0

Next == Stake \/ Deposit \/ Receive \/ Rebase

poolVars == <<buffer, validators, vaults, locked, shares>>

Spec == Init /\ [][Next]_poolVars

(***************************************************************************)
(* The half of the promise that is about ether alone.                      *)
(***************************************************************************)
EtherSpec == Init /\ [][Stake \/ Deposit \/ Receive \/ KeepsEther]_poolVars

===============================================================================

----------------------------- MODULE StakingModule -----------------------------
(***************************************************************************)
(* What the staking router relies on in a staking module (IStakingModule): *)
(* the validators it says are depositable can be deposited, exactly as     *)
(* many as asked for, exits stay below deposits, and the nonce changes     *)
(* with every deposit and whenever more becomes depositable.               *)
(***************************************************************************)
EXTENDS Integers

VARIABLES
  exited,       \* getStakingModuleSummary
  deposited,
  depositable,
  nonce         \* getNonce, modulo 2

vars == <<exited, deposited, depositable, nonce>>

Init == exited = 0 /\ deposited = 0 /\ depositable = 0 /\ nonce = 0

ObtainDepositData(n) ==
  /\ n <= depositable
  /\ deposited' = deposited + n
  /\ depositable' = depositable - n
  /\ nonce' # nonce
  /\ UNCHANGED exited

ReportExits ==
  /\ exited' \in 0..deposited
  /\ depositable' \in Nat
  /\ nonce' # nonce
  /\ UNCHANGED deposited

ManageKeys ==
  /\ depositable' \in Nat
  /\ nonce' # nonce
  /\ UNCHANGED <<exited, deposited>>

(***************************************************************************)
(* A penalty may withhold keys from deposits without a new nonce.          *)
(***************************************************************************)
Withhold ==
  /\ depositable' \in 0..depositable
  /\ UNCHANGED <<exited, deposited, nonce>>

Next ==
  \/ \E n \in 1..depositable : ObtainDepositData(n)
  \/ ReportExits
  \/ ManageKeys
  \/ Withhold

Spec == Init /\ [][Next]_vars

==============================================================================

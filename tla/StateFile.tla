------------------------------- MODULE StateFile -------------------------------
(***************************************************************************)
(* The state file of a deployment (lib/state-file.ts): the JSON file in    *)
(* which the scripts keep what they have deployed on a network, and from   *)
(* which every step takes the addresses that the steps before it wrote.    *)
(*                                                                         *)
(* An address is the contract it was made for: <<key, field, attempt>> is  *)
(* the address that the given attempt at a deployment is to keep in that   *)
(* field of the entry of that key.  Attempt 0 made what was there before.  *)
(* Every function reads or writes the file synchronously, so that nothing  *)
(* comes between the reading and the writing of updateObjectInState.       *)
(***************************************************************************)
EXTENDS Naturals, Sequences, TLC

Undefined == <<"undefined", "", 0>>     \* what JavaScript reads from a missing field
Given(key) == <<key, "given", 0>>       \* an address that was there before

(***************************************************************************)
(* The keys under which a proxy is kept; getAddress finds the others in    *)
(* the field "address" of their entries.                                   *)
(***************************************************************************)
ProxyKeys ==
  {"accountingOracle", "app:aragon-agent", "app:aragon-finance",
   "app:aragon-token-manager", "app:aragon-voting", "app:lido",
   "app:node-operators-registry", "app:oracle", "aragon-acl",
   "aragon-apm-registry", "aragon-evm-script-registry", "aragon-kernel", "lidoLocator",
   "stakingRouter", "validatorsExitBusOracle", "withdrawalQueueERC721",
   "withdrawalVault"}

Field(state, key, field) ==
  IF key \in DOMAIN state.entries /\ field \in DOMAIN state.entries[key]
  THEN state.entries[key][field] ELSE Undefined

getAddress(key, state) ==
  Field(state, key, IF key \in ProxyKeys THEN "proxy" ELSE "address")

(***************************************************************************)
(* What is kept for a key stays, except for the fields of the supplement.  *)
(***************************************************************************)
updateObjectInState(state, key, supplement) ==
  LET old == IF key \in DOMAIN state.entries THEN state.entries[key] ELSE << >>
  IN  [state EXCEPT !.entries = (key :> (supplement @@ old)) @@ @]

setValueInState(state, key, value) ==
  [state EXCEPT !.entries = (key :> [value |-> value]) @@ @]

incrementGasUsed(state, increment) == [state EXCEPT !.gasUsed = @ + increment]

(***************************************************************************)
(* A step names its deployer, and stops if the file is another's.          *)
(***************************************************************************)
readNetworkStateAccepts(state, deployer) == deployer = state.deployer
===============================================================================

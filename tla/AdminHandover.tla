----------------------------- MODULE AdminHandover -----------------------------
(***************************************************************************)
(* What a deployment promises about who governs it.  Its contracts come to *)
(* their deployer one after the other; only when the deployer has all of   *)
(* them does it begin to pass them on, each to the agent before the        *)
(* deployer leaves it, or in one step.  A contract that was somebody's is  *)
(* never nobody's.  A deployment may be abandoned and begun again.         *)
(***************************************************************************)
CONSTANTS Deployer, Agent

VARIABLE holders      \* who holds each governed contract

Take(c) ==
  /\ holders[c] = {}
  /\ holders' = [holders EXCEPT ![c] = {Deployer}]

AllTaken == \A c \in DOMAIN holders : holders[c] # {}

Share(c) ==
  /\ AllTaken
  /\ holders[c] = {Deployer}
  /\ holders' = [holders EXCEPT ![c] = {Deployer, Agent}]

Leave(c) ==
  /\ holders[c] = {Deployer, Agent}
  /\ holders' = [holders EXCEPT ![c] = {Agent}]

Pass(c) ==
  /\ AllTaken
  /\ holders[c] = {Deployer}
  /\ holders' = [holders EXCEPT ![c] = {Agent}]

Abandon == holders' = [c \in DOMAIN holders |-> {}]

Init == \A c \in DOMAIN holders : holders[c] = {}

Next ==
  \/ Abandon
  \/ \E c \in DOMAIN holders : Take(c) \/ Share(c) \/ Leave(c) \/ Pass(c)

Spec == Init /\ [][Next]_holders
===============================================================================

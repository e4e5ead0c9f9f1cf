------------------------- MODULE MCReportsAndDeposits -------------------------
(***************************************************************************)
(* ReportsAndDeposits for TLC: two module contracts of two operators; one  *)
(* scenario for each group of actors.                                      *)
(***************************************************************************)
EXTENDS ReportsAndDeposits

CONSTANTS m1, m2, w1

Zero == [op \in Operators |-> 0]

Fresh(deposited, ready, nonce) ==
  [deposited |-> deposited, exited |-> Zero, stuck |-> Zero, refunded |-> Zero,
   ready |-> ready, nonce |-> nonce, settled |-> [exited |-> Zero, stuck |-> Zero]]

First == [op \in Operators |-> op % 2]   \* one validator of the first operator

WithRefundedStuck(m) ==
  [m EXCEPT !.deposited = First, !.stuck = First, !.refunded = First, !.settled.stuck = First]

Module(c) ==
  [contract |-> c, targetShare |-> 2, stakingModuleFee |-> 1, treasuryFee |-> 1,
   status |-> "Active", exitedValidatorsCount |-> 0, lastDepositBlock |-> 0]

On(first, second) == [c \in Contracts |-> IF c = m1 THEN first ELSE second]

MCScenarios ==
  [reports |->
     [end |-> 3, stakingModules |-> <<Module(m1), Module(m2)>>,
      contracts |-> On(Fresh([op \in Operators |-> 1], <<>>, 0), Fresh([op \in Operators |-> op % 2], <<>>, 0)),
      credentials |-> w1, guardians |-> <<>>, depositable |-> 0],
   exits |->
     [end |-> 3, stakingModules |-> <<>>, contracts |-> On(Fresh(Zero, <<>>, 0), Fresh(Zero, <<>>, 0)),
      credentials |-> w1, guardians |-> <<>>, depositable |-> 0],
   consensus |->
     [end |-> 3, stakingModules |-> <<>>, contracts |-> On(Fresh(Zero, <<>>, 0), Fresh(Zero, <<>>, 0)),
      credentials |-> w1, guardians |-> <<>>, depositable |-> 0],
   deposits |->
     [end |-> 2, stakingModules |-> <<Module(m1)>>,
      contracts |-> On(WithRefundedStuck(Fresh(Zero, <<<<1, w1>>, <<2, w1>>>>, 0)), Fresh(Zero, <<<<1, w1>>>>, MAX_NONCE)),
      credentials |-> w1, guardians |-> <<1, 2>>, depositable |-> 2]]

MCPayloads ==
  (Seq(Nat \X Nat) \X Nat \X {ZeroHash} \X Nat)
    \union (Seq(Nat \X Nat) \X Nat \X Seq(Nat \X Nat \X Seq(Nat \X Nat)) \X Nat)
    \union (Seq(Nat \X Nat \X Nat) \X Nat \X Nat)

MCMalformed == {<<<<>>, 1, <<>>, 1>>}

MCExitPayloads == {<<s, Len(s), 1>> : s \in BoundedSeq(Requests, 2)}
==============================================================================

--------------------------- MODULE MCHashConsensus ---------------------------
(***************************************************************************)
(* HashConsensus for TLC.  Members, payloads and processors are alike.     *)
(***************************************************************************)
EXTENDS HashConsensus, TLC

CommitteeSymmetry ==
  Permutations(Addresses) \union Permutations(Payloads) \union Permutations(Oracles)
==============================================================================

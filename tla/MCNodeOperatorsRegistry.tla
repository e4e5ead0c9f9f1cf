----------------------- MODULE MCNodeOperatorsRegistry -----------------------
(***************************************************************************)
(* NodeOperatorsRegistry for TLC.  The order of operators breaks ties of   *)
(* the allocation, so that they are not symmetric.                         *)
(***************************************************************************)
EXTENDS NodeOperatorsRegistry
==============================================================================

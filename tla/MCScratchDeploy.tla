---------------------------- MODULE MCScratchDeploy ----------------------------
(***************************************************************************)
(* ScratchDeploy for TLC.                                                  *)
(***************************************************************************)
EXTENDS ScratchDeploy

Placeholder == <<"lido-aragon-agent-placeholder", "holder", 0>>
Alice == <<"alice", "holder", 0>>
Bob == <<"bob", "holder", 0>>

FourHolders ==
  << [holder |-> Alice, amount |-> 5], [holder |-> Placeholder, amount |-> 3],
     [holder |-> Bob, amount |-> 2], [holder |-> <<"carol", "holder", 0>>, amount |-> 2] >>

Bare ==
  [given |-> {}, nodes |-> {}, depositContract |-> FALSE, gateSeal |-> "none",
   baseUri |-> FALSE, dsm |-> FALSE, signer |-> Deployer, inProcess |-> FALSE]

\* A new chain; the test process with everything that is optional; a chain with ENS and
\* Aragon whose top-level domain is the deployer's, or only the domains are; another
\* signer; and a factory of seals at the zero address, whose call fails.
DocumentedEnvironments ==
  { Bare,
    [Bare EXCEPT !.inProcess = TRUE, !.depositContract = TRUE, !.gateSeal = "factory",
                 !.baseUri = TRUE, !.dsm = TRUE],
    [Bare EXCEPT !.given = {"ens", "miniMeTokenFactory", "aragonID"}, !.nodes = {"eth"},
                 !.gateSeal = "factory"],
    [Bare EXCEPT !.given = {"ens"}, !.nodes = {"aragonpm", "aragonid", "lidopm"}],
    [Bare EXCEPT !.signer = Given("somebody")],
    [Bare EXCEPT !.gateSeal = "zero"] }
===============================================================================

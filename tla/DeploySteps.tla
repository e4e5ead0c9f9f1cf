------------------------------ MODULE DeploySteps ------------------------------
(***************************************************************************)
(* The steps of a deployment from scratch (scripts/scratch/steps): what    *)
(* each script asks of the chain and writes to the state file, in the      *)
(* order it does.  A step is a sequence of instructions                    *)
(*                                                                         *)
(*   [op |-> what to do, to |-> to which contract, node or field,          *)
(*    what |-> the role, the name or the amounts, args |-> the addresses]  *)
(*                                                                         *)
(* that ScratchDeploy carries out: a transaction, a write of the state     *)
(* file or a check.  The other parameters are left out.  Where a script    *)
(* takes an address from the file it read when it began, the step takes it *)
(* from `state'; where it takes it from a deployment or a receipt of its   *)
(* own, from New.                                                          *)
(***************************************************************************)
EXTENDS StateFile, SequencesExt

CONSTANTS
  Holders,                \* who gets tokens: a sequence of [holder, amount]
  AgentPlaceholder,       \* "lido-aragon-agent-placeholder" among them
  UnvestedTokensAmount,   \* what the agent gets besides
  MAX_HOLDERS_IN_ONE_TX,
  DaemonConfigParams      \* how many parameters OracleDaemonConfig gets

VARIABLES
  state,      \* the state file as the running step read it
  attempt,    \* how many times the deployment has been started
  nodeOwner   \* the owners of the nodes of ENS

Deployer == Given("deployer")
New(key, field) == <<key, field, attempt>>
Proxy(key) == Field(state, key, "proxy")
Address(key) == Field(state, key, "address")
Implementation(key) == Field(state, key, "implementation")

Do(op, to, what, args) == <<[op |-> op, to |-> to, what |-> what, args |-> args]>>
Call(op, to, args) == Do(op, to, "", args)
SaveReading(key, supplement, args) == Do("update", <<key>>, supplement, args)
Save(key, supplement) == SaveReading(key, supplement, << >>)

(***************************************************************************)
(* lib/deploy.ts.  makeTx and the deployments wait for the transaction,    *)
(* then count its gas in the state file, then the deployment is written.   *)
(***************************************************************************)
deployContract(key, field, args) == Call("deploy", New(key, field), args)

deployWithoutProxy(key, args) ==
  deployContract(key, "address", args) \o Save(key, [address |-> New(key, "address")])

deployImplementation(key, args) ==
  deployContract(key, "implementation", args)
    \o Save(key, [implementation |-> New(key, "implementation")])

deployProxy(key, proxyOwner, implementation) ==
  Call("deployProxy", New(key, "proxy"), <<implementation, proxyOwner>>)
    \o Save(key, [proxy |-> New(key, "proxy"), implementation |-> implementation])

deployBehindOssifiableProxy(key, proxyOwner, args) ==
  deployContract(key, "implementation", args)
    \o deployProxy(key, proxyOwner, New(key, "implementation"))

UpgradedWithoutSaving(key, proxyAddress, args) ==   \* mutant: the file keeps the old one
  deployContract(key, "implementation", args)
    \o Call("proxy__upgradeTo", proxyAddress, <<New(key, "implementation")>>)

updateProxyImplementation(key, proxyAddress, args) ==
  deployContract(key, "implementation", args)
    \o Call("proxy__upgradeTo", proxyAddress, <<New(key, "implementation")>>)
    \o Save(key, [implementation |-> New(key, "implementation")])

(***************************************************************************)
(* lib/ens.ts: the owner of a node gives it away, the owner of the parent  *)
(* assigns it, anybody else gets an exception.                             *)
(***************************************************************************)
AlwaysSetOwner(node, owner, assignee) ==   \* mutant: the parent's owner may not do that
  Do("setOwner", <<"ens">>, node, <<assignee>>)

assignENSName(node, owner, assignee) ==
  Do(IF nodeOwner[node] = owner THEN "setOwner" ELSE "setSubnodeOwner", <<"ens">>,
     node, <<assignee>>)

(***************************************************************************)
(* 0000: the parameters from the environment; the gas counter starts anew. *)
(***************************************************************************)
PopulateFromEnv == Call("populate", <<"file">>, << >>)

(***************************************************************************)
(* 0010: the deposit contract, unless it was given.                        *)
(***************************************************************************)
DepositContract == Field(state, "chainSpec", "depositContract")

DeployDepositContract ==
  IF DepositContract # Undefined THEN << >>
  ELSE deployWithoutProxy("depositContract", << >>)
         \o Save("chainSpec", [depositContract |-> New("depositContract", "address")])

(***************************************************************************)
(* 0020: ENS, the factory of DAOs, the package manager of Aragon, the      *)
(* factory of tokens and the registrar aragonID.  What is in the file      *)
(* already is used as it is.                                               *)
(***************************************************************************)
Present(key) == Address(key) # Undefined
AddressOrNew(key) == IF Present(key) THEN Address(key) ELSE New(key, "address")

DeployENS ==
  IF Present("ens") THEN << >>
  ELSE deployWithoutProxy("ensFactory", << >>)
         \o Call("newENS", New("ensFactory", "address"), <<New("ens", "address"), Deployer>>)
         \o Save("ens", [address |-> New("ens", "address")])

DeployDAOFactory ==
  IF Present("daoFactory") THEN << >>
  ELSE deployImplementation("aragon-kernel", << >>)
         \o deployImplementation("aragon-acl", << >>)
         \o deployWithoutProxy("evmScriptRegistryFactory", << >>)
         \o deployWithoutProxy("daoFactory",
              <<New("aragon-kernel", "implementation"), New("aragon-acl", "implementation"),
                New("evmScriptRegistryFactory", "address")>>)

deployAPM(owner, factory) ==
  assignENSName("aragonpm", owner, factory)
    \o Do("newAPM", factory, "aragonpm", <<New("aragon-apm-registry", "proxy"), owner>>)

deployAragonID(owner) ==
  deployWithoutProxy("aragonID", <<AddressOrNew("ens")>>)
    \o assignENSName("aragonid", owner, New("aragonID", "address"))
    \o Do("register", New("aragonID", "address"), "owner.aragonid", <<owner>>)

DeployAragonEnv ==
  DeployENS
    \o DeployDAOFactory
    \o deployImplementation("aragon-apm-registry", << >>)
    \o deployWithoutProxy("aragon-repo-base", << >>)
    \o deployImplementation("ensSubdomainRegistrar", << >>)
    \o deployWithoutProxy("apmRegistryFactory",
         <<AddressOrNew("daoFactory"), New("aragon-apm-registry", "implementation"),
           New("aragon-repo-base", "address"), New("ensSubdomainRegistrar", "implementation"),
           AddressOrNew("ens")>>)
    \o deployAPM(Deployer, New("apmRegistryFactory", "address"))
    \o Save("ensNode", [nodeIs |-> Given("aragonpm")])
    \o Save("aragon-apm-registry", [proxy |-> New("aragon-apm-registry", "proxy")])
    \o (IF Present("miniMeTokenFactory") THEN << >>
        ELSE deployWithoutProxy("miniMeTokenFactory", << >>))
    \o (IF Present("aragonID") THEN << >> ELSE deployAragonID(Deployer))

(***************************************************************************)
(* 0030: the bases of the applications and the template of the DAO.        *)
(***************************************************************************)
DeployTemplateAndAppBases ==
  deployImplementation("app:aragon-agent", << >>)
    \o deployImplementation("app:aragon-finance", << >>)
    \o deployImplementation("app:aragon-token-manager", << >>)
    \o deployImplementation("app:aragon-voting", << >>)
    \o deployImplementation("app:lido", << >>)
    \o deployImplementation("app:oracle", << >>)
    \o deployImplementation("app:node-operators-registry", << >>)
    \o deployWithoutProxy("lidoTemplate",
         <<state.deployer, Address("daoFactory"), Address("ens"),
           Address("miniMeTokenFactory"), Address("aragonID"),
           Address("apmRegistryFactory")>>)
    \o Save("lidoTemplate", [deployBlock |-> Given("block")])

(***************************************************************************)
(* 0040: the node of the package manager of Lido goes to the template.     *)
(***************************************************************************)
RegisterENSDomain == assignENSName("lidopm", Deployer, Address("lidoTemplate"))

(***************************************************************************)
(* 0050: the template makes the package manager of Lido.                   *)
(***************************************************************************)
DeployLidoAPM ==
  Do("assertNodeOwner", <<"ens">>, "lidopm", <<Address("lidoTemplate")>>)
    \o Do("deployLidoAPM", Address("lidoTemplate"), "lidopm", <<New("lidoApm", "address")>>)
    \o Save("lidoApm", [deployTx |-> Given("tx")])
    \o Save("lidoApm", [address |-> New("lidoApm", "address")])

(***************************************************************************)
(* 0060: and a repository for each application.                            *)
(***************************************************************************)
StdAragonApps ==
  <<"app:aragon-agent", "app:aragon-finance", "app:aragon-token-manager",
    "app:aragon-voting">>

CreateAppRepos ==
  Call("createRepos", Address("lidoTemplate"),
       <<Implementation("app:lido"), Implementation("app:node-operators-registry"),
         Implementation("app:oracle")>>)
    \o Call("createStdAragonRepos", Address("lidoTemplate"),
            [i \in 1..4 |-> Implementation(StdAragonApps[i])])
    \o Do("set", <<"file">>, "lidoTemplateCreateStdAppReposTx", <<Given("tx")>>)
    \o Do("set", <<"file">>, "createAppReposTx", <<Given("tx")>>)

(***************************************************************************)
(* 0070: the template makes the DAO, with a proxy for each application.    *)
(* What the receipt tells goes to the file piece by piece; the tokens that *)
(* the file keeps for a placeholder go to the new agent.  The addresses    *)
(* after the first are constructor arguments taken from the file.          *)
(***************************************************************************)
TemplateApps ==
  {"app:lido", "app:node-operators-registry", "app:simple-dvt", "app:oracle"}
    \cup Range(StdAragonApps)

DeployDAO ==
  Call("newDAO", Address("lidoTemplate"), << >>)
    \o Do("set", <<"file">>, "lidoTemplateNewDaoTx", <<Given("tx")>>)
    \o SaveReading("aragon-kernel", [proxy |-> New("aragon-kernel", "proxy")],
                   <<Implementation("aragon-kernel")>>)
    \o SaveReading("ldo", [address |-> New("ldo", "address")],
                   <<Address("miniMeTokenFactory")>>)
    \o SaveReading("callsScript", [address |-> New("callsScript", "address")],
                   <<Address("evmScriptRegistryFactory")>>)
    \o Call("assertInstalled", New("aragon-kernel", "proxy"), << >>)
    \o Call("persistApps", <<"file">>, << >>)
    \o Call("persistProxies", <<"file">>, << >>)

(***************************************************************************)
(* 0080: tokens for the holders, so many in a transaction, each told what  *)
(* the total supply has to be after it.                                    *)
(***************************************************************************)
HoldersInOneTx ==
  IF MAX_HOLDERS_IN_ONE_TX < Len(state.holders)
  THEN MAX_HOLDERS_IN_ONE_TX ELSE Len(state.holders)
TotalTransactions == (Len(state.holders) + HoldersInOneTx - 1) \div HoldersInOneTx
Batch(startIndex) ==
  SubSeq(state.holders, startIndex + 1,
         IF startIndex + HoldersInOneTx < Len(state.holders)
         THEN startIndex + HoldersInOneTx ELSE Len(state.holders))
TotalOf(holders) == FoldLeft(LAMBDA sum, h : sum + h.amount, 0, holders)

IssueTokens ==
  LET end(i) == FoldLeft(LAMBDA sum, j : sum + TotalOf(Batch((j - 1) * HoldersInOneTx)),
                         0, [j \in 1..i |-> j])
  IN  FlattenSeq([i \in 1..TotalTransactions |->
        Do("issueTokens", Address("lidoTemplate"),
           [holders |-> Batch((i - 1) * HoldersInOneTx), endTotalSupply |-> end(i)],
           << >>)])

(***************************************************************************)
(* 0090: the contracts of the protocol that are not applications of the    *)
(* DAO.  The locator comes first, as an empty proxy, because others keep   *)
(* its address, and gets its contents last, when it can name them all: in  *)
(* the order of LocatorConfig.                                             *)
(***************************************************************************)
PredefinedDSM == Field(state, "depositSecurityModule", "usePredefinedAddressInstead")

SwappedConfig ==   \* mutant: two entries in the order of their deployment
  << New("accountingOracle", "proxy"), New("depositSecurityModule", "address"),
     New("executionLayerRewardsVault", "address"), Proxy("app:oracle"), Proxy("app:lido"),
     New("oracleReportSanityChecker", "address"), Proxy("app:oracle"),
     New("burner", "address"), New("stakingRouter", "proxy"), Proxy("app:aragon-agent"),
     New("withdrawalQueueERC721", "proxy"), New("validatorsExitBusOracle", "proxy"),
     New("withdrawalVault", "proxy"), New("oracleDaemonConfig", "address") >>

LocatorConfig ==
  LET dsm == IF PredefinedDSM = Undefined
             THEN New("depositSecurityModule", "address") ELSE PredefinedDSM
  IN  << New("accountingOracle", "proxy"),
         dsm,
         New("executionLayerRewardsVault", "address"),
         Proxy("app:oracle"),
         Proxy("app:lido"),
         New("oracleReportSanityChecker", "address"),
         Proxy("app:oracle"),
         New("burner", "address"),
         New("stakingRouter", "proxy"),
         Proxy("app:aragon-agent"),
         New("validatorsExitBusOracle", "proxy"),
         New("withdrawalQueueERC721", "proxy"),
         New("withdrawalVault", "proxy"),
         New("oracleDaemonConfig", "address") >>

DeployNonAragonContracts ==
  LET lido == Proxy("app:lido")
      treasury == Proxy("app:aragon-agent")
      locator == New("lidoLocator", "proxy")
      dummy == New("dummyEmptyContract", "address")
  IN  deployWithoutProxy("oracleDaemonConfig", <<Deployer>>)
      \o deployWithoutProxy("dummyEmptyContract", << >>)
      \o deployProxy("lidoLocator", Deployer, dummy)
      \o deployWithoutProxy("oracleReportSanityChecker", <<locator, Deployer>>)
      \o deployWithoutProxy("eip712StETH", <<lido>>)
      \o deployWithoutProxy("wstETH", <<lido>>)
      \o deployBehindOssifiableProxy("withdrawalQueueERC721", Deployer,
           <<New("wstETH", "address")>>)
      \o deployImplementation("withdrawalVault", <<lido, treasury>>)
      \o Call("deployProxy", New("withdrawalVault", "proxy"),
              <<New("withdrawalVault", "implementation"), Proxy("app:aragon-voting")>>)
      \o Save("withdrawalVault", [proxy |-> New("withdrawalVault", "proxy"),
                                  address |-> New("withdrawalVault", "proxy")])
      \o deployWithoutProxy("executionLayerRewardsVault", <<lido, treasury>>)
      \o deployBehindOssifiableProxy("stakingRouter", Deployer, <<DepositContract>>)
      \o (IF PredefinedDSM # Undefined THEN << >>
          ELSE deployWithoutProxy("depositSecurityModule",
                 <<lido, DepositContract, New("stakingRouter", "proxy")>>))
      \o deployBehindOssifiableProxy("accountingOracle", Deployer,
           <<locator, lido, Proxy("app:oracle")>>)
      \o deployWithoutProxy("hashConsensusForAccountingOracle",
           <<Deployer, New("accountingOracle", "proxy")>>)
      \o deployBehindOssifiableProxy("validatorsExitBusOracle", Deployer, <<locator>>)
      \o deployWithoutProxy("hashConsensusForValidatorsExitBusOracle",
           <<Deployer, New("validatorsExitBusOracle", "proxy")>>)
      \o deployWithoutProxy("burner", <<Deployer, treasury, lido>>)
      \o updateProxyImplementation("lidoLocator", locator, LocatorConfig)

(***************************************************************************)
(* 0100: the seal of the withdrawals and the exits, if there is a factory. *)
(***************************************************************************)
CreateGateSeal ==
  LET factory == Field(state, "gateSeal", "factoryAddress")
  IN  IF Present("gateSeal") \/ factory = Undefined THEN << >>
      ELSE Call("create_gate_seal", factory,
                <<New("gateSeal", "address"), Proxy("withdrawalQueueERC721"),
                  Proxy("validatorsExitBusOracle")>>)
             \o Call("assertGateSealCreated", New("gateSeal", "address"), << >>)
             \o Save("gateSeal", [address |-> New("gateSeal", "address")])

(***************************************************************************)
(* 0110: the template issues the other tokens and gives up the DAO.        *)
(***************************************************************************)
FinalizeDAO ==
  Do("finalizeDAO", Address("lidoTemplate"), UnvestedTokensAmount, <<Proxy("stakingRouter")>>)

(***************************************************************************)
(* 0120: what the proxies need before they work, and the parameters that   *)
(* take a role to set, which the deployer grants itself for the time.      *)
(***************************************************************************)
Grant(contract, role, account) == Do("grantRole", contract, role, <<account>>)
Renounce(contract, role) == Do("renounceRole", contract, role, <<Deployer>>)
KeepingTheRole(contract, role, calls) ==   \* mutant: the role is not renounced
  Grant(contract, role, Deployer) \o calls

WithRole(contract, role, calls) ==
  Grant(contract, role, Deployer) \o calls \o Renounce(contract, role)

InitializeNonAragonContracts ==
  LET locator == Proxy("lidoLocator")
      daemonConfig == Address("oracleDaemonConfig")
      queue == Proxy("withdrawalQueueERC721")
      consensusForAccounting == Address("hashConsensusForAccountingOracle")
  IN  Call("initialize", Proxy("app:node-operators-registry"), <<locator>>)
      \o Call("initialize", Proxy("app:simple-dvt"), <<locator>>)
      \o Call("initialize", Proxy("app:lido"), <<locator, Address("eip712StETH")>>)
      \o Call("initialize", Proxy("app:oracle"), <<locator, consensusForAccounting>>)
      \o Do("initialize", Proxy("accountingOracle"), "admin",
            <<Deployer, consensusForAccounting>>)
      \o Do("initialize", Proxy("validatorsExitBusOracle"), "admin",
            <<Deployer, Address("hashConsensusForValidatorsExitBusOracle")>>)
      \o Do("initialize", queue, "admin", <<Deployer>>)
      \o (IF Field(state, "withdrawalQueueERC721", "baseUri") = Undefined THEN << >>
          ELSE WithRole(queue, "MANAGE_TOKEN_URI_ROLE",
                 Do("setBaseURI", queue, "MANAGE_TOKEN_URI_ROLE", << >>)))
      \o Do("initialize", Proxy("stakingRouter"), "admin",
            <<Deployer, Proxy("app:lido"), Proxy("withdrawalVault")>>)
      \o WithRole(daemonConfig, "CONFIG_MANAGER_ROLE",
           FlattenSeq([i \in 1..DaemonConfigParams |->
             Do("set parameter", daemonConfig, "CONFIG_MANAGER_ROLE", << >>)]))

(***************************************************************************)
(* 0130: who may call whom.                                                *)
(***************************************************************************)
GrantRoles ==
  LET router == Proxy("stakingRouter")
      queue == Proxy("withdrawalQueueERC721")
      dsm == Address("depositSecurityModule")
      gateSeal(contract) ==
        IF Present("gateSeal")
        THEN Grant(contract, "PAUSE_ROLE", Address("gateSeal")) ELSE << >>
  IN  Grant(router, "STAKING_MODULE_PAUSE_ROLE", dsm)
      \o Grant(router, "STAKING_MODULE_RESUME_ROLE", dsm)
      \o Grant(router, "REPORT_EXITED_VALIDATORS_ROLE", Proxy("accountingOracle"))
      \o Grant(router, "REPORT_REWARDS_MINTED_ROLE", Proxy("app:lido"))
      \o Grant(router, "STAKING_MODULE_MANAGE_ROLE", Proxy("app:aragon-agent"))
      \o gateSeal(Proxy("validatorsExitBusOracle"))
      \o gateSeal(queue)
      \o Grant(queue, "FINALIZE_ROLE", Proxy("app:lido"))
      \o Grant(queue, "ORACLE_ROLE", Proxy("accountingOracle"))
      \o Grant(Address("burner"), "REQUEST_BURN_SHARES_ROLE",
               Proxy("app:node-operators-registry"))
      \o Grant(Address("burner"), "REQUEST_BURN_SHARES_ROLE", Proxy("app:simple-dvt"))

(***************************************************************************)
(* 0140: the two registries become staking modules.                        *)
(***************************************************************************)
PlugStakingModules ==
  LET router == Proxy("stakingRouter")
      add(module) == Do("addStakingModule", router, "STAKING_MODULE_MANAGE_ROLE", <<module>>)
  IN  WithRole(router, "STAKING_MODULE_MANAGE_ROLE",
        add(Proxy("app:node-operators-registry")) \o add(Proxy("app:simple-dvt")))

(***************************************************************************)
(* 0150: the deployer hands everything to the agent.                       *)
(***************************************************************************)
OZAdminTransfers ==
  << Address("burner"), Address("hashConsensusForAccountingOracle"),
     Address("hashConsensusForValidatorsExitBusOracle"), Proxy("stakingRouter"),
     Proxy("accountingOracle"), Proxy("validatorsExitBusOracle"),
     Proxy("withdrawalQueueERC721"), Address("oracleDaemonConfig"),
     Address("oracleReportSanityChecker") >>

OssifiableProxyAdminChanges ==
  << Proxy("lidoLocator"), Proxy("stakingRouter"), Proxy("accountingOracle"),
     Proxy("validatorsExitBusOracle"), Proxy("withdrawalQueueERC721") >>

RenouncedFirst(contract, agent) ==   \* mutant: the deployer leaves before the agent is there
  Renounce(contract, "DEFAULT_ADMIN_ROLE") \o Grant(contract, "DEFAULT_ADMIN_ROLE", agent)

TransferOZAdmin(contract, agent) ==
  Grant(contract, "DEFAULT_ADMIN_ROLE", agent) \o Renounce(contract, "DEFAULT_ADMIN_ROLE")

TransferRoles ==
  LET agent == Proxy("app:aragon-agent")
  IN  FlattenSeq([i \in DOMAIN OZAdminTransfers |->
           TransferOZAdmin(OZAdminTransfers[i], agent)])
      \o FlattenSeq([i \in DOMAIN OssifiableProxyAdminChanges |->
           Call("changeOwner", OssifiableProxyAdminChanges[i], <<agent>>)])
      \o (IF PredefinedDSM # Undefined THEN << >>
          ELSE Call("changeOwner", Address("depositSecurityModule"), <<agent>>))

(***************************************************************************)
(* scripts/scratch/steps.json                                              *)
(***************************************************************************)
Steps ==
  << "0000", "0010", "0020", "0030", "0040", "0050", "0060", "0070", "0080", "0090",
     "0100", "0110", "0120", "0130", "0140", "0150" >>

Script(step) ==
  CASE step = "0000" -> PopulateFromEnv
    [] step = "0010" -> DeployDepositContract
    [] step = "0020" -> DeployAragonEnv
    [] step = "0030" -> DeployTemplateAndAppBases
    [] step = "0040" -> RegisterENSDomain
    [] step = "0050" -> DeployLidoAPM
    [] step = "0060" -> CreateAppRepos
    [] step = "0070" -> DeployDAO
    [] step = "0080" -> IssueTokens
    [] step = "0090" -> DeployNonAragonContracts
    [] step = "0100" -> CreateGateSeal
    [] step = "0110" -> FinalizeDAO
    [] step = "0120" -> InitializeNonAragonContracts
    [] step = "0130" -> GrantRoles
    [] step = "0140" -> PlugStakingModules
    [] step = "0150" -> TransferRoles
===============================================================================

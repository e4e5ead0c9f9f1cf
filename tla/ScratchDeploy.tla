----------------------------- MODULE ScratchDeploy -----------------------------
(***************************************************************************)
(* A deployment of the protocol from scratch: scripts/dao-deploy.sh with   *)
(* scripts/utils/migrate.ts, or deployScratchProtocol of lib/scratch.ts,   *)
(* carrying out the steps of DeploySteps against a chain.                  *)
(*                                                                         *)
(* The deployment is one program with two memories, the chain and the      *)
(* state file, and it can stop between any two of its effects: a           *)
(* transaction is mined, then its gas is counted, then the address is      *)
(* written.  It is then started again from the first step, with the file   *)
(* reset.  What the earlier attempts left on the chain stays there; the    *)
(* number of the attempt in every address tells it from the new contracts, *)
(* and the only thing of theirs that a later attempt can meet is an ENS    *)
(* that was given: it keeps its owners, and the names under a package      *)
(* manager's node, which the next package manager cannot make again.       *)
(***************************************************************************)
EXTENDS DeploySteps

CONSTANTS
  Environments,   \* what the environment and the defaults may give
  MAX_ATTEMPTS    \* bound on the times the deployment is started

VARIABLES
  env,
  status,         \* "running", "failed" or "done"
  step,           \* the index in Steps of the running step
  pc,             \* the index of its next instruction
  mined,          \* whether its transaction is mined but not counted yet
  deployedSteps,  \* what the process remembers of the steps it has done
  file,           \* the state file
  \* the chain, of which the first counts the transactions of the attempt
  txs, code, implementationOf, argsOf, grants, ownerOf, template, tokens, modules,
  named           \* the nodes of ENS with the names of a package manager's packages

programVars == <<env, status, step, pc, mined, deployedSteps, state, attempt>>
chainVars ==
  <<code, implementationOf, argsOf, grants, ownerOf, nodeOwner, named, template, tokens,
    modules>>
vars == <<programVars, file, txs, chainVars>>

Nobody == Given("nobody")
Nodes == {"eth", "aragonpm", "aragonid", "owner.aragonid", "lidopm", "lido-dao"}
GivenKeys == {"ens", "daoFactory", "miniMeTokenFactory", "aragonID"}

(***************************************************************************)
(* deployed-testnet-defaults.json, in which the deployer may have given    *)
(* what is on the chain already.                                           *)
(***************************************************************************)
Defaults ==
  [entries |-> [key \in env.given |-> [address |-> Given(key)]],
   deployer |-> Undefined,
   gasUsed |-> 0,
   holders |-> Holders]

NoTemplate == [registry |-> Undefined, repos |-> << >>, dao |-> FALSE, manages |-> {}]
NoTokens == [supply |-> 0, vested |-> << >>]

Init ==
  /\ env \in Environments
  /\ nodeOwner = [node \in Nodes |->
                    IF "ens" \in env.given /\ node \in env.nodes THEN Deployer ELSE Nobody]
  /\ named = {}
  /\ attempt = 1
  /\ file = Defaults
  /\ state = Defaults
  /\ status = "running"
  /\ step = 1
  /\ pc = 1
  /\ mined = FALSE
  /\ deployedSteps = {}
  /\ txs = 0
  /\ code = {}
  /\ implementationOf = << >>
  /\ argsOf = << >>
  /\ grants = {}
  /\ ownerOf = << >>
  /\ template = NoTemplate
  /\ tokens = NoTokens
  /\ modules = << >>

(***************************************************************************)
(* Starting again.  A process in which every step has been deployed        *)
(* returns at once: there is nothing it does.  A shell starts a new        *)
(* process, which remembers nothing.                                       *)
(***************************************************************************)
Restart ==
  /\ status # "running"
  /\ attempt < MAX_ATTEMPTS
  /\ ~(Range(Steps) \subseteq deployedSteps)
  /\ attempt' = attempt + 1
  /\ file' = Defaults
  /\ state' = Defaults
  /\ status' = "running"
  /\ step' = 1
  /\ pc' = 1
  /\ mined' = FALSE
  /\ txs' = 0
  /\ code' = {}
  /\ implementationOf' = << >>
  /\ argsOf' = << >>
  /\ grants' = {}
  /\ ownerOf' = << >>
  /\ template' = NoTemplate
  /\ tokens' = NoTokens
  /\ modules' = << >>
  /\ UNCHANGED <<env, deployedSteps, nodeOwner, named>>

Fail ==
  /\ status' = "failed"
  /\ UNCHANGED <<env, step, pc, mined, deployedSteps, state, attempt, file, txs, chainVars>>

(***************************************************************************)
(* The process is killed, the node does not answer, a transaction is lost. *)
(* The last attempt that the bound leaves is not interrupted.              *)
(***************************************************************************)
Interrupt ==
  /\ status = "running"
  /\ attempt < MAX_ATTEMPTS
  /\ Fail

(***************************************************************************)
(* A step that has come to its end is remembered by the process of the     *)
(* tests, which may be asked for another deployment, and the next one      *)
(* begins with reading the file, which has to be that of the deployer.     *)
(***************************************************************************)
StepDone == status = "running" /\ pc > Len(Script(Steps[step]))

Remember ==
  deployedSteps' = IF env.inProcess THEN deployedSteps \cup {Steps[step]} ELSE {}

NextStep ==
  /\ StepDone
  /\ step < Len(Steps)
  /\ Remember
  /\ step' = step + 1
  /\ pc' = 1
  /\ state' = file
  /\ status' = IF readNetworkStateAccepts(file, env.signer) THEN "running" ELSE "failed"
  /\ UNCHANGED <<env, mined, attempt, file, txs, chainVars>>

Finish ==
  /\ StepDone
  /\ step = Len(Steps)
  /\ Remember
  /\ status' = "done"
  /\ UNCHANGED <<env, step, pc, mined, state, attempt, file, txs, chainVars>>

-------------------------------------------------------------------------------
(***************************************************************************)
(* The instructions.  The current one is undefined while the gas of the    *)
(* last one is not counted.  An instruction throws when it is given an     *)
(* address that the file does not have, or when the contract reverts.      *)
(***************************************************************************)
Current ==
  IF status = "running" /\ ~mined /\ pc <= Len(Script(Steps[step]))
  THEN {Script(Steps[step])[pc]} ELSE {}

HasRole(contract, role, account) == <<contract, role, account>> \in grants
OwnedByDeployer(contract) ==
  contract \in DOMAIN ownerOf /\ ownerOf[contract] = Deployer

(***************************************************************************)
(* The applications ask the locator for other contracts when they are      *)
(* initialized, which its first, empty implementation does not answer.     *)
(***************************************************************************)
LocatorAnswers(locator) ==
  locator \in DOMAIN implementationOf /\ implementationOf[locator][1] = "lidoLocator"

Accepts(i) ==
  /\ Undefined \notin {i.to} \cup Range(i.args)
  /\ CASE i.op = "setOwner" -> nodeOwner[i.what] = Deployer
       [] i.op = "setSubnodeOwner" -> nodeOwner["eth"] = Deployer
       [] i.op = "assertNodeOwner" -> nodeOwner[i.what] = i.args[1]
       [] i.op = "register" ->
            nodeOwner["aragonid"] = i.to /\ nodeOwner[i.what] \in {Nobody, Deployer}
       [] i.op = "newAPM" -> nodeOwner[i.what] = i.to /\ i.what \notin named
       [] i.op = "deployLidoAPM" ->
            /\ OwnedByDeployer(i.to)
            /\ template.registry = Undefined
            /\ nodeOwner[i.what] = i.to
            /\ i.what \notin named
       [] i.op = "createRepos" ->
            OwnedByDeployer(i.to) /\ template.registry # Undefined
       [] i.op = "createStdAragonRepos" ->
            OwnedByDeployer(i.to) /\ template.registry # Undefined
       [] i.op = "newDAO" ->
            /\ OwnedByDeployer(i.to)
            /\ template.registry # Undefined
            /\ ~template.dao
            /\ DOMAIN template.repos = TemplateApps
       [] i.op = "assertInstalled" ->
            \A app \in TemplateApps :
              implementationOf[New(app, "proxy")] = template.repos[app]
       [] i.op = "issueTokens" ->
            /\ OwnedByDeployer(i.to)
            /\ i.what.holders # << >>
            /\ template.dao
            /\ tokens.supply + TotalOf(i.what.holders) = i.what.endTotalSupply
       [] i.op = "finalizeDAO" ->
            OwnedByDeployer(i.to) /\ template.dao /\ nodeOwner["lido-dao"] = Nobody
       [] i.op = "assertGateSealCreated" -> i.to \in code
       [] i.op \in {"proxy__upgradeTo", "changeOwner"} -> OwnedByDeployer(i.to)
       [] i.op = "initialize" ->
            /\ i.to \notin DOMAIN argsOf
            /\ i.what # "admin" => LocatorAnswers(i.args[1])
       [] i.op = "grantRole" -> HasRole(i.to, "DEFAULT_ADMIN_ROLE", Deployer)
       [] i.op \in {"setBaseURI", "set parameter"} -> HasRole(i.to, i.what, Deployer)
       [] i.op = "addStakingModule" ->
            HasRole(i.to, i.what, Deployer) /\ i.args[1] \notin Range(modules)
       [] OTHER -> TRUE

Throw(i) ==
  /\ ~Accepts(i)
  /\ Fail

(***************************************************************************)
(* A transaction is mined.  makeTx and deployContractType2 then add its    *)
(* gas, here 1, to what the file counts.                                   *)
(***************************************************************************)
Mined(i) ==
  /\ Accepts(i)
  /\ mined' = TRUE
  /\ txs' = txs + 1
  /\ UNCHANGED <<env, status, step, pc, deployedSteps, state, attempt, file>>

CountGas ==
  /\ status = "running"
  /\ mined
  /\ file' = incrementGasUsed(file, 1)
  /\ mined' = FALSE
  /\ pc' = pc + 1
  /\ UNCHANGED <<env, status, step, deployedSteps, state, attempt, txs, chainVars>>

(***************************************************************************)
(* Constructors: who administers the contract, and who owns it.            *)
(***************************************************************************)
ConstructorGrants(contract, args) ==
  CASE contract[1] \in {"oracleDaemonConfig", "hashConsensusForAccountingOracle",
                        "hashConsensusForValidatorsExitBusOracle"} ->
         {<<contract, "DEFAULT_ADMIN_ROLE", args[1]>>}
    [] contract[1] = "oracleReportSanityChecker" ->
         {<<contract, "DEFAULT_ADMIN_ROLE", args[2]>>}
    [] contract[1] = "burner" ->
         {<<contract, "DEFAULT_ADMIN_ROLE", args[1]>>,
          <<contract, "REQUEST_BURN_SHARES_ROLE", args[3]>>}
    [] OTHER -> {}

Deploy(i) ==
  /\ i.op = "deploy"
  /\ Mined(i)
  /\ code' = code \cup {i.to}
  /\ argsOf' = (i.to :> i.args) @@ argsOf
  /\ grants' = grants \cup ConstructorGrants(i.to, i.args)
  /\ ownerOf' = IF i.to[1] \in {"lidoTemplate", "depositSecurityModule"}
                THEN (i.to :> Deployer) @@ ownerOf ELSE ownerOf
  /\ UNCHANGED <<implementationOf, nodeOwner, named, template, tokens, modules>>

DeployProxy(i) ==
  /\ i.op = "deployProxy"
  /\ Mined(i)
  /\ code' = code \cup {i.to}
  /\ implementationOf' = (i.to :> i.args[1]) @@ implementationOf
  /\ ownerOf' = (i.to :> i.args[2]) @@ ownerOf
  /\ UNCHANGED <<argsOf, grants, nodeOwner, named, template, tokens, modules>>

UpgradeProxy(i) ==
  /\ i.op = "proxy__upgradeTo"
  /\ Mined(i)
  /\ implementationOf' = [implementationOf EXCEPT ![i.to] = i.args[1]]
  /\ UNCHANGED <<code, argsOf, grants, ownerOf, nodeOwner, named, template, tokens,
                 modules>>

(***************************************************************************)
(* proxy__changeAdmin of a proxy, setOwner of DepositSecurityModule.       *)
(***************************************************************************)
ChangeOwner(i) ==
  /\ i.op = "changeOwner"
  /\ Mined(i)
  /\ ownerOf' = [ownerOf EXCEPT ![i.to] = i.args[1]]
  /\ UNCHANGED <<code, implementationOf, argsOf, grants, nodeOwner, named, template,
                 tokens, modules>>

(***************************************************************************)
(* The oracles, the queue and the router give their admin role then.       *)
(***************************************************************************)
Initialize(i) ==
  /\ i.op = "initialize"
  /\ Mined(i)
  /\ argsOf' = (i.to :> i.args) @@ argsOf
  /\ grants' = IF i.what = "admin"
               THEN grants \cup {<<i.to, "DEFAULT_ADMIN_ROLE", i.args[1]>>} ELSE grants
  /\ UNCHANGED <<code, implementationOf, ownerOf, nodeOwner, named, template, tokens,
                 modules>>

GrantRole(i) ==
  /\ i.op = "grantRole"
  /\ Mined(i)
  /\ grants' = grants \cup {<<i.to, i.what, i.args[1]>>}
  /\ UNCHANGED <<code, implementationOf, argsOf, ownerOf, nodeOwner, named, template,
                 tokens, modules>>

RenounceRole(i) ==
  /\ i.op = "renounceRole"
  /\ Mined(i)
  /\ grants' = grants \ {<<i.to, i.what, i.args[1]>>}
  /\ UNCHANGED <<code, implementationOf, argsOf, ownerOf, nodeOwner, named, template,
                 tokens, modules>>

AddStakingModule(i) ==
  /\ i.op = "addStakingModule"
  /\ Mined(i)
  /\ modules' = Append(modules, i.args[1])
  /\ UNCHANGED <<code, implementationOf, argsOf, grants, ownerOf, nodeOwner, named,
                 template, tokens>>

(***************************************************************************)
(* What changes nothing that is kept here.                                 *)
(***************************************************************************)
SetParameter(i) ==
  /\ i.op \in {"setBaseURI", "set parameter"}
  /\ Mined(i)
  /\ UNCHANGED chainVars

(***************************************************************************)
(* The factory of seals, if there is a contract at the address given.      *)
(***************************************************************************)
GateSealFactory(i) ==
  /\ i.op = "create_gate_seal"
  /\ Mined(i)
  /\ code' = IF env.gateSeal = "factory" THEN code \cup {i.args[1]} ELSE code
  /\ UNCHANGED <<implementationOf, argsOf, grants, ownerOf, nodeOwner, named, template,
                 tokens, modules>>

(***************************************************************************)
(* ENS.  A new one gives its deployer the top-level domain.  The registrar *)
(* aragonID is asked for a name by its deployer, who is its owner then.    *)
(***************************************************************************)
NewENS(i) ==
  /\ i.op = "newENS"
  /\ Mined(i)
  /\ code' = code \cup {i.args[1]}
  /\ nodeOwner' = [node \in Nodes |-> IF node = "eth" THEN i.args[2] ELSE Nobody]
  /\ named' = {}
  /\ UNCHANGED <<implementationOf, argsOf, grants, ownerOf, template, tokens, modules>>

SetNodeOwner(i) ==
  /\ i.op \in {"setOwner", "setSubnodeOwner", "register"}
  /\ Mined(i)
  /\ nodeOwner' = [nodeOwner EXCEPT ![i.what] = i.args[1]]
  /\ UNCHANGED <<code, implementationOf, argsOf, grants, ownerOf, named, template,
                 tokens, modules>>

(***************************************************************************)
(* A package manager: its registrar gets the node and names the packages   *)
(* of the manager's own code under it, names that must not be there yet,   *)
(* and the account given becomes the manager of the registry.              *)
(***************************************************************************)
Registrar == New("ensSubdomainRegistrar", "proxy")

NamePackages(node) ==
  /\ nodeOwner' = [nodeOwner EXCEPT ![node] = Registrar]
  /\ named' = named \cup {node}

NewAPM(i) ==
  /\ i.op = "newAPM"
  /\ Mined(i)
  /\ code' = code \cup {i.args[1]}
  /\ NamePackages(i.what)
  /\ ownerOf' = (i.args[1] :> i.args[2]) @@ ownerOf
  /\ UNCHANGED <<implementationOf, argsOf, grants, template, tokens, modules>>

(***************************************************************************)
(* LidoTemplate.  What it manages until the DAO is final: the registry of  *)
(* packages, the repositories, the DAO and the issue of its tokens.        *)
(***************************************************************************)
DeployLidoAPMTx(i) ==
  /\ i.op = "deployLidoAPM"
  /\ Mined(i)
  /\ code' = code \cup {i.args[1]}
  /\ NamePackages(i.what)
  /\ template' = [template EXCEPT !.registry = i.args[1], !.manages = @ \cup {"lidoApm"}]
  /\ UNCHANGED <<implementationOf, argsOf, grants, ownerOf, tokens, modules>>

AddRepos(repos) ==
  template' = [template EXCEPT !.repos = repos @@ @, !.manages = @ \cup DOMAIN repos]

CreateRepos(i) ==
  /\ i.op = "createRepos"
  /\ Mined(i)
  /\ AddRepos("app:lido" :> i.args[1] @@ "app:node-operators-registry" :> i.args[2]
               @@ "app:oracle" :> i.args[3] @@ "app:simple-dvt" :> i.args[2])
  /\ UNCHANGED <<code, implementationOf, argsOf, grants, ownerOf, nodeOwner, named,
                 tokens, modules>>

CreateStdAragonRepos(i) ==
  /\ i.op = "createStdAragonRepos"
  /\ Mined(i)
  /\ AddRepos("app:aragon-agent" :> i.args[1] @@ "app:aragon-finance" :> i.args[2]
               @@ "app:aragon-token-manager" :> i.args[3] @@ "app:aragon-voting" :> i.args[4])
  /\ UNCHANGED <<code, implementationOf, argsOf, grants, ownerOf, nodeOwner, named,
                 tokens, modules>>

DAOContracts ==
  {New("aragon-kernel", "proxy"), New("aragon-acl", "proxy"), New("ldo", "address"),
   New("aragon-evm-script-registry", "proxy"),
   New("aragon-evm-script-registry", "implementation"), New("callsScript", "address")}

NewDAO(i) ==
  /\ i.op = "newDAO"
  /\ Mined(i)
  /\ code' = code \cup DAOContracts \cup {New(app, "proxy") : app \in TemplateApps}
  /\ implementationOf' =
       [proxy \in {New(app, "proxy") : app \in TemplateApps} |-> template.repos[proxy[1]]]
         @@ implementationOf
  /\ template' = [template EXCEPT !.dao = TRUE, !.manages = @ \cup {"dao", "tokens"}]
  /\ UNCHANGED <<argsOf, grants, ownerOf, nodeOwner, named, tokens, modules>>

IssueTokensTx(i) ==
  /\ i.op = "issueTokens"
  /\ Mined(i)
  /\ tokens' = [supply |-> i.what.endTotalSupply, vested |-> tokens.vested \o i.what.holders]
  /\ UNCHANGED <<code, implementationOf, argsOf, grants, ownerOf, nodeOwner, named,
                 template, modules>>

(***************************************************************************)
(* Everything goes to the voting, except for the repository of simple DVT, *)
(* which the list of repositories in _setupPermissions does not have.      *)
(***************************************************************************)
FinalizeDAOTx(i) ==
  /\ i.op = "finalizeDAO"
  /\ Mined(i)
  /\ template' = [NoTemplate EXCEPT !.manages = {"app:simple-dvt"}]
  /\ tokens' = [tokens EXCEPT !.supply = @ + i.what]
  /\ nodeOwner' = [nodeOwner EXCEPT !["lido-dao"] = New("aragon-kernel", "proxy")]
  /\ UNCHANGED <<code, implementationOf, argsOf, grants, ownerOf, named, modules>>

-------------------------------------------------------------------------------
(***************************************************************************)
(* The checks and the writes of the state file.                            *)
(***************************************************************************)
Done(i) ==
  /\ Accepts(i)
  /\ pc' = pc + 1
  /\ UNCHANGED <<env, status, step, mined, deployedSteps, state, attempt, txs, chainVars>>

Check(i) ==
  /\ i.op \in {"assertNodeOwner", "assertInstalled", "assertGateSealCreated"}
  /\ Done(i)
  /\ UNCHANGED file

(***************************************************************************)
(* Everything the environment gives goes into the file at once.            *)
(***************************************************************************)
FromEnv ==
  LET whenGiven(condition, key, supplement) ==
        IF condition THEN key :> supplement ELSE << >>
  IN  whenGiven(env.depositContract, "chainSpec",
                [depositContract |-> Given("depositContract")])
      @@ whenGiven(env.gateSeal # "none", "gateSeal",
                   [factoryAddress |-> Given("gateSealFactory")])
      @@ whenGiven(env.baseUri, "withdrawalQueueERC721", [baseUri |-> Given("baseUri")])
      @@ whenGiven(env.dsm, "depositSecurityModule",
                   [address |-> Given("depositSecurityModule"),
                    usePredefinedAddressInstead |-> Given("depositSecurityModule")])

Populate(i) ==
  /\ i.op = "populate"
  /\ Done(i)
  /\ file' = [file EXCEPT !.deployer = Deployer, !.gasUsed = 0, !.entries = FromEnv @@ @]

Update(i) ==
  /\ i.op = "update"
  /\ Done(i)
  /\ file' = updateObjectInState(file, i.to[1], i.what)

SetValue(i) ==
  /\ i.op = "set"
  /\ Done(i)
  /\ file' = setValueInState(file, i.what, i.args[1])

mergeAll(supplements) ==
  LET old(key) == IF key \in DOMAIN file.entries THEN file.entries[key] ELSE << >>
  IN  [key \in DOMAIN supplements |-> supplements[key] @@ old(key)] @@ file.entries

(***************************************************************************)
(* saveStateFromNewDAOTx: the proxies of the applications, with the agent  *)
(* put in the place of its placeholder, and then the other two proxies.    *)
(***************************************************************************)
PersistApps(i) ==
  LET others == SelectSeq(file.holders, LAMBDA h : h.holder # AgentPlaceholder)
      vesting == SelectSeq(file.holders, LAMBDA h : h.holder = AgentPlaceholder)
  IN  /\ i.op = "persistApps"
      /\ Done(i)
      /\ file' = [file EXCEPT
           !.entries = mergeAll([app \in TemplateApps |-> [proxy |-> New(app, "proxy")]]),
           !.holders = Append(others, [vesting[1] EXCEPT
                                         !.holder = New("app:aragon-agent", "proxy")])]

PersistProxies(i) ==
  /\ i.op = "persistProxies"
  /\ Done(i)
  /\ file' = [file EXCEPT !.entries =
       mergeAll("aragon-acl" :> [proxy |-> New("aragon-acl", "proxy")]
                @@ "aragon-evm-script-registry" :>
                     [proxy |-> New("aragon-evm-script-registry", "proxy"),
                      implementation |-> New("aragon-evm-script-registry", "implementation")])]

Instruction(i) ==
  \/ Deploy(i) \/ DeployProxy(i) \/ UpgradeProxy(i) \/ ChangeOwner(i)
  \/ Initialize(i) \/ GrantRole(i) \/ RenounceRole(i) \/ SetParameter(i)
  \/ AddStakingModule(i) \/ GateSealFactory(i)
  \/ NewENS(i) \/ SetNodeOwner(i) \/ NewAPM(i)
  \/ DeployLidoAPMTx(i) \/ CreateRepos(i) \/ CreateStdAragonRepos(i)
  \/ NewDAO(i) \/ IssueTokensTx(i) \/ FinalizeDAOTx(i)
  \/ Check(i) \/ Populate(i) \/ Update(i) \/ SetValue(i)
  \/ PersistApps(i) \/ PersistProxies(i)
  \/ Throw(i)

Work == NextStep \/ Finish \/ CountGas \/ \E i \in Current : Instruction(i)

Next == Work \/ Interrupt \/ Restart

(***************************************************************************)
(* The scripts go on while they run.  Nobody has to start them again.      *)
(***************************************************************************)
Spec == Init /\ [][Next]_vars /\ WF_vars(Work)

-------------------------------------------------------------------------------
(***************************************************************************)
(* Properties.                                                             *)
(***************************************************************************)

\* Every variable keeps its type.
TypeOK ==
  /\ env \in Environments
  /\ status \in {"running", "failed", "done"}
  /\ attempt \in 1..MAX_ATTEMPTS
  /\ step \in 1..Len(Steps)
  /\ pc \in 1..Len(Script(Steps[step])) + 1
  /\ mined \in BOOLEAN
  /\ deployedSteps \subseteq Range(Steps)
  /\ txs \in Nat /\ file.gasUsed \in Nat /\ tokens.supply \in Nat
  /\ DOMAIN nodeOwner = Nodes
  /\ named \subseteq Nodes
  /\ DOMAIN implementationOf \subseteq code
  /\ Range(modules) \subseteq code

AddressesIn(f) ==
  UNION {Range(f.entries[key]) : key \in DOMAIN f.entries}
Made(addresses) == {a \in addresses : a[3] # 0}

\* The gas that the file counts is that of every transaction of this attempt but
\* the one just mined: no write of the file undoes the counting.
GasIsCounted ==
  status = "running" => file.gasUsed + (IF mined THEN 1 ELSE 0) = txs

\* Whenever a step begins, and at the end, the file has the addresses of the
\* contracts that this attempt has made, all of them and no others: a step never
\* begins with an address that is missing or of an attempt that was given up.  (The
\* contracts are those the scripts have an address of.  What the factories of Aragon
\* make besides is not in `code': the registrars, the DAOs of the package managers and
\* the repositories.)  Of each proxy the file has the implementation that it has on
\* the chain, but of the one of simple DVT it has none: it shares the implementation
\* of the registry, and 0070 (l. 158-175) writes implementations of no application.
\* Nor does a write of the file undo the counting of gas, which is a write as well.
FileIsTheDeployment ==
  /\ GasIsCounted
  /\ (status = "running" /\ pc = 1 /\ ~mined) \/ status = "done" =>
    /\ Made(AddressesIn(file)) = code
    /\ \A key \in DOMAIN file.entries :
         LET proxy == Field(file, key, "proxy")
         IN  proxy \in DOMAIN implementationOf =>
               Field(file, key, "implementation") =
                 IF key = "app:simple-dvt" THEN Undefined ELSE implementationOf[proxy]

(***************************************************************************)
(* What the contracts have to know of each other: the names of the fields  *)
(* of LidoLocator.Config, in their order.                                  *)
(***************************************************************************)
ConfigFields ==
  << "accountingOracle", "depositSecurityModule", "executionLayerRewardsVault",
     "app:oracle", "app:lido", "oracleReportSanityChecker", "app:oracle", "burner",
     "stakingRouter", "app:aragon-agent", "validatorsExitBusOracle",
     "withdrawalQueueERC721", "withdrawalVault", "oracleDaemonConfig" >>

Known(key) == getAddress(key, file)

\* The locator has, under each of its names, the contract that the file has under
\* that name; each oracle and its consensus contract name each other; every
\* registry, Lido and the legacy oracle use this locator; and the router has the
\* two registries as its modules.
ContractsKnowEachOther ==
  /\ argsOf[implementationOf[Known("lidoLocator")]]
       = [n \in DOMAIN ConfigFields |-> Known(ConfigFields[n])]
  /\ \A pair \in {<<"accountingOracle", "hashConsensusForAccountingOracle">>,
                  <<"validatorsExitBusOracle", "hashConsensusForValidatorsExitBusOracle">>} :
       /\ argsOf[Known(pair[1])][2] = Known(pair[2])
       /\ argsOf[Known(pair[2])][2] = Known(pair[1])
  /\ \A app \in {"app:lido", "app:oracle", "app:node-operators-registry"} :
       argsOf[Known(app)][1] = Known("lidoLocator")
  /\ modules = <<Known("app:node-operators-registry"), Field(file, "app:simple-dvt", "proxy")>>

\* Every holder has its tokens once, the agent in the place of its placeholder,
\* however the holders are split into transactions, and there are no others.
EveryHolderIsVested ==
  /\ Len(tokens.vested) = Len(Holders)
  /\ \A h \in Range(Holders) :
       LET holder == IF h.holder = AgentPlaceholder
                     THEN Known("app:aragon-agent") ELSE h.holder
       IN  [h EXCEPT !.holder = holder] \in Range(tokens.vested)
  /\ tokens.supply = TotalOf(Holders) + UnvestedTokensAmount

\* A finished deployment is one: its contracts know each other and its token is
\* with its holders, whatever was interrupted before.
FinishedDeploymentIsWhole ==
  status = "done" => ContractsKnowEachOther /\ EveryHolderIsVested

\* What the deployer keeps of the protocol at the end: no role in its contracts, not
\* even one it granted itself for the time, and none of its proxies.  It stays the
\* owner of the template, which manages no more than the repository of simple DVT,
\* and, of what a DAO stands on, the manager of Aragon's package registry, which 0020
\* makes it (l. 31), and the owner of the top-level domain and of the name it
\* registers with aragonID (l. 62): no step passes these on.
DeployerKeepsNoneOfTheProtocol ==
  status = "done" =>
    /\ ~\E g \in grants : g[3] = Deployer
    /\ \A c \in DOMAIN ownerOf :
         ownerOf[c] = Deployer => c[1] \in {"lidoTemplate", "aragon-apm-registry"}
    /\ template.manages \subseteq {"app:simple-dvt"}
    /\ {node \in Nodes : nodeOwner[node] = Deployer} \subseteq {"eth", "owner.aragonid"}

(***************************************************************************)
(* Who holds the governed contracts of this attempt.                       *)
(***************************************************************************)
Administered ==
  {<<"burner", "address">>, <<"hashConsensusForAccountingOracle", "address">>,
   <<"hashConsensusForValidatorsExitBusOracle", "address">>, <<"stakingRouter", "proxy">>,
   <<"accountingOracle", "proxy">>, <<"validatorsExitBusOracle", "proxy">>,
   <<"withdrawalQueueERC721", "proxy">>, <<"oracleDaemonConfig", "address">>,
   <<"oracleReportSanityChecker", "address">>}
Owned ==
  {<<"lidoLocator", "proxy">>, <<"stakingRouter", "proxy">>, <<"accountingOracle", "proxy">>,
   <<"validatorsExitBusOracle", "proxy">>, <<"withdrawalQueueERC721", "proxy">>}
    \cup (IF env.dsm THEN {} ELSE {<<"depositSecurityModule", "address">>})

HoldersOf(kind, name) ==
  LET contract == New(name[1], name[2])
      accounts == IF kind = "admin"
                  THEN {a \in {Deployer, New("app:aragon-agent", "proxy")} :
                          HasRole(contract, "DEFAULT_ADMIN_ROLE", a)}
                  ELSE {ownerOf[c] : c \in DOMAIN ownerOf \cap {contract}}
  IN  {IF a = Deployer THEN "deployer" ELSE "agent" : a \in accounts}

Handover == INSTANCE AdminHandover WITH
  Deployer <- "deployer", Agent <- "agent",
  holders <- [c \in ({"admin"} \X Administered) \cup ({"owner"} \X Owned) |->
                HoldersOf(c[1], c[2])]

\* The governed contracts are never without a holder, none is passed on before all
\* of them are there, and the deployer leaves only what the agent has.
ImplementsHandover == Handover!Spec

(***************************************************************************)
(* A deployment can be made on this chain if its deployer is the one that  *)
(* signs, if what is given works, and if an ENS that is given is the one   *)
(* of a first deployment: its top-level domain is the deployer's, no DAO   *)
(* took the name, and no attempt came as far as the package manager of     *)
(* Aragon (0020, l. 31).  After that the names of its packages are taken,  *)
(* and newAPM refuses every later attempt on the same ENS.                 *)
(***************************************************************************)
Deployable ==
  /\ env.signer = Deployer
  /\ "daoFactory" \notin env.given
  /\ env.gateSeal # "zero"
  /\ "ens" \in env.given =>
       /\ nodeOwner["eth"] = Deployer
       /\ nodeOwner["lido-dao"] = Nobody
       /\ named = {}

\* Every attempt on a chain where a deployment can be made completes if it is not
\* interrupted, also after others that were given up: at any point where the attempt
\* makes its own ENS, before the first package manager where the ENS was given.
DeploymentCompletes ==
  (attempt = MAX_ATTEMPTS /\ step = 1 /\ pc = 1 /\ Deployable) ~> (status = "done")
===============================================================================

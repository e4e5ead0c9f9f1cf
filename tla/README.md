# A TLA+ model of the Lido protocol on Ethereum

This directory models the smart contracts under `src/contracts/` - how stakers'
ether becomes stETH, how an oracle committee agrees on reports, how reports
change the pool and the staking modules, how deposits are guarded, and how
withdrawal requests are finalized and claimed - and the scripts under
`src/scripts/scratch` and `src/lib` that deploy them. Each module is a
translation of code. TLC checks the modules on small instances, and TLAPS
proves theorems for all values of their constants.

In the models of the contracts one action is one transaction: the EVM runs
transactions one after the other, and a transaction that reverts changes
nothing, so a failed `require` disables the action. Interleaving is between the
transactions of different actors (holders, committee members, guardians,
managers, the daemon) and the clock. In the model of the deployment one action
is one effect of the scripts, on the chain or on the state file, and the
scripts may be killed between any two.

## The system

| component | state | operations | interacts with |
|---|---|---|---|
| `HashConsensus` | frame config, members and their last votes, report variants with their support, quorum, report processor | vote, add and remove members, set the quorum, frame config, fast lane and processor | calls `submitConsensusReport` and `discardConsensusReport` of the processor, reads its last processed slot and version |
| `BaseOracle` (`AccountingOracle`, `ValidatorsExitBusOracle`) | pending consensus report, last processing slot, consensus contract and version | take and drop a report, start processing, change contract or version | called by a `HashConsensus`; the accounting oracle drives Lido, the queue, the router and the legacy oracle |
| `AccountingOracle` extra data | progress of the second phase of a report | submit data, submit extra data | staking router |
| `ValidatorsExitBusOracle` | last requested validator of each operator | submit exit requests, pause | node operators read its events |
| `WithdrawalQueue` (Base, ERC721) | requests with cumulative amounts, checkpoints of rates, locked ether, owners, approvals, bunker mode, pause | request, finalize, claim, transfer, approve, pause | Lido finalizes; burns its shares through the Burner |
| `Lido` and `StETH` | buffered ether, validators and balance on the beacon chain, shares, allowances, stake limit, pause | submit, deposit, handle a report, transfers | everything |
| `Burner` | shares requested to be burnt, cover and other | request, commit, recover | Lido commits in a report |
| `OracleReportSanityChecker`, `PositiveTokenRebaseLimiter` | limits | views over a report | called by Lido and the oracles |
| `StakingRouter` | modules with shares, fees, status, exited counts; the withdrawal credentials | add and update modules, deposit, report exits and rewards, correct counts, change credentials | calls its modules, some under `try` |
| `NodeOperatorsRegistry` | operators with key counters, limits and penalties, their summary, a nonce | manage operators and keys, report stuck and exited validators, obtain deposit data | called by the router |
| `DepositSecurityModule` | guardians, quorum, distances | deposit, pause | calls Lido and the router |
| deployment scripts | the state file, the step and instruction they are at | deploy, call, write the file, migrate | the chain: code, roles, owners, names, tokens |
| report helper | - | gather and submit a report | the oracles, `HashConsensus`, Lido, the queue |
| vaults, `WstETH`, `LegacyOracle`, proxies, locator | balances; addresses | simple | - |

What makes them correct, in one line each:

- consensus: the report handed over is the one a majority of the current
  committee stands behind, no vote is lost or counted twice, no slot is
  processed twice or out of order;
- oracles: a report comes in two phases, the second once and in time; a truthful
  report is not refused; a validator is asked to exit once;
- queue: first in, first finalized; a finalized value never changes, is backed
  by locked ether but for a wei or two of rounding, and is paid once, to the
  owner of the token;
- staking: no more is staked than the limit has let through, and nothing but a
  resumption ends a pause;
- Lido: the ether counted is the ether there is; a report neither mints nor
  burns value other than the rewards, losses and fees it states;
- Burner: what is burnt was requested, cover first;
- rebase limiter: the share rate grows by no more than the limit;
- router and registry: summaries equal the sums they stand for; exited and
  stuck, deposited, vetted and added keys stay ordered; allocations stay within
  capacities; the nonce changes with the keys to deposit (but see `nor_nonce`); a
  module is told that counts are complete only when they are;
- deposits: only keys a quorum of the guardians has seen, and only for the
  credentials the keys were signed for;
- deployment: the file says what is on the chain; the contracts know each other;
  everything passes to the agent and nothing is left ownerless on the way.

The hard behaviours are the long sequences: votes, re-votes and removals while
processing may start at any moment; parameters changed in the middle of a
frame; two phases of a report while counts are corrected by hand; requests that
arrive between the reference slot of a report and the report; keys, guardians
and credentials that change between a signature and the deposit; rounding that
must err on one side; cached sums; a deployment that is killed between a
transaction and the note of it. `PROJECT.json` lists them one by one with their
lines.

## Modules

| module | role | code |
|---|---|---|
| `FrameTime` | slots, epochs, frames, the wrapped interval | `HashConsensus`, `lib/Math` |
| `BaseOracle` | one record per oracle; the storage of `BaseOracle` | `BaseOracle` |
| `ReportProcessor` | abstract: what a processor promises | `IReportAsyncProcessor` |
| `HashConsensus` | the committee, composed with `BaseOracle`: a vote and the call it makes are one action | `HashConsensus` |
| `AccountingOracle` | the two phases of a report, composed with `BaseOracle` and the router | `AccountingOracle` |
| `TwoPhaseReports` | abstract: main data, then extra data once, per reference slot | - |
| `ValidatorsExitBusOracle` | lists of exit requests, last requested validators, pause | `ValidatorsExitBusOracle` |
| `StakingRouter` | modules, counts, deposits, credentials; of a module contract what the router touches | `StakingRouter`, parts of `NodeOperatorsRegistry` |
| `DepositSecurityModule` | guardians, signatures, guarded deposits and pauses; the deposit of `Lido` | `DepositSecurityModule`, `Lido.deposit` |
| `ReportsAndDeposits` | composition of the five above with the chain they report about, the committees, the DAO and the guardians | `submitReport` of `lib/protocol/helpers/accounting.ts` and the roles in the contracts |
| `PausableUntil` | the three ways to set the resume timestamp | `PausableUntil` |
| `WithdrawalMath` | batches, prices, the search for a hint; no state | `WithdrawalQueueBase` |
| `WithdrawalQueue` | requests, finalization, claims, token, pause, bunker mode | the three queue contracts; `_calculateWithdrawals` and the finalization in `Lido` |
| `Withdrawals` | abstract: requests with a state and a value | - |
| `StakeLimit` | the packed limit | `StakeLimitUtils` |
| `Staking` | submit, limits, the two pauses | `Lido` |
| `TokenBucket` | abstract: a bucket filled block by block | - |
| `TokenRebaseLimiter`, `ReportSanityChecker` | the limit on rebases, the checks on a report; no state | the two contracts of these names |
| `Accounting` | shares, ether, deposits, Burner, vaults, reports gathered and handled | `Lido`, `StETH`, `Burner`, `OracleReportSanityChecker`; `lib/protocol/helpers/accounting.ts` |
| `Pool` | abstract: ether in four places and a price that falls only with a loss | - |
| `MinFirstAllocation` | the allocation of deposits to the least filled bucket; no state | `MinFirstAllocationStrategy` |
| `NodeOperatorsRegistry` | operators, keys, limits, reports, penalties, deposits, summary, nonce | `NodeOperatorsRegistry`, `SigningKeys` |
| `StakingModule` | abstract: what the router sees of a module, three numbers | `IStakingModule` |
| `StateFile` | the state file and its operations | `lib/state-file.ts` |
| `DeploySteps` | the sixteen steps as sequences of instructions | `scripts/scratch/steps`, `lib/deploy.ts` |
| `ScratchDeploy` | the interpreter of the steps, the chain, crashes and new attempts | `lib/scratch.ts`, `scripts/utils/migrate.ts`, `lib/deploy.ts`, `LidoTemplate` |
| `AdminHandover` | abstract: contracts pass from the deployer to the agent | - |
| `MC...` | symmetry sets, pools, scenarios and bounds for TLC | - |
| `...Proofs` | theorems: `HashConsensusProofs` (with those of `BaseOracle`), `WithdrawalQueueProofs`, `ReportsAndDepositsProofs`, `AccountingProofs`, `StakingProofs`, `AllocationProofs`, `RegistryProofs` | - |
| `DataLemmas` | lemmas on division, sums and folds that the proofs share | - |

State variables have the names of the storage they model; actions have the
names of the functions. `HashConsensus` keeps the three tables of members
(`memberStates`, `memberAddresses`, `memberIndices1b`) separate because the
code does, and keeps the support counters incremental. Indices count from 1,
except the indices of the fast lane arithmetic. The dummy elements at index 0
of the queue and of the checkpoints are left out. Reverting subtractions and
assertions of the code are either guards (then the property that they never
fail is stated separately, as in `SupportNeverUnderflows`) or proved harmless.
Every module with variables defines its type; a type is proved where there are
proofs, and is not a question of its own for TLC.

### Consensus and oracles

A report hash is a record of what it is the hash of (version, slot, payload):
hashes are equal exactly if the data are. A member's vote names the version
and slot the contract expects, since any other reverts.

`HashConsensus` and `BaseOracle` share the variable of the oracles, so the
votes and the calls they make are checked together. `ReportsAndDeposits` puts a
committee that agrees at once in the place of `HashConsensus`, and follows the
report from there: `SubmitReportData` of the accounting oracle checks its
payload, starts processing, updates the exited validators by module in the
router and starts the extra data phase; `SubmitReportExtraDataList` goes through
the items in order, with the checks on types, module ids and operators, and
tells the router, which forwards the counts to the module contracts and finally
tells each complete module under `try`. A series of calls that may revert in the
middle is an operator whose result says whether it did. A list of extra data is
its own hash.

The chain is the truth the committee reports: exited and stuck validators by
operator. A truthful payload is what the chain was at the end of the reference
slot, compared with what the contracts knew then. Besides it the committee may
agree on a malformed one. The DAO corrects counts with
`unsafeSetExitedValidatorsCount`, towards the present truth, at any time.

### Deposits

A signature is kept from when it is given, and anybody may use it later, with
any others, in any order. Guardians sign what they see at the end of the last
block: a block hash, the deposit root and the nonce of a module, of which
`attested` remembers also the keys they saw. Keys, roots, guardians, quorum,
settings, pauses and credentials then change in any order before the deposit.
What the keys in a module look like is a sequence of keys, each with its
operator and the credentials it was signed for. The DAO changes refunded counts
too (`UpdateRefundedValidatorsCount`), which takes keys out of the ones to deposit
or gives them back under the same nonce; the first operator starts with a stuck
validator that has been refunded, so that this happens within the bounds.

Two assumptions about the environment: guardians sign only what the last block
left, and the DAO lets a module take deposits (adds it, or resumes it) only when
its keys are for the present credentials. The second is what the contracts
leave to the DAO: `setWithdrawalCredentials` tells the modules to drop their
keys and pauses one that fails to, but a module added or resumed later keeps the
keys it has.

### Queue, staking and the pool

In `WithdrawalQueue` the pool is external: a record of ether and shares that a
report replaces by any other, so rates go up and down freely. The oracle
daemon is modelled by what the contract offers it: it asks
`calculateFinalizationBatches` with a budget and reports the result, and the
sanity checker's margin and `prefinalize` guard the report as in `Lido`.

`Staking` leaves out reports and deposits. They change the pool, and a submit
only uses the pool's rate.

`Accounting` has them. Its nine-step report is a chain of operators, one per
step, that read the state before the report and the results of the steps
before, in the order in which the code has them; `CanHandle` collects every
requirement on the way and `HandleOracleReport` the writes. A report is gathered
at its reference slot (`GatherReport`, translated from the report helper of
`lib/protocol`: it simulates the report without withdrawals and asks the queue
for batches, with the operators of `WithdrawalMath`) and handled by
`OracleReport`, with stakes, deposits, requests, burns and income in between.
The gates that only forbid a transaction (pauses, bunker mode, the stake limit,
roles) are left out there: the model does more than the code, so a bad step it
cannot take the code cannot take either (but `GatheredReportIsAccepted` is about
the checks of the report: a pause may still refuse it). The queue is its
requests and its shares. The fee is split between one module and the treasury,
since nothing about the pool depends on the number of modules. The limits of the
sanity checker are constants: the properties are about any limits that stay.

### Registry

In `NodeOperatorsRegistry` a signing key is the stage it has reached ("added",
"vetted", "deposited"): the code does not store it, it only stores counts and
reads a key's stage off its position. Each operation sets the stage of the keys
it is about, so that `KeysAreWhereTheirStageIs` compares the counts with the
history of every key. A packed report is a function from the operators it
names to their counts. The nonce is kept modulo 2, which is enough to see that
one transaction changes it.

### Deployment

Each script of `scripts/scratch/steps` is a sequence of instructions computed
from the state file as the script read it: transactions, writes of the file,
checks. `ScratchDeploy` carries them out. A transaction, the count of its gas in
the file and the write of what it deployed are three separate effects, as in
`lib/deploy.ts`, and the process may be killed after each and started again:
`scripts/dao-deploy.sh` resets the file and begins with the first step, on the
chain as it is. An address is the entry of the file it was made for, with the
number of the attempt, so that an address of an earlier attempt is told from one
of this. Environments are what the deployer may be given: a new chain, an ENS
and Aragon that are there already with names owned or not, a deposit contract,
a factory of seals (or one at the zero address), a preset deposit security
module, a test process that does all steps in one process, and a signer who is
not the deployer.

Of the ENS the model has the owners of the nodes, and which nodes have the names
of the package manager (`named`: apm-registry, apm-repo, apm-enssub): `newAPM`
takes these names under its node, and the registrar refuses a name that is taken.

## Runs

Every run exhausts its state space. Bounds are named constants of the modules.

| run | question | properties | bounds |
|---|---|---|---|
| `reports_and_deposits` | do the oracles, the router and the deposit security module work together? Four scenarios, of which a behaviour follows one: `reports`, `exits`, `deposits`, `consensus` | `TruthfulReportGoesThrough`, `ActiveCountIsUpToDate`, `EveryValidatorIsAskedOnce`, `ImplementsReportProcessor`, `ImplementsTwoPhaseReports`, `ModulesAreToldTheTruth`, `DepositIsVetted`, `DepositedUnderTheirCredentials` | 2 modules of 2 operators, 3 slots (2 for deposits), 2 events on the chain, 2 signatures, 2 guardians of 3 addresses, one decision of the DAO, one change of keys and one deposit by others; every list of 2 exit requests; consensus contracts that call with any argument |
| `hc_committee` | are votes counted right while members come and go, votes change and the quorum moves, and do frames stay in order when their size, the fast lane and the first epoch change? A behaviour varies the committee or the frames | `MembersConsistent`, `SupportIsNumberOfReporters`, `ProcessorHoldsTheConsensus`, `ProcessedReportHasMajority`, `ConsensusNeverRefused`, `FastLaneIsFair`, `FrameConfigKeepsTheRefSlot` | 3 addresses. Committee: quorums 1, 2 and unreachable, 2 versions and so 2 reports per frame, 2 frames: a member moved by a removal, a lost and regained consensus. Frames: a quorum of 2, frames of 1 and 2 epochs, 4 epochs, 3 members at most |
| `hc_processors` | is the consensus handed over when the processor is switched, or leaves its consensus contract and returns? | `SupportNeverUnderflows`, `SwitchKeepsTheConsensus` | 2 processors, 2 contracts, 2 members, 2 payloads; supports up to `MAX_SUPPORT` |
| `wq_core` | is the locked ether what is still to be claimed, but for rounding, does the queue implement `Withdrawals`, do split calculations of batches agree, does `prefinalize` ask for what was calculated, and is there exactly one hint, found in every range? | `LockedEtherIsToBeClaimed`, `SharesAreOfUnfinalized`, `CalculationIgnoresCallSize`, `PrefinalizeFitsCalculation`, `HintIsUniqueAndFound`, `ImplementsWithdrawals` | 3 requests, pools of two rates (22/19, 15/20) and the rate between, reports that can pay for one request or all, batches with requests on both sides of the rate; calculations at every budget at, before and behind a claim, 2 batches at most, up to 3 checkpoints |
| `wq_token` | do owners and the sets of their requests agree through transfers, approvals and claims? | `OwnersHoldTheirRequests` | 3 holders, 2 requests, pauses, bunker mode |
| `staking` | is the packed limit a token bucket? | `ImplementsTokenBucket` | limits around the width of the packed fields, 6 blocks |
| `accounting` | is ether conserved, is a rebase limited, does nobody pay for the fee or the withdrawals of others, do shares add up, and is a report that was right still accepted when it is handled, with finalized requests worth the shares burnt for them? | `SharesAreAccountedFor`, `GatheredReportIsAccepted`, `RebasesAreLimited`, `ImplementsPool` | a pool of 20, stakes of 8 between two events of a report, validators of 16 with a reward of 3 or a loss of 2, half of the rewards for fees, one request, one burn for cover or not, income of 4 in each vault, 2 reports: validators appear, rewards are held back to the second report, burns are left over, a loss is followed by a finalization |
| `nor` | are the cached maxima and sums exact, do keys keep their place, can everything offered be deposited, are penalties served, and does the registry implement `StakingModule`? | `CachesAreCurrent`, `KeysAreWhereTheirStageIs`, `DepositableCanBeObtained`, `AllocationIsMinFirst`, `PenaltyIsServed`, `ImplementsStakingModule` | 2 operators, counters up to 2, so up to 2 keys each and totals at the counters' limit; a target limit of 1, no delay and a delay of 1; reports on any set of operators; allocations for 3 buckets of any size |
| `scratch_deploy` | does a deployment that may be killed anywhere end well? | `FileIsTheDeployment`, `FinishedDeploymentIsWhole`, `DeployerKeepsNoneOfTheProtocol`, `ImplementsHandover`, `DeploymentCompletes` | all sixteen steps, 6 environments, 2 attempts; 4 token holders in batches of 3; 2 parameters of the daemon configuration |

The other three runs each check a sentence of the repository against the code
and are expected to fail:

| run | the sentence | what the code does |
|---|---|---|
| `hc_processor_switched` | losing the consensus notifies the processor (`HashConsensus.sol:32`) | a processor that was switched away from and back keeps a report the quorum has left, and may process it |
| `nor_nonce` | the nonce "MUST change its value when" the size of the ready-to-deposit data changes (`NodeOperatorsRegistry.sol:1287-1292`) | `updateRefundedValidatorsCount` can lower the refunded below the stuck validators: the operator's keys are withdrawn from deposits and the nonce stays |
| `wq_continue` | "invoke the function with returned `state` until it returns a state with `finished` flag set" (`WithdrawalQueueBase.sol:213`) | a call that uses the budget up to the last wei before the end of the queue returns a state that is not finished, and the next call rejects it (l. 221) |

Small numbers stand for large ones: a share rate has precision 1000 instead of
1e27, the packed fields are a few bits wide. What matters is on which side
each division rounds and where a width ends, and both occur within the bounds.
The constants named `MAX_...` and those commented as bounds only cut behaviours
short or choose inputs. Symmetry is used for members, payloads and accounts,
which no constant operator distinguishes, in runs without liveness. Deadlock is
checked in every run that does not end at a bound.

The four scenarios of `reports_and_deposits` share one next-state relation. They
keep the state space small: what the actors of one scenario touch, those of
another do not (the two oracles share only `BaseOracle`, where each has its own
record; deposits change keys and deposited counts, reports change exited and
stuck counts). What couples them is `ActiveCountIsUpToDate`, which is about the
counts that a deposit reads, and it is checked where reports change them. With one
decision of the DAO the run has 118 000 states. With two, the scenarios `reports`
(154 000 states) and `consensus` (5 000) have been exhausted by themselves, with the
same result; `exits` and `deposits` do not end within five minutes.

`GatheredReportIsAccepted` depends on the deviation limit of the sanity checker.
The run sets it as the comment of `_checkSimulatedShareRate` derives it (twice
the stake limit over the pool, times the largest rebase), so the run checks that
derivation with withdrawals, burns and held back rewards in place; it also
rests on the reserve for withdrawals in `getDepositableEther`, without which a
deposit leaves a gathered report unpayable. Roundings weigh more in a small pool: the
properties allow for the units that the code's divisions drop and for no more.

Limits of the results. With two processors a support count may grow without
bound over switches, hence the bound in `hc_processors`.

`LockedEtherIsToBeClaimed` and `PrefinalizeFitsCalculation` have two sides. The
locked ether may be short of the claims: by a wei for each batch with requests on
both sides of the rate, so for two requests at least; l. 262 of
`WithdrawalQueueBase` joins requests of one report on whichever side of the rate they
are. At the precision of the run it happens within a few steps. At the precision of
the code it takes amounts that the rate divides all but evenly: in a pool of
9371234567890123456789011 wei and 8123456789012345678901237 shares (a rate of
1153601823864626389298037165) a request of 828591785898003425409 wei, which is at the
rate, and one of 569525963624697721337 wei, which is above it because its shares are
floored, claim 1398117749522701146745 wei together, and a report at the same rate
locks 1398117749522701146744 for their batch. And the locked ether may exceed the
claims: with a share worth w wei by at most w + 1 wei per request, since the nominal
of a request and the worth of its floored shares differ by less than a share; the two
pools of the run have shares worth less than 2 wei, and the run finds no more than 2
wei per request. Both sides are model-checked, not proved.

### Fairness

Nothing in the contracts makes an actor act, so the models of the contracts
assume no fairness and their properties are safety properties: that a truthful
report would be accepted (`TruthfulReportGoesThrough`, `GatheredReportIsAccepted`),
that the vote completing a quorum does not revert (`ConsensusNeverRefused`), that
all depositable keys can be obtained (`DepositableCanBeObtained`).

The deployment is a program, and a program that runs goes on: `ScratchDeploy`
assumes weak fairness of `Work`, the next effect of the running step, and of
nothing else. Nobody has to start a killed deployment again, and it may be
killed at any point; only the last attempt of the run is left alone.
`DeploymentCompletes` says that this attempt ends, whatever earlier ones left on
the chain, if the chain allows a deployment at all (`Deployable`: the signer is
the deployer, the top-level domain is the deployer's or still to be made, no
other DAO has the name, what is given works). On an ENS that was there before it
also needs that no earlier attempt got past `newAPM` (step 0020, l. 31): the names
that one has left on the node cannot be taken again.

## Observations

What the models show of the code besides the three findings:

- a correction to counts fresher than the reference slot, made between the slot
  and the submission, makes the truthful report of that frame fail
  (`ExitedValidatorsCountCannotDecrease`): `TruthfulReportGoesThrough` excepts it;
- `unsafeSetExitedValidatorsCount` compares the present counts with expected
  ones, which does not notice counts that changed and changed back;
- a module that fails to drop its keys when the credentials change becomes
  `DepositsPaused`, also if it was `Stopped`;
- a module that is added after the credentials changed keeps keys for the old ones;
- a zero address as the factory of GateSeals makes step 0100 fail, though
  `docs/scratch-deploy.md:135-136` allows it;
- with a preset `daoFactory` step 0070 fails after the DAO has been made;
- the template keeps the permissions over the repository of simple DVT;
- the locked ether can be a wei short of the claims (see "Limits of the results"),
  though `_claim` speaks of dust that accumulates (`WithdrawalQueueBase.sol:475`);
- on a given ENS a deployment that was killed behind `newAPM` cannot be repeated
  with the same domain;
- the deployer stays the manager of `aragon-apm-registry` (the third argument of
  `newAPM`, step 0020) and the owner of the nodes `eth` and `owner.aragonid.eth`,
  if the deployment made these; none of the steps hands them on;
- the file gets the proxy of `app:simple-dvt` and never its implementation (step
  0070, l. 158-175), though it has those of the other applications;
- the check of the chain id in `lib/state-file.ts:158-163` never fails.

## Proofs

Each theorem holds for all values of the constants that satisfy the named
`ASSUME`s of the modules, and TLC evaluates these on every run. Each rests on
an inductive invariant that adds to the property what its induction needs.

| module | theorems |
|---|---|
| `HashConsensusProofs`, its part on `BaseOracle` | `ReportIsNotBehindProcessing`, `ProcessingAdvances`, `ProcessingIsFinal`, `BaseOracleImplementsReportProcessor` |
| `HashConsensusProofs`, on members and frames | `HashConsensusTypes`, `MembersStayConsistent`, `SupportCoversReporters`, `ConsensusIsNeverRefused`, `FrameConfigNeverTakesTheSlotBack` |
| `HashConsensusProofs`, its part on majorities | `SwitchLosesNoConsensus`; with one processor `SupportIsExact`, `ProcessorFollowsTheConsensus`, `ProcessingNeedsAMajority` |
| `HashConsensusProofs`, its part on the fast lane | `FastLaneTurnsAreFair` |
| `WithdrawalQueueProofs` | `WithdrawalQueueTypes`, `SharesOfUnfinalized`, `OwnersHoldRequests`, `HintsAreUniqueAndFound`, `QueueImplementsWithdrawals`, `CalculationCanBeSplit` |
| `ReportsAndDepositsProofs` | `ReportsComeInTwoPhases`, `NoExitIsAskedTwice`, `ActiveValidatorsAreCounted`, `NoTruthfulReportIsRefused`, `ModulesAreToldOneReport`, `RouterIsWellTyped`, `DepositsAreVetted`, `DepositsAreUnderTheirCredentials` |
| `AccountingProofs` | `AccountingTypes`, `SharesStayAccountedFor`, `SharesAlwaysAddUp`, `RebasesStayLimited`, `EtherIsConserved`, `RewardsPayTheFee` |
| `StakingProofs` | `LimitIsWithinMaximum`, `OnlyResumingEndsAPause`, `StakingImplementsTokenBucket` |
| `RegistryProofs`, with the lemmas of `AllocationProofs` | `PenaltyServed`, `CountersAreInRange`, `SummaryIsCurrent`, `KeysKeepTheirStage`, `DepositableIsObtainable`, `RegistryAllocatesMinFirst`, `RegistryIsStakingModule` |

The part of `HashConsensusProofs` on `BaseOracle` is about any set of oracles, contracts, versions, slots
and times: the pending report is never behind the processed slot, the processed
slot only grows, a report whose processing has started is not replaced or
dropped, and each oracle implements `ReportProcessor`. The inductive invariant
adds to the type that an empty report belongs to no pending slot. The refinement
proof maps every action to `Agree`, `Drop`, `Take` or a stutter.

Its second part is about committees of any size. Its invariant `HCInv` has
three strands. Time: nothing in the state - no report, vote or consensus - is of
a slot after the current reference slot, so that when the slot moves on
everything gathered is of the past; the order and the adjacency of frames are
lemmas on `FrameTime`, over division.
Members: the two lists have one length, and list and index map are inverse; a
removal, which moves the last member into the gap, keeps that by cases on who is
moved. Support: for each variant, the count is at least the number of members
whose last vote of the frame it is; the argument is on the cardinality of the
set of such members, which a vote, a removal or a new frame changes by at most
one, or empties. The inequality is what keeps decrements from reverting; it
holds with any number of processors.

The third part is about majorities, and adds `VotesInv`. Its core has the
condition that no processor is past the current slot (`AllBefore`); then the
support of a variant is exactly the number of members behind it, and the last
consensus the contract remembers is the one a quorum is behind and the processor
was sent. The quorum is always more than half of the members, and the variants
are counted exactly, so two of them never have a quorum at a time
(`OneMajority`, on cardinalities): this is why `_submitReport` may look at the
two variants a vote touches, where `_checkConsensus` looks at all. When the slot
moves on nothing of the new slot has been gathered (`HCInv`), so the
counts are exact again. With any number of processors it follows that a switch
loses no consensus. The other three theorems are about one report processor
(`OneProcessor`, the constant `Oracles` has one element), because then "the
processor in charge is not past the slot" is `AllBefore`. That condition is
needed: with two processors a switch to the one that is behind makes the
contract count votes again that were already processed, and the supports may
exceed the members (`RecordReport`, and the run `hc_processor_switched`).

The last part is about the fast lane, for committees and quorums of any size. The
members are a circle on which the lane is a window: a frame later it starts one
further on. Whether a member is in it is a question of its distance to the start
(`InWindow`), which the contract asks with a remainder and, for the list, answers
with another one. The positions of the list have the distances from zero to one less
than the width, each once (`PositionsInLane`), so the two views agree and the lane is as
wide as the quorum; and over as many frames as there are members a position has each
distance once (`TurnsOfPosition`), so each member has that many turns. Both counts
are bijections with an interval (`Numbered`). The invariants give that the members
are at the positions of their indices and that the quorum is not zero.

`WithdrawalQueueProofs` is about queues of any length, any accounts, amounts,
pools and budgets. `WQInv` relates the cumulative sums of the queue, the
checkpoints, the shares on the contract, the ether locked and the sets of the
owners. `SharesOfUnfinalized`: what a report burns is a sum over its batches,
which telescopes along the cumulative shares of the queue. `HintsAreUniqueAndFound`:
checkpoints are strictly ordered by their first request, and the binary search keeps
the checkpoint of the request in its interval. `QueueImplementsWithdrawals` maps
a request to its state and value: an unfinalized one has the amount asked for,
a finalized one the value of the checkpoint that covers it, which no later
checkpoint changes; each step of the queue finalizes a prefix, claims one request
or is a stutter. `CalculationCanBeSplit`: the loop of the calculation is a fold
over requests, and folding over a part and then over the rest is folding over all.
Where the code refuses to continue, because no wei is left of the budget, the next
request would have stopped the fold (it is worth a wei, `RequestHasWorth`), so the
batches are those of the single call already.
One assumption is named for the proofs, `RequestIsWorthAWei`: the smallest request
the contract takes, 100 wei, is worth at least one wei at every rate the pool
may have later. If the pool lost 99% of its value, a report that finalizes such a
request alone would prefinalize to no ether but some shares; `Lido` would then
lock no ether and finalize nothing (`Lido.sol:851`), and still ask the Burner to
burn the shares (`Lido.sol:1213`).

`DataLemmas` has the induction that the library's theorems do not give: by the
least counterexample, over sets of natural numbers. From it follow that a fold
over a finite set satisfies its recursion, that sums split, telescope, change by
the difference of a summand and are monotone, that a fold over a sequence
can be cut in two, and that a fold has a trace: a sequence of the values after
each element, each got from the one before, on which the same induction can go
(`FoldHasTrace`).

`ReportsAndDepositsProofs` shows first that reports implement `TwoPhaseReports` in
every scenario. The invariant is the order of three slots - of the extra data, of
the last processing and of the pending report - and that extra data whose
slot is the processing slot was started by the main data of the same report.

The exit bus goes through its list with a fold that keeps the last index of the
operator at hand in memory. `NoExitIsAskedTwice` says of lists of any length that
this agrees with writing every index at once: along the trace of the fold, what is
stored when the list ends here (`Stored`) gets one more index with every request,
always above the one it replaces. The invariant `ExitInv` says that nobody with an
index above the stored one of its operator has been asked, that the validator with
the stored index has, and that the total is the number of requests.

The other theorems rest on one invariant of all scenarios, `CountingInv`: the counts
in order (`CountsInv`), the invariant of reports (`ReportsInv`) in theirs and that
of deposits (`DepositsInv`) in theirs; in the other two the router does not change.

- `CountsInv` orders four counts of exits that live in different places: what the
  last truthful report had by module, what the router stores, what the chain has,
  and what was deposited; and each operator's counts in its module against the
  chain's. `ActiveValidatorsAreCounted` follows with arithmetic on sums over the
  operators (a larger of two counts, a difference, a maximum) and on shares of fees.
- `ReportsInv` is about the report on its way. Times: a report that can still be
  processed is for the last reference slot, with the gathered payload or a malformed
  one (`TimesInv`). Totals: the gathered totals are true, ascending, and name every
  module that the router knows too few exits of (`TotalsInv`). Extra data: as long
  as it is neither delivered nor overtaken by a correction, the gathered items
  are exactly what the modules are wrong about, in the order the oracle asks for
  (`ExtraDataInv`, `Describe`). That the items a committee gathers are like this is
  proved of the definitions of the daemons (`Items`, from an ascending enumeration
  of a finite set).
- What processing the items does is read off the traces of two folds, one over the
  items of the report and one over the operators of an item. After k items a count
  is the one the module had or the true one, and the true one for what the items
  have named (`Processed`); no item is refused, because exits never fall, no count
  passes the deposited one and the key of each item is above the last.
  `NoTruthfulReportIsRefused` is the second half of this; `ModulesAreToldOneReport`
  the first, at the end of the list, where all that was wrong has been named.

`DepositsAreVetted`: while the nonce a signature names is the module's nonce, the
keys of the module are those that were signed for, but for keys of operators that
lost all of theirs (`Pinned`). Every other change of the keys changes the nonce; a
refunded count that is lowered below the stuck one takes the keys of its operator
and does not (`WithRefunded`), which is the finding of `nor_nonce` seen from the
guardians' side: a deposit that was signed for can go to keys that come later
among those they saw, and never to keys they did not see. What remains after
several such losses is what remains without all of these operators (`GoneTwice`,
`KeysRemain`, the latter read off the trace of a fold). The root that a signature
names excludes deposits by anybody in between; signers in ascending order of
addresses are different, so a quorum of signatures is a quorum of guardians; and a
removed guardian has no index, though the last one takes its place in the list.
`DepositsAreUnderTheirCredentials`: the keys of each active module are for the
present credentials, since a change of them empties a module or pauses it. Reports
deposit nothing (`ReportsDepositNothing`); a report that penalizes an operator takes
its keys under a new nonce, and is of another scenario than the deposits.

These theorems are about any scenarios, modules, operators, credentials, guardians,
quorums, slots and numbers of events that satisfy the assumptions: `Operators` and
the ids of exit requests are finite sets of numbers; a scenario starts before
anybody has exited, with contracts and guardians that are different and fees that
are parts of the rewards (`ScenariosAssumption`); no list of items has the hash
zero (`ListsHaveHashes`), which is how the code tells an empty report; and a
malformed report is one whose extra data cannot be delivered (`CommitteesAssumption`).
The last is the model's, not the contracts': a quorum that agrees on false counts
can make the router believe them.

`AccountingProofs` is about any amounts, fees, limits, pools and numbers of reports.
Its invariant `AccInv` has the types, that shares add up (a sum over the accounts),
that the Burner has what is requested of it, that the first holder's shares stay -
so that there are always shares to divide by - and that the cumulative sums of the
queue never fall. The steps of the report are followed in the order of the code. The
limiter (`SmoothenedFacts`): after each of its operations its ether is what the pool
would have, bounded by the maximum; `AllowedBurnIsLimited` is the arithmetic of
`getSharesToBurnLimit`, where two divisions must not let the last share pass; the two
give `RebasesStayLimited`, for every limit, with the one unit of precision that the
property allows. The unlimited rebase, which is also what an empty pool gets, is the
exception the property names. The fee (`FeeIsPaidByRewards`): the shares minted are
worth no more than the rewards at the price before, since the fee is less than the
rewards. The Burner: shares turned into ether and back are no more than they were
(`RoundTrip`), so the recovery of the excess leaves the requested ones. The queue:
what a report burns telescopes over its batches, as in `WithdrawalQueueProofs`.
`SharesStayAccountedFor` has a condition, `[]FinalizationLocksEther`, for its third part
only (`SharesAlwaysAddUp` has none): the queue finalizes nothing if the ether is
zero, and the shares are burnt in any case. It is the same corner as
`RequestIsWorthAWei` above; here the rate comes from the simulation of the report, and the
run `accounting` checks that the condition holds, as a part of
`GatheredReportIsAccepted`. `EtherIsConserved` and
`RewardsPayTheFee` are the parts of `ImplementsPool` that hold for all numbers. The rest,
that a finalization does not take from the other holders, depends on how far the
simulated rate may be from the actual one, a limit of the sanity checker, and is
model-checked.

`StakingProofs` proves for any widths, limits and amounts that the stored limit
stays within the maximum, that only resumptions end a pause and that staking
implements `TokenBucket`. The invariant needed is that the block of the
last change is not in the future, so that the limit is projected forwards, and
that the pool is not empty. The arithmetic facts on the projection (it starts
at the stored limit and grows by one increment per block up to the maximum) are
lemmas.

`AllocationProofs` shows that `MinFirstAllocation` is min-first, for any number of
buckets, capacities and size (`AllocateIsMinFirst`). The rounds of the library give
the first of the least filled buckets a share of what is left, up to the next higher
level, so between two rounds the buckets are not level: that one may be ahead of
the others by the whole share. What holds in between (`Partial`) is that filling all
buckets with space up to one below any bucket that got something takes no more than
what is left. A round keeps that, because the share is the rest divided by the
number of the least filled buckets, rounded up; and when nothing is left, nothing
needs to be filled, which is the levelness asked for. Each round gives something,
so `size` rounds are enough.

`RegistryProofs` is about any number of operators and keys, any counts, targets and
delays. That a penalty is served needs little: a penalty is cleared exactly if the
refunded cover the stuck validators and its end is zero, because the clock is never
zero; each operation on one operator ends no penalty, or ends one whose delay is
over ("Serves"), and those that are not about penalties leave its three fields
alone. The other theorems rest on `RegistryInv`: every operator is `Good` - its
counters in order, its keys in the stage that the counters say, its maximum current,
and nothing to deposit unless it is active - and the summary is the sum of the
operators (`Tallied`). Each operation is followed in three parts. What it makes of an
operator is good again: for the removal of keys this is an invariant of its rounds,
which move the last key into the gap (`Closed`); for a maximum that is not
recalculated it is that its inputs did not change. What it adds to the summary is
what it adds to the operators, for one operator or for a sum over many
(`OneIsTallied`, `ManyAreTallied`). And what the summary does is a step of
`StakingModule` (`RouterStep`). For a deposit the three meet: the candidates are the
operators that wait for deposits, each once (`CandidatesFacts`, on the rounds of the
fold); they are active, so the arrays hold them; the space in them is what the
summary calls depositable; so an allocation of that many or fewer gives exactly as
many as asked for, and what each operator gets is within its maximum. That an
operator without activity has nothing to deposit is not in the properties, and without
it the arrays, sized by the active operators, might be too short.

Only model-checked: liveness and ENABLED; in `WithdrawalQueue` the bounds on
ether (`LockedEtherIsToBeClaimed`, `PrefinalizeFitsCalculation`), whose constants
are about the rates of the run (see "Limits of the results"); in `Accounting` what
depends on the deviation allowed to the simulated rate (`GatheredReportIsAccepted`,
and the price after a finalization in `ImplementsPool`); all of `ScratchDeploy`.

## Plan

1. done: `FrameTime`, `BaseOracle`, `ReportProcessor`, `HashConsensus`
2. done: `WithdrawalMath`, `PausableUntil`, `Withdrawals`, `WithdrawalQueue`
3. done: `StakeLimit`, `TokenBucket`, `Staking`
4. done: `TokenRebaseLimiter`, `ReportSanityChecker`, `Accounting`, `Pool`; left:
   allowances of stETH, the totals burnt, the setters of the limits
5. done: `NodeOperatorsRegistry`, `MinFirstAllocation`, `StakingModule`; left: the
   distribution of rewards among operators
6. done: `StakingRouter`, `AccountingOracle`, `ValidatorsExitBusOracle`,
   `DepositSecurityModule`, `ReportsAndDeposits`
7. done: `StateFile`, `DeploySteps`, `ScratchDeploy`, `AdminHandover`

Theorems that would come next: the deployment's implementation of
`AdminHandover`, the price after a finalization.

## Not modelled

With reasons in `PROJECT.json`, component by component:

- signatures, permits and hashes; the deposit contract's Merkle tree; token
  metadata and event logs: cryptography and strings that no property here is about;
- the upgrade from earlier versions (`finalizeUpgrade_v2`, the migration from the
  legacy oracle): one-off transactions of a past state;
- `unsafeChangeDepositedValidators`: an escape hatch that changes the accounts at
  will;
- `WstETH`, `LegacyOracle`, the proxy of the withdrawal vault: a transfer and a
  mint, a stored copy of a report, a flag;
- the permissions between the Aragon applications of the DAO template;
- the provisioning of test chains, discovery of addresses, verification of
  sources: sequential calls without state of their own.

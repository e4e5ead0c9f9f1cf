------------------------- MODULE DepositSecurityModule -------------------------
(***************************************************************************)
(* DepositSecurityModule: a deposit needs the signatures of a quorum of    *)
(* guardians on what they saw, a block with the deposit root and the nonce *)
(* of the module; one guardian is enough to pause the deposits of a        *)
(* module.                                                                 *)
(*                                                                         *)
(* Guardians are numbers, as addresses are compared.  A signature is kept  *)
(* in "attested" or "pauseIntents" from when it is given: anybody may use  *)
(* it later.  "seen" is the end of the last block, which is what guardians *)
(* look at.  The clock counts blocks here.  Of Lido the module has the     *)
(* ether to deposit, in units of a deposit, and whether it may.            *)
(***************************************************************************)
EXTENDS StakingRouter

CONSTANTS
  Addresses,      \* who may be a guardian
  BLOCK_HASHES    \* blocks whose hash a contract can read (256)

ASSUME DepositSecurityAssumption ==
  /\ IsFiniteSet(Addresses)
  /\ Addresses \subseteq Nat \ {0}
  /\ BLOCK_HASHES \in Nat

VARIABLES
  settings,                \* maxDepositsPerBlock, minDepositBlockDistance, ...
  owner,
  quorum,
  guardians,
  guardianIndicesOneBased,
  depositRoot,             \* external: deposits made so far, by anybody
  depositable,             \* Lido: getDepositableEther
  canDeposit,              \* Lido: canDeposit
  seen,                    \* the state at the end of the last block
  attested,                \* signatures for deposits
  pauseIntents             \* signatures for pauses

guardianVars == <<quorum, guardians, guardianIndicesOneBased>>
lidoVars == <<depositRoot, depositable, canDeposit>>
signatureVars == <<seen, attested, pauseIntents>>
securityVars == <<settings, owner, guardianVars, lidoVars, signatureVars>>

IsGuardian(g) == guardianIndicesOneBased[g] > 0

(***************************************************************************)
(* What the end of a block looks like to a guardian.                       *)
(***************************************************************************)
Look(block) ==
  [block |-> block, depositRoot |-> depositRoot,
   ready |-> [c \in Contracts |-> contracts[c].ready],
   nonce |-> [c \in Contracts |-> contracts[c].nonce]]

------------------------------------------------------------------------------

(***************************************************************************)
(* The guardians and the quorum.  A quorum above their number is allowed.  *)
(***************************************************************************)
AddGuardian(g, newQuorum) ==
  /\ ~IsGuardian(g)
  /\ guardians' = Append(guardians, g)
  /\ guardianIndicesOneBased' = [guardianIndicesOneBased EXCEPT ![g] = Len(guardians')]
  /\ quorum' = newQuorum

RemoveGuardian(g, newQuorum) ==
  LET index == guardianIndicesOneBased[g]
      last  == Last(guardians)
  IN  /\ IsGuardian(g)
      /\ guardians' = Front([guardians EXCEPT ![index] = last])
      /\ guardianIndicesOneBased' = [guardianIndicesOneBased EXCEPT ![last] = index, ![g] = 0]
      /\ quorum' = newQuorum

SetGuardianQuorum(newQuorum) ==
  /\ quorum' = newQuorum
  /\ UNCHANGED <<guardians, guardianIndicesOneBased>>

(***************************************************************************)
(* setMaxDeposits, setMinDepositBlockDistance,                             *)
(* setPauseIntentValidityPeriodBlocks: only the first may be zero.         *)
(***************************************************************************)
SetSetting(name, value) ==
  /\ name # "maxDepositsPerBlock" => value # 0
  /\ settings' = [settings EXCEPT ![name] = value]

SetOwner(newOwner) == owner' = newOwner

------------------------------------------------------------------------------

(***************************************************************************)
(* A guardian signs what it saw at the end of the last block.              *)
(***************************************************************************)
Attest(g, id) ==
  LET c == stakingModules[id].contract
  IN  attested' = attested \union
        {[guardian |-> g, block |-> seen.block, depositRoot |-> seen.depositRoot,
          stakingModuleId |-> id, nonce |-> seen.nonce[c], ready |-> seen.ready[c]]}

SignPause(g, id) ==
  pauseIntents' = pauseIntents \union
    {[guardian |-> g, block |-> seen.block, stakingModuleId |-> id]}

(***************************************************************************)
(* _verifySignatures: every signer is a guardian who signed this message,  *)
(* and no signer is counted twice.  A key signed over something else       *)
(* recovers to no guardian.                                                *)
(***************************************************************************)
Signed(signer, message) ==
  \E a \in attested :
    /\ a.guardian = signer
    /\ a.block = message.block
    /\ a.depositRoot = message.depositRoot
    /\ a.stakingModuleId = message.stakingModuleId
    /\ a.nonce = message.nonce

VerifyUnsortedSignatures(message, signers) ==   \* mutant: a signer may be repeated
  \A i \in DOMAIN signers : IsGuardian(signers[i]) /\ Signed(signers[i], message)

VerifySignatures(message, signers) ==
  /\ \A i \in DOMAIN signers : IsGuardian(signers[i]) /\ Signed(signers[i], message)
  /\ \A i \in 1..Len(signers) - 1 : signers[i] < signers[i + 1]

(***************************************************************************)
(* Lido.deposit: as many as allowed, as the router allocates to the module *)
(* of the depositable ether; a negative number of deposits would revert.   *)
(***************************************************************************)
LidoDeposit(maxDepositsCount, id, block) ==
  LET count == Min({maxDepositsCount, MaxDepositsCount(id, depositable)})
  IN  /\ canDeposit
      /\ MaxDepositsCount(id, depositable) \in Nat
      /\ depositable' = depositable - count
      /\ depositRoot' = depositRoot + count
      /\ RouterDeposit(id, count, block)

DepositBufferedEther(message, signers, block) ==
  LET id == message.stakingModuleId
  IN  /\ quorum # 0 /\ Len(signers) >= quorum
      /\ message.depositRoot = depositRoot
      /\ stakingModules[id].status = "Active"
      /\ block - stakingModules[id].lastDepositBlock >= settings.minDepositBlockDistance
      /\ message.block < block /\ block - message.block <= BLOCK_HASHES
      /\ message.nonce = contracts[stakingModules[id].contract].nonce
      /\ VerifySignatures(message, signers)
      /\ LidoDeposit(settings.maxDepositsPerBlock, id, block)

(***************************************************************************)
(* pauseDeposits, called by a guardian with some block number, or by       *)
(* anybody with a signature a guardian gave.                               *)
(***************************************************************************)
PauseDeposits(g, blockNumber, id, block) ==
  /\ IsGuardian(g)
  /\ blockNumber <= block
  /\ block - blockNumber <= settings.pauseIntentValidityPeriodBlocks
  /\ PauseStakingModule(id)

UnpauseDeposits(id) == ResumeStakingModule(id)

------------------------------------------------------------------------------

(***************************************************************************)
(* What is left of the keys "seen" when those of some operators are gone:  *)
(* all the others, in the order they had.                                  *)
(***************************************************************************)
Remaining(left, seenKeys, gone) ==
  \E at \in [DOMAIN left -> DOMAIN seenKeys] :
    /\ \A i \in DOMAIN left : left[i] = seenKeys[at[i]]
    /\ \A i, j \in DOMAIN left : i < j => at[i] < at[j]
    /\ \A k \in DOMAIN seenKeys : seenKeys[k][1] \notin gone <=> \E i \in DOMAIN left : at[i] = k

(***************************************************************************)
(* Whatever changes between the signatures and the deposit, the keys that  *)
(* are deposited come from keys that a quorum of those who are guardians   *)
(* now have seen ready, with no deposit by anybody in between: the next of *)
(* these, but for keys of operators all of whose keys were taken back      *)
(* (depositBufferedEther).  They are not always the very next ones that    *)
(* the guardians saw: lowering the refunded validators of an operator      *)
(* penalizes it without a new nonce, and the deposit that was signed for   *)
(* goes on to the keys of others.                                          *)
(***************************************************************************)
Vetted(id) ==
  LET c == stakingModules[id].contract
      vetting == {g \in ToSet(guardians) : \E a \in attested :
                    /\ a.guardian = g
                    /\ a.stakingModuleId = id
                    /\ a.depositRoot = depositRoot
                    /\ \E gone \in SUBSET Operators : Remaining(contracts[c].ready, a.ready, gone)}
  IN  quorum # 0 /\ Cardinality(vetting) >= quorum

DepositsTo(id) ==
  contracts'[stakingModules[id].contract].deposited # contracts[stakingModules[id].contract].deposited

DepositIsVetted ==
  [][\A id \in DOMAIN stakingModules : DepositsTo(id) => Vetted(id)]_<<routerVars, securityVars>>

(***************************************************************************)
(* Keys are deposited only with the withdrawal credentials they were       *)
(* signed for, also when a module failed to drop its keys                  *)
(* (setWithdrawalCredentials); the deposit contract would take the ether   *)
(* and create no validator.                                                *)
(***************************************************************************)
DepositedKeys(m, after) == SubSeq(m.ready, 1, Len(m.ready) - Len(after.ready))

DepositedUnderTheirCredentials ==
  [][\A id \in DOMAIN stakingModules :
       LET c == stakingModules[id].contract
           keys == DepositedKeys(contracts[c], contracts'[c])
       IN  DepositsTo(id) => \A i \in DOMAIN keys : keys[i][2] = withdrawalCredentials
    ]_<<routerVars, securityVars>>

==============================================================================

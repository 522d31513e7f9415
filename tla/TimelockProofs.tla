--------------------------- MODULE TimelockProofs ---------------------------
(***************************************************************************)
(* Why an upgrade takes effect only on notice, for every contract that has *)
(* the timelock: the lemmas the contracts' own proofs cite, one per kind   *)
(* of step.                                                                *)
(***************************************************************************)
EXTENDS Timelock, TLAPS

\* What is pending is the last announcement, and no older than the last change:
\* executing a proposal consumes it, so the next must be made afterwards.
PendingSince(proposal, announcement, changed_at) ==
    proposal # NoProposal =>
      /\ proposal = announcement
      /\ proposal.at \in 0..now
      /\ changed_at # NoTime => proposal.at >= changed_at

UpgradeInv ==
    /\ now \in Nat
    /\ wasm = [c \in Upgradable |-> wasm[c]]
    /\ announced = [c \in Upgradable |-> announced[c]]
    /\ upgrades \in [Upgradable -> Nat]
    /\ upgraded_at \in [Upgradable -> Timestamp]
    /\ upgrade_proposal \in [Upgradable -> ProposalOf(Hashes)]
    /\ \A c \in Upgradable :
          /\ upgraded_at[c] <= now
          /\ PendingSince(upgrade_proposal[c], announced[c], upgraded_at[c])

\* No proposal is pending when the contracts are initialized.
LEMMA UpgradeInitInv ==
  ASSUME now \in Nat, TimelockInit
  PROVE  UpgradeInv
  BY DEF TimelockInit, UpgradeInv, PendingSince, NoProposal, ProposalOf, Timestamp, NoTime

\* A step that leaves the timelock alone, whether or not the clock moves on.
LEMMA UpgradeKept ==
  ASSUME UpgradeInv, now' \in Nat, now' >= now, UNCHANGED upgradeVars
  PROVE  UpgradeInv'
  <1>1. \A c \in Upgradable : upgraded_at[c] \in Int /\ upgraded_at[c] <= now'
    BY DEF UpgradeInv, Timestamp, NoTime
  <1>2. \A c \in Upgradable : PendingSince(upgrade_proposal[c], announced[c], upgraded_at[c])'
    BY DEF UpgradeInv, PendingSince, upgradeVars
  <1> QED  BY <1>1, <1>2 DEF UpgradeInv, upgradeVars

\* Proposing dates the proposal now.
LEMMA ProposeUpgradeInv ==
  ASSUME UpgradeInv, UNCHANGED now, NEW c \in Upgradable, NEW hash \in Hashes,
         propose_upgrade(c, hash)
  PROVE  UpgradeInv'
  <1> DEFINE proposal == [value |-> hash, at |-> now]
  <1>1. proposal \in ProposalOf(Hashes) /\ proposal.at = now
    BY DEF UpgradeInv, ProposalOf, Timestamp
  <1> HIDE DEF proposal
  <1>2. /\ upgrade_proposal' = [upgrade_proposal EXCEPT ![c] = proposal]
        /\ announced' = [announced EXCEPT ![c] = proposal]
    BY DEF UpgradeInv, propose_upgrade, NewProposal, proposal
  <1>3. \A k \in Upgradable : PendingSince(upgrade_proposal[k], announced[k], upgraded_at[k])'
    BY <1>1, <1>2 DEF UpgradeInv, PendingSince, propose_upgrade, Timestamp, NoTime
  <1>4. announced' = [k \in Upgradable |-> announced'[k]]
    BY <1>2 DEF UpgradeInv
  <1> QED  BY <1>1, <1>2, <1>3, <1>4 DEF UpgradeInv, propose_upgrade

\* Executing consumes the proposal.
LEMMA ExecuteUpgradeInv ==
  ASSUME UpgradeInv, UNCHANGED now, NEW c \in Upgradable, execute_upgrade(c)
  PROVE  UpgradeInv'
  <1>1. NoProposal \in ProposalOf(Hashes)
    BY DEF NoProposal, ProposalOf, Timestamp
  <1>2. upgrade_proposal' = [upgrade_proposal EXCEPT ![c] = NoProposal]
    BY DEF UpgradeInv, execute_upgrade, Consumed
  <1>3. /\ upgrades' \in [Upgradable -> Nat]
        /\ upgraded_at' \in [Upgradable -> Timestamp]
        /\ \A k \in Upgradable : upgraded_at'[k] \in {upgraded_at[k], now}
    BY DEF UpgradeInv, execute_upgrade, Timestamp
  <1>4. ASSUME NEW k \in Upgradable PROVE upgraded_at'[k] <= now'
    BY <1>3 DEF UpgradeInv, Timestamp, NoTime
  <1>5. ASSUME NEW k \in Upgradable
        PROVE  PendingSince(upgrade_proposal[k], announced[k], upgraded_at[k])'
    <2>1. CASE k = c
      BY <1>2, <2>1 DEF UpgradeInv, PendingSince
    <2>2. CASE k # c
      BY <1>2, <2>2 DEF UpgradeInv, PendingSince, execute_upgrade
    <2> QED  BY <2>1, <2>2
  <1>6. /\ wasm' = [k \in Upgradable |-> wasm'[k]]
        /\ announced' = [k \in Upgradable |-> announced'[k]]
    BY DEF UpgradeInv, execute_upgrade
  <1> QED  BY <1>1, <1>2, <1>3, <1>4, <1>5, <1>6 DEF UpgradeInv

\* Both calls of the timelock.
LEMMA UpgradeStepInv ==
  ASSUME UpgradeInv, UNCHANGED now, NEW c \in Upgradable, Upgrade(c)
  PROVE  UpgradeInv'
  BY ProposeUpgradeInv, ExecuteUpgradeInv DEF Upgrade

\* What UpgradesAnnounced says of one step.
StepAnnounced ==
    \A c \in Upgradable : upgrades'[c] # upgrades[c] =>
        OnNotice(wasm'[c], announced[c], upgraded_at[c])

\* A pending proposal that has stood for the whole delay is a change on notice.
LEMMA ElapsedOnNotice ==
  ASSUME NEW proposal, NEW announcement, NEW changed_at,
         PendingSince(proposal, announcement, changed_at), Elapsed(proposal)
  PROVE  OnNotice(proposal.value, announcement, changed_at)
  BY DEF PendingSince, Elapsed, OnNotice

\* A step that changes the code executes the last announcement, on notice.
LEMMA UpgradeStepAnnounced ==
  ASSUME UpgradeInv, NEW c \in Upgradable, Upgrade(c)
  PROVE  StepAnnounced
  <1> SUFFICES ASSUME NEW k \in Upgradable, upgrades'[k] # upgrades[k]
               PROVE  OnNotice(wasm'[k], announced[k], upgraded_at[k])
    BY DEF StepAnnounced
  <1>1. execute_upgrade(c)
    BY DEF Upgrade, propose_upgrade
  <1>2. k = c
    BY <1>1 DEF execute_upgrade, UpgradeInv
  <1>3. /\ PendingSince(upgrade_proposal[k], announced[k], upgraded_at[k])
        /\ Elapsed(upgrade_proposal[k])
        /\ wasm'[k] = upgrade_proposal[k].value
    BY <1>1, <1>2 DEF execute_upgrade, UpgradeInv
  <1> QED  BY <1>3, ElapsedOnNotice

\* A step that leaves the timelock alone changes no code.
LEMMA UnchangedAnnounced ==
  ASSUME UNCHANGED upgradeVars
  PROVE  StepAnnounced
  BY DEF StepAnnounced, upgradeVars
=============================================================================

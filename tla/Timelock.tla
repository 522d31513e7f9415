------------------------------ MODULE Timelock ------------------------------
(***************************************************************************)
(* The upgrade timelock that six contracts have a copy of: a proposal      *)
(* replaces the pending one, and takes effect no sooner than               *)
(* UPGRADE_TIMELOCK_DELAY later.  Both calls are admin only; three of the  *)
(* contracts also audit them.  The new code is assumed to keep the         *)
(* behaviour modelled here.                                                *)
(***************************************************************************)
EXTENDS KoraShared

CONSTANTS
    Upgradable,              \* the contracts whose code may be replaced
    UPGRADE_TIMELOCK_DELAY,  \* 86_400 seconds in the code
    Hashes,                  \* code the admin may propose
    InitialHash              \* the code the contracts were deployed with

ASSUME TimelockAssumption == UPGRADE_TIMELOCK_DELAY \in Nat

NoProposal == [value |-> -1, at |-> NoTime]
ProposalOf(V) == [value: V \cup {-1}, at: Timestamp]

VARIABLES
    wasm,              \* each contract's code
    upgrade_proposal,  \* UpgradeProposal: (wasm_hash, proposed_at)
    announced,         \* ghost: the last propose_upgrade call, executed or not
    upgrades,          \* ghost: how many upgrades were executed
    upgraded_at        \* ghost: when the last one was

upgradeVars == <<wasm, upgrade_proposal, announced, upgrades, upgraded_at>>

TimelockInit ==
    /\ wasm = [c \in Upgradable |-> InitialHash]
    /\ upgrade_proposal = [c \in Upgradable |-> NoProposal]
    /\ announced = [c \in Upgradable |-> NoProposal]
    /\ upgrades = [c \in Upgradable |-> 0]
    /\ upgraded_at = [c \in Upgradable |-> NoTime]

MutElapsed(proposal) == proposal # NoProposal

\* A proposal that has stood for the whole delay.
Elapsed(proposal) ==
    /\ proposal # NoProposal
    /\ now >= proposal.at + UPGRADE_TIMELOCK_DELAY

MutKeepsTime(pending, value) ==
    [value |-> value, at |-> IF pending = NoProposal THEN now ELSE pending.at]

\* A proposal replaces the pending one, and its delay starts again.
NewProposal(pending, value) == [value |-> value, at |-> now]

propose_upgrade(c, hash) ==
    /\ upgrade_proposal' = [upgrade_proposal EXCEPT ![c] = NewProposal(@, hash)]
    /\ announced' = [announced EXCEPT ![c] = [value |-> hash, at |-> now]]
    /\ UNCHANGED <<wasm, upgrades, upgraded_at>>

MutKeepProposal(proposal) == proposal

\* Executing a proposal consumes it.
Consumed(proposal) == NoProposal

execute_upgrade(c) ==
    /\ Elapsed(upgrade_proposal[c])
    /\ wasm' = [wasm EXCEPT ![c] = upgrade_proposal[c].value]
    /\ upgrade_proposal' = [upgrade_proposal EXCEPT ![c] = Consumed(@)]
    /\ upgrades' = [upgrades EXCEPT ![c] = @ + 1]
    /\ upgraded_at' = [upgraded_at EXCEPT ![c] = now]
    /\ UNCHANGED announced

Upgrade(c) == (\E hash \in Hashes : propose_upgrade(c, hash)) \/ execute_upgrade(c)

-----------------------------------------------------------------------------
\* A change takes effect with the value of the last announcement, a whole delay
\* after that announcement, and no announcement takes effect twice.
OnNotice(value, announcement, changed_at) ==
    /\ announcement # NoProposal
    /\ value = announcement.value
    /\ now >= announcement.at + UPGRADE_TIMELOCK_DELAY
    /\ changed_at # NoTime => announcement.at >= changed_at

\* However often the admin proposes, replaces a pending proposal and retries
\* execute_upgrade, the code that comes into force is the one proposed last, no
\* sooner than a whole delay after that very proposal, and once per proposal.
UpgradesAnnounced ==
    [][\A c \in Upgradable : upgrades'[c] # upgrades[c] =>
         OnNotice(wasm'[c], announced[c], upgraded_at[c])]_upgradeVars
=============================================================================

---------------------------- MODULE RiskRegistry ----------------------------
(***************************************************************************)
(* The risk registry: staked verifiers, the SME profiles they register and *)
(* score, defaults that slash the registering verifier's stake, and debtor *)
(* scores with a cooldown per verifier and debtor.                         *)
(***************************************************************************)
EXTENDS AuditLog, Timelock, Functions

CONSTANTS
    RegistryAdmins,             \* addresses that may hold the admin's place
    FirstAdmin,                 \* the admin the contract is initialized with
    Verifiers,                  \* addresses the admin may add as verifiers
    Profiles,                   \* SMEs
    Debtors,                    \* debtor hashes of the exact length
    RiskScores,                 \* scores a verifier may ask for
    Limits,                     \* credit limits a verifier may ask for
    Stakes,                     \* stakes a verifier may bring
    MinimumStake,               \* fixed when the contract is initialized
    SlashPercentages,           \* basis points it may be initialized with
    MIN_SCORE_UPDATE_INTERVAL,  \* 3_600 seconds in the code
    MaxCount,                   \* bound: invoices and defaults of a profile
    MaxHeld                     \* bound: staking tokens in the contract

ASSUME RegistryAssumption ==
    /\ "risk_registry" \in Upgradable
    /\ FirstAdmin \in RegistryAdmins
    /\ IsFiniteSet(Verifiers)
    /\ RiskScores \subseteq Nat
    /\ Limits \subseteq Int
    /\ Stakes \subseteq Nat
    /\ MinimumStake \in Int
    /\ SlashPercentages \subseteq Nat
    /\ MIN_SCORE_UPDATE_INTERVAL \in Nat
    /\ MaxCount \in Nat
    /\ MaxHeld \in Nat

Missing == -1
InvoiceNftAddr == "invoice_nft"
NoVerifier == ""

VARIABLES
    slash_percentage, \* SlashPercentage, which initialize does not check
    registry_admin,   \* Admin
    is_verifier,      \* Verifier(address)
    stake,            \* VerifierStake(address), 0 when there is no entry
    reputation,       \* VerifierReputation(address), Missing when there is none
    held,             \* the contract's balance of the staking token
    slashed,          \* ghost: what slashing took from the stakes in all
    profile,          \* SmeProfile(address)
    debtor_score,     \* DebtorScore(hash)
    last_update,      \* DebtorScoreLastUpdate(verifier, hash)
    score_updates     \* ghost: updates of a debtor's score by a verifier

verifierVars == <<slash_percentage, is_verifier, stake, reputation, held, slashed>>
debtorVars == <<debtor_score, last_update, score_updates>>
registryVars ==
    <<now, auditVars, upgradeVars, registry_admin, verifierVars, profile, debtorVars>>

NoProfile ==
    [exists |-> FALSE, verifier |-> NoVerifier, risk_score |-> 0, total_invoices |-> 0,
     defaults |-> 0, compliance_attested |-> FALSE, credit_limit |-> 0]

RegistryInit ==
    /\ AuditInit
    /\ TimelockInit
    /\ slash_percentage \in SlashPercentages
    /\ registry_admin = FirstAdmin
    /\ is_verifier = [v \in Verifiers |-> FALSE]
    /\ stake = [v \in Verifiers |-> 0]
    /\ reputation = [v \in Verifiers |-> Missing]
    /\ held = 0
    /\ slashed = 0
    /\ profile = [s \in Profiles |-> NoProfile]
    /\ debtor_score = [d \in Debtors |-> Missing]
    /\ last_update = [v \in Verifiers |-> [d \in Debtors |-> Missing]]
    /\ score_updates = [v \in Verifiers |-> [d \in Debtors |-> 0]]

-----------------------------------------------------------------------------
(* The admin.                                                               *)

require_admin(caller) == caller = registry_admin

transfer_admin(caller, new_admin) ==
    /\ require_admin(caller)
    /\ registry_admin' = new_admin
    /\ append_audit_entry
    /\ UNCHANGED <<verifierVars, profile>>

\* An address that is a verifier already is added again: its new stake comes
\* in and replaces the recorded one.
add_verifier(caller, v, amount) ==
    /\ require_admin(caller)
    /\ amount >= MinimumStake
    /\ held + amount <= MaxHeld
    /\ held' = held + amount
    /\ is_verifier' = [is_verifier EXCEPT ![v] = TRUE]
    /\ stake' = [stake EXCEPT ![v] = amount]
    /\ reputation' = [reputation EXCEPT ![v] = 100]
    /\ append_audit_entry
    /\ UNCHANGED <<slash_percentage, registry_admin, slashed, profile>>

MutStakeKept(v) == UNCHANGED stake

DropStake(v) == stake' = [stake EXCEPT ![v] = 0]

\* What a verifier gets back of a stake.
Returnable(amount) == IF amount > 0 THEN amount ELSE 0

remove_verifier(caller, v) ==
    /\ require_admin(caller)
    /\ is_verifier[v]
    /\ held >= Returnable(stake[v])
    /\ held' = held - Returnable(stake[v])
    /\ is_verifier' = [is_verifier EXCEPT ![v] = FALSE]
    /\ DropStake(v)
    /\ reputation' = [reputation EXCEPT ![v] = Missing]
    /\ append_audit_entry
    /\ UNCHANGED <<slash_percentage, registry_admin, slashed, profile>>

\* A percentage above 10_000 takes more than there is: the stake on record turns
\* negative, and is not slashed again.
SlashOf(v) ==
    IF stake[v] > 0 THEN (stake[v] * slash_percentage) \div 10000 ELSE 0

MutReputationAfter(v) == reputation[v] - 10

\* Also for a verifier that was removed since: it is given a reputation again.
ReputationAfter(v) ==
    Max({0, (IF reputation[v] = Missing THEN 100 ELSE reputation[v]) - 10})

record_default(caller, sme) ==
    LET v == profile[sme].verifier
    IN  /\ require_admin(caller)
        /\ profile[sme].exists
        /\ profile[sme].defaults < MaxCount
        /\ profile' = [profile EXCEPT ![sme].defaults = @ + 1]
        /\ stake' = [stake EXCEPT ![v] = @ - SlashOf(v)]
        /\ slashed' = slashed + Returnable(stake[v]) - Returnable(stake[v] - SlashOf(v))
        /\ reputation' = [reputation EXCEPT ![v] = ReputationAfter(v)]
        /\ append_audit_entry
        /\ UNCHANGED <<slash_percentage, registry_admin, is_verifier, held>>

-----------------------------------------------------------------------------
(* The verifiers and the invoice NFT contract.                              *)

require_verifier(v) == is_verifier[v]

MutRegistrable(sme) == sme \in Profiles

\* A second registration would reset the counts of defaults and invoices.
Registrable(sme) == ~profile[sme].exists

register_sme(v, sme, score, attested) ==
    /\ require_verifier(v)
    /\ score <= 100
    /\ Registrable(sme)
    /\ profile' = [profile EXCEPT ![sme] =
         [exists |-> TRUE, verifier |-> v, risk_score |-> score, total_invoices |-> 0,
          defaults |-> 0, compliance_attested |-> attested, credit_limit |-> 0]]

update_sme_score(v, sme, score) ==
    /\ require_verifier(v)
    /\ score <= 100
    /\ profile[sme].exists
    /\ profile' = [profile EXCEPT ![sme].risk_score = score]

set_credit_limit(v, sme, limit) ==
    /\ require_verifier(v)
    /\ limit >= 0
    /\ profile[sme].exists
    /\ profile' = [profile EXCEPT ![sme].credit_limit = limit]

increment_invoice_count(caller, sme) ==
    /\ caller = InvoiceNftAddr
    /\ profile[sme].exists
    /\ profile[sme].total_invoices < MaxCount
    /\ profile' = [profile EXCEPT ![sme].total_invoices = @ + 1]

MutCooledDown(v, d) == last_update[v][d] # now \/ MIN_SCORE_UPDATE_INTERVAL = 0

CooledDown(v, d) ==
    \/ last_update[v][d] = Missing
    \/ now >= last_update[v][d] + MIN_SCORE_UPDATE_INTERVAL

set_debtor_score(v, d, score) ==
    /\ require_verifier(v)
    /\ score <= 100
    /\ CooledDown(v, d)
    /\ debtor_score' = [debtor_score EXCEPT ![d] = score]
    /\ last_update' = [last_update EXCEPT ![v][d] = now]
    /\ score_updates' = [score_updates EXCEPT ![v][d] = @ + 1]

-----------------------------------------------------------------------------
RegistryAdminNext ==
    \E caller \in RegistryAdmins :
        \/ \E new_admin \in RegistryAdmins : transfer_admin(caller, new_admin)
        \/ \E v \in Verifiers, amount \in Stakes : add_verifier(caller, v, amount)
        \/ \E v \in Verifiers : remove_verifier(caller, v)
        \/ \E sme \in Profiles : record_default(caller, sme)

ProfileNext ==
    \E sme \in Profiles :
        \/ \E v \in Verifiers, score \in RiskScores :
              \/ \E attested \in BOOLEAN : register_sme(v, sme, score, attested)
              \/ update_sme_score(v, sme, score)
        \/ \E v \in Verifiers, limit \in Limits : set_credit_limit(v, sme, limit)
        \/ \E caller \in Verifiers \cup {InvoiceNftAddr} : increment_invoice_count(caller, sme)

DebtorNext ==
    \E v \in Verifiers, d \in Debtors, score \in RiskScores : set_debtor_score(v, d, score)

RegistryUpgradeNext ==
    \E caller \in RegistryAdmins :
        /\ require_admin(caller)
        /\ Upgrade("risk_registry")
        /\ append_audit_entry

RegistryNext ==
    \/ RegistryAdminNext /\ UNCHANGED <<now, upgradeVars, debtorVars>>
    \/ ProfileNext /\ UNCHANGED <<now, auditVars, upgradeVars, registry_admin,
                                  verifierVars, debtorVars>>
    \/ DebtorNext /\ UNCHANGED <<now, auditVars, upgradeVars, registry_admin,
                                 verifierVars, profile>>
    \/ RegistryUpgradeNext /\ UNCHANGED <<now, registry_admin, verifierVars, profile, debtorVars>>
    \/ Advance /\ UNCHANGED <<auditVars, upgradeVars, registry_admin, verifierVars,
                              profile, debtorVars>>
    \/ View(registryVars)

RegistrySpec == RegistryInit /\ [][RegistryNext]_registryVars

-----------------------------------------------------------------------------
(* Properties.                                                              *)

\* The storage of the registry is well formed: in particular reputations stay
\* within 0..100, and no stake is slashed below zero unless the percentage the
\* registry was initialized with exceeds the whole.
RegistryTypeOK ==
    /\ registry_admin \in RegistryAdmins
    /\ is_verifier \in [Verifiers -> BOOLEAN]
    /\ stake \in [Verifiers -> Int]
    /\ slash_percentage <= 10000 => \A v \in Verifiers : stake[v] >= 0
    /\ reputation \in [Verifiers -> 0..100 \cup {Missing}]
    /\ held \in Nat
    /\ \A s \in Profiles :
          profile[s].exists => profile[s].verifier \in Verifiers /\ profile[s].risk_score \in 0..100

TotalReturnable ==
    SumFunctionOnSet([v \in Verifiers |-> Returnable(stake[v])], Verifiers)

\* Whatever was added, slashed by whatever percentage, added again or removed, the
\* contract holds what remove_verifier would return to all verifiers, and
\* everything that was slashed besides.
StakesBacked == held >= TotalReturnable + slashed

\* A profile's defaults and invoices are never forgotten, by a registration of
\* the same SME in particular.
CountsNeverReset ==
    [][\A s \in Profiles :
          /\ profile'[s].defaults >= profile[s].defaults
          /\ profile'[s].total_invoices >= profile[s].total_invoices]_profile

\* A verifier sets a debtor's score at most once per cooldown, also when it is
\* removed and added again in between.
ScoresCooledDown ==
    \A v \in Verifiers, d \in Debtors :
        score_updates[v][d] * MIN_SCORE_UPDATE_INTERVAL <= now + MIN_SCORE_UPDATE_INTERVAL
=============================================================================

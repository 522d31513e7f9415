------------------------------ MODULE Treasury ------------------------------
(***************************************************************************)
(* The treasury contract: fees booked per token, withdrawals under a cap   *)
(* per 24-hour epoch, the timelocked change of that cap, and the emergency *)
(* drain.  Every entry point but collect_fee is admin only and audited.    *)
(***************************************************************************)
EXTENDS AuditLog, Timelock, Functions

CONSTANTS
    FeeTokens,       \* token contracts
    Deposits,        \* amounts transferred in and booked as fees
    Withdrawals,     \* amounts the admin may ask for
    CapChoices,      \* withdrawal caps the admin may propose; 0 is "uncapped"
    FeeBpsChoices,   \* protocol fees the admin may choose
    EPOCH_DURATION,  \* 86_400 seconds in the code
    MAX_AMOUNT,      \* the largest amount withdraw takes
    MaxBalance       \* bound: the largest balance of a token

ASSUME TreasuryAssumption ==
    /\ "treasury" \in Upgradable
    /\ Deposits \subseteq Int
    /\ Withdrawals \subseteq Int
    /\ CapChoices \subseteq Int
    /\ IsFiniteSet(CapChoices)
    /\ FeeBpsChoices \subseteq Nat
    /\ FeeBpsChoices \cap 0..10000 # {}
    /\ EPOCH_DURATION \in Nat \ {0}
    /\ MAX_AMOUNT \in Nat
    /\ MaxBalance \in Nat

VARIABLES
    protocol_fee_bps,     \* FeeBps
    token_whitelisted,    \* WhitelistedToken(token)
    fees_collected,       \* Collected(token), for the tokens that have an entry
    balance,              \* the contract's token balances
    withdrawal_cap,       \* WithdrawalCap
    cap_proposal,         \* WithdrawalCapProposal
    epoch_start,          \* EpochStart
    epoch_withdrawn,      \* EpochWithdrawn
    cap_announced,        \* ghost: the last propose_withdrawal_cap call
    cap_changes,          \* ghost: how many cap changes were executed
    cap_changed_at,       \* ghost: when the last one was
    taken                 \* ghost: what withdraw paid out under a cap at each time

feeVars == <<protocol_fee_bps, token_whitelisted>>
bookVars == <<fees_collected, balance>>
capVars == <<withdrawal_cap, cap_proposal, cap_announced, cap_changes, cap_changed_at>>
epochVars == <<epoch_start, epoch_withdrawn, taken>>
treasuryVars ==
    <<now, auditVars, upgradeVars, feeVars, bookVars, capVars, epochVars>>

Uncapped == 0

TreasuryInit ==
    /\ AuditInit
    /\ TimelockInit
    /\ protocol_fee_bps \in FeeBpsChoices \cap 0..10000
    /\ token_whitelisted = [t \in FeeTokens |-> FALSE]
    /\ fees_collected = [t \in {} |-> 0]
    /\ balance = [t \in FeeTokens |-> 0]
    /\ withdrawal_cap = Uncapped
    /\ cap_proposal = NoProposal
    /\ cap_announced = NoProposal
    /\ epoch_start = now
    /\ epoch_withdrawn = 0
    /\ cap_changes = 0
    /\ cap_changed_at = NoTime
    /\ taken = [t \in 0..MaxTime |-> 0]

-----------------------------------------------------------------------------
MutAnyProtocolFee(bps) ==
    /\ protocol_fee_bps' = bps
    /\ append_audit_entry
    /\ UNCHANGED <<token_whitelisted, bookVars, capVars, epochVars, upgradeVars>>

set_fee_bps(bps) ==
    /\ bps <= 10000
    /\ protocol_fee_bps' = bps
    /\ append_audit_entry
    /\ UNCHANGED <<token_whitelisted, bookVars, capVars, epochVars, upgradeVars>>

whitelist_token(token) ==
    /\ token_whitelisted' = [token_whitelisted EXCEPT ![token] = TRUE]
    /\ append_audit_entry
    /\ UNCHANGED <<protocol_fee_bps, bookVars, capVars, epochVars, upgradeVars>>

\* The marketplace transfers the fee first and calls collect_fee in the same
\* transaction.  The call takes the transfer for granted: anybody may transfer
\* without booking, or book without transferring.
Transfer(token, amount) ==
    /\ amount > 0
    /\ balance[token] + amount <= MaxBalance
    /\ balance' = [balance EXCEPT ![token] = @ + amount]

CollectedSoFar(token) ==
    IF token \in DOMAIN fees_collected THEN fees_collected[token] ELSE 0

collect_fee(token, amount) ==
    /\ amount > 0
    /\ token_whitelisted[token]
    /\ CollectedSoFar(token) + amount <= MaxBalance
    /\ fees_collected' =
         [t \in DOMAIN fees_collected \cup {token} |->
            IF t = token THEN CollectedSoFar(token) + amount ELSE fees_collected[t]]

-----------------------------------------------------------------------------
(* Withdrawals.  The cap counts all tokens together.                        *)

NewEpoch == now - epoch_start >= EPOCH_DURATION

\* enforce_rate_limit: a withdrawal opens a new epoch once the old one is over.
WithdrawnThisEpoch == IF NewEpoch THEN 0 ELSE epoch_withdrawn

MutEpochNeverStarts(amount) ==
    /\ withdrawal_cap # Uncapped => WithdrawnThisEpoch + amount <= withdrawal_cap
    /\ UNCHANGED epoch_start

enforce_rate_limit(amount) ==
    \/ /\ withdrawal_cap = Uncapped
       /\ UNCHANGED epoch_start
    \/ /\ withdrawal_cap # Uncapped
       /\ WithdrawnThisEpoch + amount <= withdrawal_cap
       /\ epoch_start' = IF NewEpoch THEN now ELSE epoch_start

\* Nothing is counted while there is no cap.
record_withdrawal(amount) ==
    IF withdrawal_cap = Uncapped
    THEN UNCHANGED <<epoch_withdrawn, taken>>
    ELSE /\ epoch_withdrawn' = WithdrawnThisEpoch + amount
         /\ taken' = [taken EXCEPT ![now] = @ + amount]

withdraw(token, amount) ==
    /\ amount > 0
    /\ amount <= MAX_AMOUNT
    /\ token_whitelisted[token]
    /\ enforce_rate_limit(amount)
    /\ balance[token] >= amount
    /\ fees_collected' =
         [t \in DOMAIN fees_collected |->
            IF t = token THEN fees_collected[t] - amount ELSE fees_collected[t]]
    /\ record_withdrawal(amount)
    /\ balance' = [balance EXCEPT ![token] = @ - amount]
    /\ append_audit_entry
    /\ UNCHANGED <<feeVars, capVars, upgradeVars>>

\* Neither the epoch nor the fee ledger hears of it.
emergency_withdraw(token) ==
    /\ token_whitelisted[token]
    /\ balance' = [balance EXCEPT ![token] = 0]
    /\ append_audit_entry
    /\ UNCHANGED <<feeVars, fees_collected, capVars, epochVars, upgradeVars>>

-----------------------------------------------------------------------------
(* The cap changes under the upgrade timelock.                              *)

propose_withdrawal_cap(new_cap) ==
    /\ new_cap >= 0
    /\ cap_proposal' = NewProposal(cap_proposal, new_cap)
    /\ cap_announced' = [value |-> new_cap, at |-> now]
    /\ append_audit_entry
    /\ UNCHANGED <<withdrawal_cap, cap_changes, cap_changed_at, feeVars, bookVars,
                   epochVars, upgradeVars>>

execute_withdrawal_cap ==
    /\ Elapsed(cap_proposal)
    /\ withdrawal_cap' = cap_proposal.value
    /\ cap_proposal' = Consumed(cap_proposal)
    /\ cap_changes' = cap_changes + 1
    /\ cap_changed_at' = now
    /\ append_audit_entry
    /\ UNCHANGED <<cap_announced, feeVars, bookVars, epochVars, upgradeVars>>

-----------------------------------------------------------------------------
FeeNext ==
    \/ \E bps \in FeeBpsChoices : set_fee_bps(bps)
    \/ \E token \in FeeTokens : whitelist_token(token)

DepositNext ==
    \E token \in FeeTokens, amount \in Deposits :
        \/ Transfer(token, amount) /\ collect_fee(token, amount)
        \/ Transfer(token, amount) /\ UNCHANGED fees_collected
        \/ collect_fee(token, amount) /\ UNCHANGED balance

WithdrawNext ==
    \E token \in FeeTokens :
        \/ \E amount \in Withdrawals : withdraw(token, amount)
        \/ emergency_withdraw(token)

CapChangeNext ==
    \/ \E new_cap \in CapChoices : propose_withdrawal_cap(new_cap)
    \/ execute_withdrawal_cap

TreasuryUpgradeNext == Upgrade("treasury") /\ append_audit_entry

TreasuryNext ==
    \/ FeeNext /\ UNCHANGED now
    \/ DepositNext /\ UNCHANGED <<now, auditVars, upgradeVars, feeVars, capVars, epochVars>>
    \/ WithdrawNext /\ UNCHANGED now
    \/ CapChangeNext /\ UNCHANGED now
    \/ TreasuryUpgradeNext /\ UNCHANGED <<now, feeVars, bookVars, capVars, epochVars>>
    \/ Advance /\ UNCHANGED <<auditVars, upgradeVars, feeVars, bookVars, capVars, epochVars>>
    \/ View(treasuryVars)

TreasurySpec == TreasuryInit /\ [][TreasuryNext]_treasuryVars

-----------------------------------------------------------------------------
(* Properties.                                                              *)

\* The storage of the treasury is well formed: in particular no balance is
\* overdrawn and no proposal is dated in the future.
TreasuryTypeOK ==
    /\ protocol_fee_bps \in 0..10000
    /\ token_whitelisted \in [FeeTokens -> BOOLEAN]
    /\ DOMAIN fees_collected \subseteq FeeTokens
    /\ \A t \in DOMAIN fees_collected : fees_collected[t] \in Int
    /\ balance \in [FeeTokens -> Nat]
    /\ withdrawal_cap \in Nat
    /\ epoch_start \in 0..now
    /\ epoch_withdrawn \in Nat
    /\ cap_proposal = NoProposal \/ (cap_proposal.value \in Nat /\ cap_proposal.at \in 0..now)

\* execute_withdrawal_cap puts the cap proposed last in force, a whole delay after
\* that proposal and once, whatever was proposed, replaced and executed before.
CapChangesAnnounced ==
    [][cap_changes' # cap_changes =>
         OnNotice(withdrawal_cap', cap_announced, cap_changed_at)]_capVars

HighestCap == Max(CapChoices \cup {0})

TakenIn(start) ==
    SumFunctionOnSet(taken, {t \in 0..MaxTime : t \in start..(start + EPOCH_DURATION - 1)})

\* Across epoch resets and changes of the cap, the withdrawals made under a cap
\* within any 24 hours stay within twice the highest cap there ever was: a
\* window of one epoch's length meets at most two epochs.
WindowWithinTwoCaps == \A start \in 0..MaxTime : TakenIn(start) <= 2 * HighestCap
=============================================================================

---------------------------- MODULE Marketplace ----------------------------
(***************************************************************************)
(* The marketplace contract: listing an invoice, funding it, cancelling    *)
(* the listing and refunding investors.  Listing calls the NFT contract,   *)
(* the last contribution calls the pool contract, and both are part of the *)
(* marketplace's own transaction.                                          *)
(***************************************************************************)
EXTENDS FinancingPool

CONSTANTS
    Admin,           \* the marketplace admin
    Sellers,         \* addresses that list invoices
    Referrers,       \* addresses a seller may name as its referrer
    AskingPrices,    \* asking prices a seller may choose
    Deadlines,       \* funding deadlines a seller may choose
    FundAmounts,     \* amounts an investor may send
    FeeChoices,      \* marketplace fees the admin may choose
    TierFeeChoices,  \* risk-tier fees the admin may choose
    ReferrerSplits,  \* referrer splits the admin may choose
    TreasuryTokens,  \* tokens the treasury accepts fees in
    PoolAuthorizes   \* whether the pool's address authorizes the transfer of a refund

ASSUME MarketAssumption ==
    /\ AskingPrices \subseteq Int
    /\ Deadlines \subseteq Nat
    /\ FundAmounts \subseteq Int
    /\ FeeChoices \subseteq Nat
    /\ FeeChoices \cap 0..BPS_DENOMINATOR # {}
    /\ TierFeeChoices \subseteq Nat
    /\ ReferrerSplits \subseteq Nat
    /\ TreasuryTokens \subseteq Tokens
    /\ None \notin Sellers
    /\ PoolAuthorizes \in BOOLEAN

NoFee == -1

VARIABLES
    fee_bps,           \* Config.fee_bps
    tier_fee_bps,      \* TierFeeBps(tier)
    referrer_split_bps,  \* Config.referrer_split_bps; no entry point reads it
    whitelisted,       \* WhitelistedToken(token)
    attested,          \* the risk registry's is_compliance_attested(seller)
    listings,          \* Listing(id)
    referrers,         \* Referrer(id); no entry point reads it
    contribution,      \* Contribution(id, investor), net of fees
    claimed,           \* RefundClaimed(id, investor)
    cancel_requested,  \* CancellationRequest(id)
    cancel_confirmed,  \* CancellationConfirmed(id)
    collected          \* the treasury's Collected(token)

configVars == <<fee_bps, tier_fee_bps, referrer_split_bps, whitelisted, attested>>
cancelVars == <<cancel_requested, cancel_confirmed>>
moneyVars == <<contribution, claimed, collected>>
marketVars == <<configVars, listings, referrers, moneyVars, cancelVars>>

Listing ==
    [exists: BOOLEAN, seller: Sellers \cup {None}, asking_price: Nat,
     face_value: Nat, token: Tokens \cup {None}, funded_amount: Nat,
     funding_deadline: Nat, is_active: BOOLEAN]

NoListing ==
    [exists |-> FALSE, seller |-> None, asking_price |-> 0, face_value |-> 0,
     token |-> None, funded_amount |-> 0, funding_deadline |-> 0,
     is_active |-> FALSE]

MarketInit ==
    /\ fee_bps \in FeeChoices \cap 0..BPS_DENOMINATOR
    /\ tier_fee_bps = [tier \in RiskTier |-> NoFee]
    /\ referrer_split_bps = 0
    /\ whitelisted = [t \in Tokens |-> FALSE]
    /\ attested = [s \in Sellers |-> FALSE]
    /\ listings = [id \in Ids |-> NoListing]
    /\ referrers = [id \in Ids |-> None]
    /\ contribution = [id \in Ids |-> [i \in Investors |-> 0]]
    /\ claimed = [id \in Ids |-> [i \in Investors |-> FALSE]]
    /\ cancel_requested = [id \in Ids |-> FALSE]
    /\ cancel_confirmed = [id \in Ids |-> FALSE]
    /\ collected = [t \in Tokens |-> 0]

-----------------------------------------------------------------------------
(* Configuration, admin only.                                               *)

MutAnyFee(bps) ==
    /\ fee_bps' = bps
    /\ UNCHANGED <<tier_fee_bps, referrer_split_bps, whitelisted, attested>>

set_fee_bps(bps) ==
    /\ bps <= BPS_DENOMINATOR
    /\ fee_bps' = bps
    /\ UNCHANGED <<tier_fee_bps, referrer_split_bps, whitelisted, attested>>

set_tier_fee_bps(tier, bps) ==
    /\ bps <= BPS_DENOMINATOR
    /\ tier_fee_bps' = [tier_fee_bps EXCEPT ![tier] = bps]
    /\ UNCHANGED <<fee_bps, referrer_split_bps, whitelisted, attested>>

set_referrer_split_bps(bps) ==
    /\ bps <= BPS_DENOMINATOR
    /\ referrer_split_bps' = bps
    /\ UNCHANGED <<fee_bps, tier_fee_bps, whitelisted, attested>>

whitelist_token(token) ==
    /\ whitelisted' = [whitelisted EXCEPT ![token] = TRUE]
    /\ UNCHANGED <<fee_bps, tier_fee_bps, referrer_split_bps, attested>>

remove_token_whitelist(token) ==
    /\ whitelisted[token]
    /\ whitelisted' = [whitelisted EXCEPT ![token] = FALSE]
    /\ UNCHANGED <<fee_bps, tier_fee_bps, referrer_split_bps, attested>>

\* The risk registry's register_sme, with the attestation: what the marketplace
\* reads of it at every call of list_invoice.  A profile is registered once and
\* no entry point takes the attestation back.
register_sme(seller) ==
    /\ attested' = [attested EXCEPT ![seller] = TRUE]
    /\ UNCHANGED <<fee_bps, tier_fee_bps, referrer_split_bps, whitelisted>>

-----------------------------------------------------------------------------
(* Listing.                                                                 *)

FullyFunded(id) == listings[id].funded_amount >= listings[id].asking_price

require_compliance_attested(seller) == attested[seller]

\* The referrer is optional, and not the seller itself.
list_invoice(seller, id, asking_price, face_value, token, deadline, referrer) ==
    /\ require_not_paused
    /\ asking_price > 0
    /\ face_value > 0
    /\ deadline > now
    /\ asking_price < face_value
    /\ whitelisted[token]
    /\ require_compliance_attested(seller)
    /\ ~listings[id].exists
    /\ referrer # seller
    /\ referrers' = [referrers EXCEPT ![id] = IF referrer = None THEN @ ELSE referrer]
    /\ load_invoice(id)
    /\ invoices[id].amount = face_value
    /\ set_listed(MarketplaceAddr, id)
    /\ listings' = [listings EXCEPT ![id] =
         [exists |-> TRUE, seller |-> seller, asking_price |-> asking_price,
          face_value |-> face_value, token |-> token, funded_amount |-> 0,
          funding_deadline |-> deadline, is_active |-> TRUE]]
    /\ UNCHANGED <<configVars, moneyVars, cancelVars, poolVars, pool_balance>>

-----------------------------------------------------------------------------
(* Funding.                                                                 *)

EffectiveFeeBps(id) ==
    LET tier_fee == tier_fee_bps[invoices[id].risk_tier]
    IN  IF tier_fee = NoFee THEN fee_bps ELSE tier_fee

FundingFee(id, amount) ==
    bps_of_normalized(amount, EffectiveFeeBps(id), Decimals[listings[id].token])

MutCollectOverwrites(token, fee) ==
    /\ fee > 0 => token \in TreasuryTokens
    /\ collected' = [collected EXCEPT ![token] = fee]

\* treasury.collect_fee, called only for a positive fee.
collect_fee(token, fee) ==
    /\ fee > 0 => token \in TreasuryTokens
    /\ collected' = [collected EXCEPT ![token] = @ + fee]

MutNoDeadline(id) == listings[id].exists

WithinDeadline(id) == now <= listings[id].funding_deadline

fund_invoice(i, id, amount) ==
    LET listing == listings[id]
        fee == FundingFee(id, amount)
        funded == listing.funded_amount + amount
    IN  /\ require_not_paused
        /\ amount > 0
        /\ listing.exists
        /\ listing.is_active
        /\ WithinDeadline(id)
        /\ funded <= listing.asking_price
        /\ ~frozen[id]
        /\ collect_fee(listing.token, fee)
        /\ pool_balance' = [pool_balance EXCEPT ![listing.token] = @ + amount - fee]
        /\ contribution' = [contribution EXCEPT ![id][i] = @ + amount - fee]
        /\ listings' = [listings EXCEPT ![id] =
             [@ EXCEPT !.funded_amount = funded,
                       !.is_active = funded < listing.asking_price]]
        /\ \/ funded >= listing.asking_price /\ release_funds(id, listing.token)
           \/ funded < listing.asking_price /\ UNCHANGED <<nftVars, poolVars>>
        /\ UNCHANGED <<configVars, referrers, claimed, cancelVars>>

-----------------------------------------------------------------------------
(* Cancellation, by the seller or the admin.                                *)

MayCancel(caller, id) ==
    /\ listings[id].exists
    /\ listings[id].is_active
    /\ caller = listings[id].seller \/ caller = Admin

MutStaysActive(id) == UNCHANGED listings

Deactivate(id) == listings' = [listings EXCEPT ![id].is_active = FALSE]

\* Also for a listing investors have already put money in.
cancel_listing(caller, id) ==
    /\ MayCancel(caller, id)
    /\ Deactivate(id)
    /\ UNCHANGED cancelVars

request_cancellation(caller, id) ==
    /\ MayCancel(caller, id)
    /\ \/ /\ listings[id].funded_amount = 0
          /\ Deactivate(id)
          /\ UNCHANGED cancel_requested
       \/ /\ listings[id].funded_amount # 0
          /\ ~cancel_requested[id]
          /\ cancel_requested' = [cancel_requested EXCEPT ![id] = TRUE]
          /\ UNCHANGED listings
    /\ UNCHANGED cancel_confirmed

admin_confirm_cancellation(id) ==
    /\ cancel_requested[id]
    /\ listings[id].exists
    /\ listings[id].is_active
    /\ Deactivate(id)
    /\ cancel_requested' = [cancel_requested EXCEPT ![id] = FALSE]
    /\ cancel_confirmed' = [cancel_confirmed EXCEPT ![id] = TRUE]

-----------------------------------------------------------------------------
(* Refunds.  The net contribution leaves the pool's balance: the transfer   *)
(* is from the pool's address, and needs its authorization.  No entry point *)
(* of the pool gives it, so PoolAuthorizes is FALSE on the ledger; it is    *)
(* TRUE where all authorizations are granted, as the tests do.              *)

RefundOpen(id) ==
    /\ ~FullyFunded(id)
    /\ cancel_confirmed[id] \/ now > listings[id].funding_deadline

MutNotMarked(i, id) == UNCHANGED claimed

MarkClaimed(i, id) == claimed' = [claimed EXCEPT ![id][i] = TRUE]

claim_refund(i, id) ==
    /\ listings[id].exists
    /\ RefundOpen(id)
    /\ ~claimed[id][i]
    /\ contribution[id][i] > 0
    /\ MarkClaimed(i, id)
    /\ PoolAuthorizes
    /\ pool_balance[listings[id].token] >= contribution[id][i]
    /\ pool_balance' = [pool_balance EXCEPT ![listings[id].token] = @ - contribution[id][i]]
    /\ UNCHANGED <<configVars, listings, referrers, contribution, collected,
                   cancelVars, nftVars, poolVars>>

-----------------------------------------------------------------------------
ConfigNext ==
    \/ \E bps \in FeeChoices : set_fee_bps(bps)
    \/ \E tier \in RiskTier, bps \in TierFeeChoices : set_tier_fee_bps(tier, bps)
    \/ \E bps \in ReferrerSplits : set_referrer_split_bps(bps)
    \/ \E token \in Tokens : whitelist_token(token) \/ remove_token_whitelist(token)
    \/ \E seller \in Sellers : register_sme(seller)

ListingNext ==
    \E seller \in Sellers, id \in Ids, asking_price \in AskingPrices,
       face_value \in Amounts, token \in Tokens, deadline \in Deadlines,
       referrer \in Referrers \cup {None} :
       list_invoice(seller, id, asking_price, face_value, token, deadline, referrer)

FundingNext ==
    \E i \in Investors, id \in Ids, amount \in FundAmounts : fund_invoice(i, id, amount)

CancelNext ==
    \E id \in Ids :
        \/ \E caller \in Sellers \cup {Admin} :
              cancel_listing(caller, id) \/ request_cancellation(caller, id)
        \/ admin_confirm_cancellation(id)

RefundNext == \E i \in Investors, id \in Ids : claim_refund(i, id)

MarketplaceStep ==
    /\ \/ ConfigNext /\ UNCHANGED <<listings, referrers, moneyVars, cancelVars,
                                    nftVars, poolVars, pool_balance>>
       \/ ListingNext
       \/ FundingNext
       \/ CancelNext /\ UNCHANGED <<configVars, referrers, moneyVars, nftVars,
                                    poolVars, pool_balance>>
       \/ RefundNext
    /\ UNCHANGED envVars
=============================================================================

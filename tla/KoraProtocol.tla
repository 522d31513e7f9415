---------------------------- MODULE KoraProtocol ----------------------------
(***************************************************************************)
(* The composed protocol: the marketplace, the financing pool and the      *)
(* invoice NFT contract on one ledger.  Transactions of SMEs, sellers,     *)
(* investors and the admin interleave in any order; each is atomic across  *)
(* the contracts it calls.                                                 *)
(***************************************************************************)
EXTENDS Marketplace

vars == <<envVars, nftVars, poolVars, pool_balance, marketVars>>

Init == EnvInit /\ NftInit /\ PoolInit /\ MarketInit

Next ==
    \/ MarketplaceStep
    \/ PoolStep /\ UNCHANGED marketVars
    \/ NftStep /\ UNCHANGED <<poolVars, pool_balance, marketVars>>

Spec == Init /\ [][Next]_vars

\* Ledgers keep closing, an investor with a claim keeps submitting it, and an
\* SME that no longer waits for acceptance takes its escrow back.
Fairness ==
    /\ WF_vars(Tick /\ UNCHANGED <<nftVars, poolVars, pool_balance, marketVars>>)
    /\ \A id \in Ids, i \in Investors :
          WF_vars(claim_refund(i, id) /\ UNCHANGED envVars)
    /\ \A id \in Ids, sme \in SMEs :
          WF_vars(cancel_early_settlement(sme, id) /\ UNCHANGED <<envVars, marketVars>>)

FairSpec == Spec /\ Fairness

-----------------------------------------------------------------------------
(* Properties.                                                              *)

\* The storage of the marketplace contract is well formed in every state.
MarketTypeOK ==
    /\ fee_bps \in 0..BPS_DENOMINATOR
    /\ tier_fee_bps \in [RiskTier -> 0..BPS_DENOMINATOR \cup {NoFee}]
    /\ referrer_split_bps \in 0..BPS_DENOMINATOR
    /\ whitelisted \in [Tokens -> BOOLEAN]
    /\ attested \in [Sellers -> BOOLEAN]
    /\ listings \in [Ids -> Listing]
    /\ referrers \in [Ids -> Referrers \cup {None}]
    /\ contribution \in [Ids -> [Investors -> Nat]]
    /\ claimed \in [Ids -> [Investors -> BOOLEAN]]
    /\ cancel_requested \in [Ids -> BOOLEAN]
    /\ cancel_confirmed \in [Ids -> BOOLEAN]

\* The storage of the three contracts is well formed in every state.
TypeOK == NftTypeOK /\ PoolTypeOK /\ MarketTypeOK

\* list_invoice and fund_invoice keep the marketplace and the NFT contract
\* agreed: an invoice has a listing exactly when it has left Created, at the
\* face value it was minted or amended to, a listing never collects more than
\* its asking price, and the contribution that completes it has opened the pool.
ListingAgrees(id) ==
    LET listing == listings[id]
        status == invoices[id].status
    IN  /\ listing.exists <=> status \notin {"Absent", "Created"}
        /\ listing.exists =>
             /\ listing.token \in Tokens
             /\ listing.face_value = invoices[id].amount
             /\ listing.asking_price \in 1..(listing.face_value - 1)
             /\ listing.funded_amount <= listing.asking_price
             /\ FullyFunded(id) => ~listing.is_active /\ pools[id].exists
        /\ ~listing.exists => listing = NoListing

\* ListingAgrees for every invoice, whichever contract it is reached through.
ListingsAgreeWithInvoices == \A id \in Ids : ListingAgrees(id)

\* claim_refund and fund_invoice exclude each other: once any investor has been
\* refunded, the listing is short of its asking price, is cancelled or past its
\* deadline, and so can never be completed with money that has left the pool.
ClaimedIsClosed(id) ==
    \A i \in Investors :
        claimed[id][i] =>
          /\ listings[id].exists
          /\ ~FullyFunded(id)
          /\ ~listings[id].is_active \/ now > listings[id].funding_deadline

\* No listing is both refunded by claim_refund and still open to fund_invoice.
RefundExcludesFunding == \A id \in Ids : ClaimedIsClosed(id)

\* A confirmed cancellation closes the listing for good and consumes its request.
ConfirmedClosed(id) ==
    cancel_confirmed[id] =>
      /\ listings[id].exists
      /\ ~listings[id].is_active
      /\ ~FullyFunded(id)
      /\ ~cancel_requested[id]

\* What admin_confirm_cancellation confirmed is closed to fund_invoice for good.
ConfirmedIsClosed == \A id \in Ids : ConfirmedClosed(id)

\* What the listings in a token have collected from investors.
FundedOf(id, token) ==
    IF listings[id].token = token THEN listings[id].funded_amount ELSE 0

FundedIn(token) == SumFunctionOnSet([id \in Ids |-> FundedOf(id, token)], Ids)

\* What the investors in them are credited with.
Contributed(id) == SumFunctionOnSet(contribution[id], Investors)

ContributedOf(id, token) == IF listings[id].token = token THEN Contributed(id) ELSE 0

ContributedIn(token) == SumFunctionOnSet([id \in Ids |-> ContributedOf(id, token)], Ids)

\* What claim_refund may still pay out of them.
Unclaimed(id) ==
    SumFunctionOnSet(
        [i \in Investors |-> IF claimed[id][i] THEN 0 ELSE contribution[id][i]], Investors)

RefundableOf(id, token) ==
    IF listings[id].token = token /\ ~FullyFunded(id) THEN Unclaimed(id) ELSE 0

RefundableIn(token) == SumFunctionOnSet([id \in Ids |-> RefundableOf(id, token)], Ids)

\* fund_invoice loses no token to rounding: what the listings in a token
\* collected is what the treasury booked and the investors are credited with.
FundingAccounted ==
    \A t \in Tokens : FundedIn(t) = collected[t] + ContributedIn(t)

\* The smallest amount a token's decimals can tell apart once it is scaled to
\* seven of them.
UnitOf(decimals) ==
    IF decimals > STANDARD_DECIMALS THEN PowerOfTen[decimals - STANDARD_DECIMALS] ELSE 1

\* A fee is the rate's part of the amount, rounded down, to the unit.
FeeOfRate(fee, amount, rate, unit) ==
    /\ BPS_DENOMINATOR * fee <= amount * rate
    /\ amount * rate < BPS_DENOMINATOR * (fee + unit) + rate * (unit - 1)

\* Whatever decimals a token has and however the admin changes the fees between
\* two contributions, fund_invoice takes the fee of the moment: never more than
\* the rate's part of the amount, and short of it by less than rounding the
\* amount and the fee to seven decimals costs.
FeeAtRate ==
    [][\A id \in Ids :
          LET token == listings[id].token
              amount == listings'[id].funded_amount - listings[id].funded_amount
          IN  amount > 0 =>
                FeeOfRate(collected'[token] - collected[token], amount,
                          EffectiveFeeBps(id), UnitOf(Decimals[token]))]_vars

\* The pool holds one balance per token for everybody.  Whatever repayments,
\* distributions, defaults, settlements and refunds have happened, it covers
\* every refund that may still be claimed together with every escrow, but for
\* what irregular invoices have overdrawn.
RefundsBacked ==
    \A t \in Tokens :
        pool_balance[t] + Overdrawn(t) >= EscrowedIn(t) + RefundableIn(t)

\* "Investors must be able to claim refunds on expired listings": an investor
\* whose listing was not completed, and who keeps calling claim_refund, gets the
\* contribution back.
RefundEventually ==
    \A id \in Ids, i \in Investors :
        contribution[id][i] > 0 ~> (claimed[id][i] \/ FullyFunded(id))

\* An escrowed settlement leaves the pool again: accepted, or cancelled, also
\* when the pool was closed or defaulted under it, unless the token it is in has
\* been overdrawn.
EscrowEventuallyReleased ==
    \A id \in Ids :
        HasSettlement(id) ~> (~HasSettlement(id) \/ Overdrawn(pools[id].token) > 0)
=============================================================================

----------------------------- MODULE KoraProofs -----------------------------
(***************************************************************************)
(* Proofs about the composed protocol: the marketplace stays agreed with   *)
(* the two contracts it drives, a refund and the completion of a listing   *)
(* exclude each other, and the whole protocol implements the abstract      *)
(* invoice lifecycle.  Then its money: what investors fund is fee or       *)
(* contribution, fees are those of the rate, the pool's balance is what its *)
(* invoices hold and what can be refunded, so that refunds are backed.     *)
(***************************************************************************)
EXTENDS KoraProtocol, FinancingPoolProofs

\* The types of the marketplace storage the arguments below rest on.
ListingTypes ==
    /\ listings \in [Ids -> Listing]
    /\ claimed \in [Ids -> [Investors -> BOOLEAN]]
    /\ cancel_requested \in [Ids -> BOOLEAN]
    /\ cancel_confirmed \in [Ids -> BOOLEAN]

\* What the marketplace's storage says of one invoice.
ListingInv(id) == ListingAgrees(id) /\ ClaimedIsClosed(id) /\ ConfirmedClosed(id)

\* The inductive invariant of the composition.
KoraInv == PoolInv /\ ListingTypes /\ \A id \in Ids : ListingInv(id)

Unlisted == {"Absent", "Created"}

\* What the marketplace needs of a step of another contract: a listed invoice
\* stays listed at its amount, no other becomes listed, no pool disappears and
\* the clock does not run backwards.
ListingSafe(i) ==
    /\ invoices'[i].status \in Unlisted <=> invoices[i].status \in Unlisted
    /\ invoices[i].status \notin Unlisted => invoices'[i].amount = invoices[i].amount
    /\ pools[i].exists => pools'[i].exists

-----------------------------------------------------------------------------
\* Such a step keeps what is said of a listing.
LEMMA ListingKept ==
  ASSUME NEW i \in Ids, ListingInv(i), ListingTypes, now \in Nat, now' \in Nat, now' >= now,
         ListingSafe(i), listings'[i] = listings[i], claimed'[i] = claimed[i],
         cancel_requested'[i] = cancel_requested[i],
         cancel_confirmed'[i] = cancel_confirmed[i]
  PROVE  ListingInv(i)'
  <1>1. listings[i] \in Listing
    BY DEF ListingTypes
  <1>2. FullyFunded(i)' <=> FullyFunded(i)
    BY DEF FullyFunded
  <1>3. ListingAgrees(i)'
    BY <1>2 DEF ListingInv, ListingAgrees, ListingSafe, Unlisted
  <1>4. ClaimedIsClosed(i)'
    BY <1>1, <1>2 DEF ListingInv, ClaimedIsClosed, Listing
  <1>5. ConfirmedClosed(i)'
    BY <1>2 DEF ListingInv, ConfirmedClosed
  <1> QED  BY <1>3, <1>4, <1>5 DEF ListingInv

\* A step of another contract that is safe for every listing.
LEMMA OtherContractInv ==
  ASSUME KoraInv, PoolInv', now' >= now, UNCHANGED marketVars,
         \A i \in Ids : ListingSafe(i)
  PROVE  KoraInv'
  <1>1. now \in Nat /\ now' \in Nat
    BY DEF KoraInv, PoolInv, NftInv, NftTypeOK, EnvTypeOK
  <1>2. ListingTypes'
    BY DEF KoraInv, ListingTypes, marketVars, cancelVars, moneyVars
  <1>3. \A i \in Ids : ListingInv(i)'
    BY <1>1, ListingKept DEF KoraInv, marketVars, cancelVars, moneyVars
  <1> QED  BY <1>2, <1>3 DEF KoraInv

\* Nothing the listings depend on changes.
LEMMA SafeWhenKept ==
  ASSUME NEW i \in Ids, invoices'[i] = invoices[i], pools'[i] = pools[i]
  PROVE  ListingSafe(i)
  BY DEF ListingSafe

-----------------------------------------------------------------------------
(* Steps of the NFT contract and of the pool.                               *)

\* Calls of the NFT contract alone keep the marketplace's invariant.
LEMMA NftStepSafe ==
  ASSUME KoraInv, NftStep, UNCHANGED poolVars
  PROVE  (\A i \in Ids : ListingSafe(i)) /\ now' >= now
  <1>1. invoices \in [Ids -> Invoice] /\ NftInv /\ now \in Nat
    BY DEF KoraInv, PoolInv, NftInv, NftTypeOK, EnvTypeOK
  <1>2. pools' = pools
    BY DEF poolVars
  <1>3. CASE SmeNext /\ UNCHANGED envVars
    <2> PICK id \in Ids : ChangesUnfunded(id) /\ invoices'[id].status # "Listed"
      BY <1>1, <1>3, SmeChangesUnfunded
    <2>1. \A i \in Ids : ListingSafe(i)
      BY <1>2 DEF ListingSafe, Unlisted, ChangesUnfunded
    <2> QED  BY <1>1, <1>3, <2>1 DEF envVars
  <1>4. CASE NftAdminNext /\ UNCHANGED envVars
    <2>1. \A i \in Ids : ListingSafe(i)
      BY <1>1, <1>2, <1>4 DEF NftAdminNext, set_defaulted, freeze_invoice, unfreeze_invoice,
         HasStatus, Defaultable, ListingSafe, Unlisted, Invoice
    <2> QED  BY <1>1, <1>4, <2>1 DEF envVars
  <1>5. CASE Environment /\ UNCHANGED nftVars
    <2>1. now' >= now
      BY <1>1, <1>5 DEF Environment, Tick, Advance, pause, unpause, set_credit_limit, OracleNext
    <2> QED  BY <1>2, <1>5, <2>1, SafeWhenKept DEF nftVars
  <1> QED  BY <1>3, <1>4, <1>5 DEF NftStep

\* The status setters the pool calls keep a listed invoice listed.
LEMMA SettersSafe ==
  ASSUME invoices \in [Ids -> Invoice], NEW id \in Ids,
         \/ set_funded(PoolAddr, id)
         \/ set_repaid(PoolAddr, id)
         \/ set_defaulted(id),
         \A i \in Ids : pools[i].exists => pools'[i].exists
  PROVE  \A i \in Ids : ListingSafe(i)
  <1>1. CASE set_funded(PoolAddr, id)
    BY <1>1 DEF set_funded, HasStatus, ListingSafe, Unlisted, Invoice
  <1>2. CASE set_repaid(PoolAddr, id)
    BY <1>2 DEF set_repaid, HasStatus, ListingSafe, Unlisted, Invoice
  <1>3. CASE set_defaulted(id)
    BY <1>3 DEF set_defaulted, HasStatus, Defaultable, ListingSafe, Unlisted, Invoice
  <1> QED  BY <1>1, <1>2, <1>3

\* Calls of the pool contract keep the marketplace's invariant.
LEMMA PoolStepSafe ==
  ASSUME KoraInv, PoolStep
  PROVE  (\A i \in Ids : ListingSafe(i)) /\ now' >= now
  <1>1. invoices \in [Ids -> Invoice] /\ pools \in [Ids -> Pool] /\ now \in Nat /\ PoolInv
    BY DEF KoraInv, PoolInv, NftInv, NftTypeOK, EnvTypeOK, PoolTypeOK
  <1>2. now' >= now
    BY <1>1 DEF PoolStep, envVars
  <1>3. PoolInv'
    BY <1>1, PoolStepInv
  <1>4. CASE RecordNext \/ CapNext \/ MarketNext
    <2>1. UNCHANGED <<pools, invoices>>
      BY <1>4 DEF RecordNext, CapNext, MarketNext, record_position, set_max_position_bps,
         list_position_for_sale, buy_position, nftVars
    <2> QED  BY <1>2, <2>1, SafeWhenKept
  <1>5. ASSUME NEW id \in Ids, NEW token \in Tokens, release_funds(id, token)
        PROVE  \A i \in Ids : ListingSafe(i)
    <2>1. \A i \in Ids : pools[i].exists => pools'[i].exists
      BY <1>1, <1>5 DEF release_funds, NoPool
    <2> QED  BY <1>1, <1>5, <2>1, SettersSafe DEF release_funds
  <1>6. ASSUME NEW id \in Ids, NEW token \in Tokens, NEW amount \in RepayAmounts,
               repay(id, token, amount)
        PROVE  \A i \in Ids : ListingSafe(i)
    <2>1. \A i \in Ids : pools[i].exists => pools'[i].exists
      BY <1>1, <1>6 DEF repay, PoolAfter, Pool
    <2>2. UNCHANGED invoices \/ set_repaid(PoolAddr, id)
      BY <1>6 DEF repay, nftVars
    <2>3. CASE UNCHANGED invoices
      BY <2>1, <2>3 DEF ListingSafe
    <2> QED  BY <1>1, <2>1, <2>2, <2>3, SettersSafe
  <1>7. ASSUME NEW id \in Ids, NEW token \in Tokens, NEW recorded \in BOOLEAN,
               mark_default(id, token, recorded)
        PROVE  \A i \in Ids : ListingSafe(i)
    BY <1>1, <1>7, SettersSafe DEF mark_default
  <1>8. ASSUME NEW id \in Ids, NEW i \in Investors, accept_early_settlement(i, id)
        PROVE  \A k \in Ids : ListingSafe(k)
    <2>1. CASE AddAcceptance(i, id)
      BY <2>1, SafeWhenKept DEF AddAcceptance, nftVars
    <2>2. CASE SettleEarly(i, id)
      <3>1. \A k \in Ids : pools[k].exists => pools'[k].exists
        BY <1>1, <2>2 DEF SettleEarly, Pool
      <3> QED  BY <1>1, <2>2, <3>1, SettersSafe DEF SettleEarly
    <2> QED  BY <1>8, <2>1, <2>2 DEF accept_early_settlement
  <1>9. ASSUME NEW id \in Ids, NEW sme \in SMEs, NEW amount \in SettlementAmounts,
               propose_early_settlement(sme, id, amount)
        PROVE  \A i \in Ids : ListingSafe(i)
    BY <1>9, SafeWhenKept DEF propose_early_settlement, nftVars
  <1>10. ASSUME NEW id \in Ids, NEW sme \in SMEs, cancel_early_settlement(sme, id)
         PROVE  \A i \in Ids : ListingSafe(i)
    BY <1>10, SafeWhenKept DEF cancel_early_settlement, MayCancelSettlement, nftVars
  <1> QED
    BY <1>2, <1>4, <1>5, <1>6, <1>7, <1>8, <1>9, <1>10
    DEF PoolStep, OpenNext, RepayNext, DefaultNext, SettlementNext

-----------------------------------------------------------------------------
(* Steps of the marketplace.                                                *)

\* The step leaves every listing but id's as it is.
OtherListingsKept(id) ==
    \A i \in Ids \ {id} :
        /\ invoices'[i] = invoices[i]
        /\ pools'[i] = pools[i]
        /\ listings'[i] = listings[i]
        /\ claimed'[i] = claimed[i]
        /\ cancel_requested'[i] = cancel_requested[i]
        /\ cancel_confirmed'[i] = cancel_confirmed[i]

\* A step about one listing need only be checked for that listing.
LEMMA OneListing ==
  ASSUME KoraInv, PoolInv', ListingTypes', UNCHANGED envVars, NEW id \in Ids,
         OtherListingsKept(id), ListingInv(id)'
  PROVE  KoraInv'
  <1>1. now \in Nat /\ now' = now
    BY DEF KoraInv, PoolInv, NftInv, NftTypeOK, EnvTypeOK, envVars
  <1>2. \A i \in Ids \ {id} : ListingInv(i)'
    BY <1>1, ListingKept, SafeWhenKept DEF KoraInv, OtherListingsKept
  <1> QED  BY <1>2 DEF KoraInv

\* Nothing but the marketplace's own storage changes.
LEMMA PoolInvKept ==
  ASSUME PoolInv, UNCHANGED <<envVars, nftVars, poolVars>>
  PROVE  PoolInv'
  <1>1. NftInv'
    BY NftKept DEF PoolInv
  <1>2. PoolTypeOK'
    BY DEF PoolInv, PoolTypeOK, poolVars, careVars
  <1>3. CoreKept
    BY DEF CoreKept, poolVars, nftVars
  <1> QED  BY <1>1, <1>2, <1>3, CoreKeptInv DEF PoolInv

\* list_invoice: the invoice was Created, so it had no listing.
LEMMA ListInvoiceInv ==
  ASSUME KoraInv, UNCHANGED envVars, NEW seller \in Sellers, NEW id \in Ids,
         NEW asking_price \in AskingPrices, NEW face_value \in Amounts,
         NEW token \in Tokens, NEW deadline \in Deadlines, NEW referrer \in Referrers \cup {None},
         list_invoice(seller, id, asking_price, face_value, token, deadline, referrer)
  PROVE  KoraInv'
  <1> DEFINE listing == [exists |-> TRUE, seller |-> seller, asking_price |-> asking_price,
                         face_value |-> face_value, token |-> token, funded_amount |-> 0,
                         funding_deadline |-> deadline, is_active |-> TRUE]
  <1>1. set_listed(MarketplaceAddr, id) /\ UNCHANGED poolVars
    BY DEF list_invoice
  <1>2. PoolInv'
    BY <1>1, ListedInv DEF KoraInv
  <1>3. /\ asking_price \in Nat /\ face_value \in Nat /\ deadline \in Nat
        /\ asking_price \in 1..(face_value - 1)
    BY MarketAssumption, NftAssumption DEF list_invoice
  <1>4. listing \in Listing
    BY <1>3 DEF Listing
  <1>5. listings' = [listings EXCEPT ![id] = listing]
    BY DEF list_invoice
  <1>6. UNCHANGED <<claimed, cancel_requested, cancel_confirmed>>
    BY DEF list_invoice, moneyVars, cancelVars
  <1>7. listings \in [Ids -> Listing] /\ invoices \in [Ids -> Invoice]
    BY DEF KoraInv, ListingTypes, PoolInv, NftInv, NftTypeOK, EnvTypeOK
  <1>8. ListingTypes'
    BY <1>4, <1>5, <1>6, <1>7 DEF KoraInv, ListingTypes
  <1>9. OtherListingsKept(id)
    BY <1>1, <1>5, <1>6, <1>7 DEF OtherListingsKept, set_listed, poolVars
  <1>10. /\ listings'[id] = listing
         /\ invoices'[id].status = "Listed"
         /\ invoices'[id].amount = face_value
    BY <1>1, <1>5, <1>7 DEF list_invoice, set_listed, Invoice
  <1>11. ~listings[id].exists
    BY DEF list_invoice
  <1>12. \A i \in Investors : ~claimed[id][i]
    BY <1>11 DEF KoraInv, ListingInv, ClaimedIsClosed
  <1>13. ~cancel_confirmed[id]
    BY <1>11 DEF KoraInv, ListingInv, ConfirmedClosed
  <1>14. ListingInv(id)'
    BY <1>3, <1>6, <1>10, <1>12, <1>13 DEF ListingInv, ListingAgrees, ClaimedIsClosed,
       ConfirmedClosed, FullyFunded
  <1> QED  BY <1>2, <1>8, <1>9, <1>14, OneListing

\* fund_invoice: a listing that takes money is active and within its deadline,
\* so nobody has claimed a refund; the payment that completes it opens the pool.
LEMMA FundInvoiceInv ==
  ASSUME KoraInv, UNCHANGED envVars, NEW i \in Investors, NEW id \in Ids,
         NEW amount \in FundAmounts, fund_invoice(i, id, amount)
  PROVE  KoraInv'
  <1> DEFINE listing == listings[id]
             funded == listing.funded_amount + amount
             after == [listing EXCEPT !.funded_amount = funded,
                                      !.is_active = funded < listing.asking_price]
  <1>1. /\ amount > 0
        /\ listing.exists
        /\ listing.is_active
        /\ now <= listing.funding_deadline
        /\ funded <= listing.asking_price
        /\ listings' = [listings EXCEPT ![id] = after]
        /\ \/ funded >= listing.asking_price /\ release_funds(id, listing.token)
           \/ funded < listing.asking_price /\ UNCHANGED <<nftVars, poolVars>>
        /\ UNCHANGED <<claimed, cancel_requested, cancel_confirmed>>
    BY DEF fund_invoice, WithinDeadline, cancelVars
  <1>2. /\ listings \in [Ids -> Listing]
        /\ invoices \in [Ids -> Invoice]
        /\ pools \in [Ids -> Pool]
        /\ now \in Nat
        /\ PoolInv
    BY DEF KoraInv, ListingTypes, PoolInv, NftInv, NftTypeOK, EnvTypeOK, PoolTypeOK
  <1>3. listing \in Listing /\ amount \in Nat /\ funded \in Nat
    BY <1>1, <1>2, MarketAssumption DEF Listing
  <1>4. (funded < listing.asking_price) \in BOOLEAN
    BY <1>3 DEF Listing
  <1>5. after \in Listing
    BY <1>3, <1>4 DEF Listing
  <1>6. /\ after.exists
        /\ after.token = listing.token
        /\ after.face_value = listing.face_value
        /\ after.asking_price = listing.asking_price
        /\ after.funded_amount = funded
        /\ after.is_active = (funded < listing.asking_price)
    BY <1>1, <1>3 DEF Listing
  <1>7. /\ listing.token \in Tokens
        /\ listing.face_value = invoices[id].amount
        /\ listing.asking_price \in 1..(listing.face_value - 1)
        /\ invoices[id].status \notin Unlisted
    BY <1>1 DEF KoraInv, ListingInv, ListingAgrees, Unlisted
  <1>8. (\A k \in Investors : ~claimed[id][k]) /\ ~cancel_confirmed[id]
    BY <1>1, <1>2, <1>3 DEF KoraInv, ListingInv, ClaimedIsClosed, ConfirmedClosed, Listing
  <1> HIDE DEF after, funded
  <1>9. listings'[id] = after
    BY <1>1, <1>2
  <1>10. ListingTypes'
    BY <1>1, <1>2, <1>5 DEF KoraInv, ListingTypes
  <1>11. PoolInv'
    BY <1>1, <1>2, <1>7, ReleaseInv, PoolInvKept
  <1>12. OtherListingsKept(id)
    <2>1. \A k \in Ids \ {id} : invoices'[k] = invoices[k] /\ pools'[k] = pools[k]
      BY <1>1, <1>2 DEF release_funds, set_funded, nftVars, poolVars
    <2> QED  BY <1>1, <1>2, <2>1 DEF OtherListingsKept
  <1>13. /\ invoices'[id].status \notin Unlisted
         /\ invoices'[id].amount = invoices[id].amount
    <2>1. CASE UNCHANGED <<nftVars, poolVars>>
      BY <1>7, <2>1 DEF nftVars
    <2>2. CASE release_funds(id, listing.token)
      BY <1>2, <2>2 DEF release_funds, set_funded, Unlisted, Invoice
    <2> QED  BY <1>1, <2>1, <2>2
  <1>14. funded >= listing.asking_price => pools'[id].exists
    <2> SUFFICES ASSUME funded >= listing.asking_price PROVE pools'[id].exists
      OBVIOUS
    <2>1. release_funds(id, listing.token)
      BY <1>1, <1>3 DEF Listing
    <2> QED  BY <1>2, <2>1 DEF release_funds, NoPool
  <1>15. ListingAgrees(id)'
    <2>0. /\ listings'[id].funded_amount = funded
          /\ listings'[id].asking_price = listing.asking_price
      BY <1>6, <1>9
    <2>1. FullyFunded(id)' <=> funded >= listing.asking_price
      BY <2>0 DEF FullyFunded
    <2>2. FullyFunded(id)' => ~listings'[id].is_active
      <3>1. FullyFunded(id)' => ~(funded < listing.asking_price)
        BY <1>3, <2>1 DEF Listing
      <3>2. listings'[id].is_active = (funded < listing.asking_price)
        BY <1>6, <1>9, Zenon
      <3> QED  BY <3>1, <3>2, Zenon
    <2>3. FullyFunded(id)' => pools'[id].exists
      BY <1>14, <2>1
    <2>4. /\ listings'[id].exists
          /\ listings'[id].token \in Tokens
          /\ listings'[id].face_value = invoices'[id].amount
          /\ listings'[id].asking_price \in 1..(listings'[id].face_value - 1)
          /\ listings'[id].funded_amount <= listings'[id].asking_price
      BY <1>1, <1>6, <1>7, <1>9, <1>13
    <2> QED  BY <1>13, <2>2, <2>3, <2>4 DEF ListingAgrees, Unlisted
  <1>16. ClaimedIsClosed(id)' /\ ConfirmedClosed(id)'
    BY <1>1, <1>8 DEF ClaimedIsClosed, ConfirmedClosed
  <1>17. ListingInv(id)'
    BY <1>15, <1>16 DEF ListingInv
  <1> QED  BY <1>10, <1>11, <1>12, <1>17, OneListing

\* The ways to cancel: each deactivates an active listing, or stores a request.
LEMMA CancelInv ==
  ASSUME KoraInv, UNCHANGED <<envVars, moneyVars, nftVars, poolVars>>, CancelNext
  PROVE  KoraInv'
  <1> PICK id \in Ids :
        \/ \E caller \in Sellers \cup {Admin} :
              cancel_listing(caller, id) \/ request_cancellation(caller, id)
        \/ admin_confirm_cancellation(id)
    BY DEF CancelNext
  <1> DEFINE closed == [listings[id] EXCEPT !.is_active = FALSE]
  <1>1. PoolInv'
    BY PoolInvKept DEF KoraInv
  <1>2. /\ listings \in [Ids -> Listing]
        /\ cancel_requested \in [Ids -> BOOLEAN]
        /\ cancel_confirmed \in [Ids -> BOOLEAN]
        /\ claimed \in [Ids -> [Investors -> BOOLEAN]]
    BY DEF KoraInv, ListingTypes
  <1>3. listings[id].exists /\ listings[id].is_active
    BY DEF cancel_listing, request_cancellation, admin_confirm_cancellation, MayCancel
  <1>4. UNCHANGED <<invoices, pools, claimed>> /\ now' = now
    BY DEF nftVars, poolVars, moneyVars, envVars
  <1>5. listings[id] \in Listing
    BY <1>2
  <1>6. /\ closed \in Listing
        /\ closed.exists = listings[id].exists
        /\ closed.token = listings[id].token
        /\ closed.face_value = listings[id].face_value
        /\ closed.asking_price = listings[id].asking_price
        /\ closed.funded_amount = listings[id].funded_amount
        /\ ~closed.is_active
    BY <1>5 DEF Listing
  <1>7. listings' = [listings EXCEPT ![id] = closed] \/ UNCHANGED listings
    BY <1>2 DEF cancel_listing, request_cancellation, admin_confirm_cancellation, Deactivate
  <1> HIDE DEF closed
  <1>8. listings' \in [Ids -> Listing] /\ (listings'[id] = closed \/ UNCHANGED listings)
    BY <1>2, <1>6, <1>7
  <1>9. \/ UNCHANGED cancelVars
        \/ /\ cancel_requested' = [cancel_requested EXCEPT ![id] = TRUE]
           /\ UNCHANGED <<cancel_confirmed, listings>>
        \/ UNCHANGED <<cancel_requested, cancel_confirmed>>
        \/ /\ listings'[id] = closed
           /\ cancel_requested' = [cancel_requested EXCEPT ![id] = FALSE]
           /\ cancel_confirmed' = [cancel_confirmed EXCEPT ![id] = TRUE]
    BY <1>2 DEF cancel_listing, request_cancellation, admin_confirm_cancellation, Deactivate,
       cancelVars, closed
  <1>10. cancel_requested' \in [Ids -> BOOLEAN] /\ cancel_confirmed' \in [Ids -> BOOLEAN]
    BY <1>2, <1>9 DEF cancelVars
  <1>11. ListingTypes'
    BY <1>4, <1>8, <1>10, <1>2 DEF ListingTypes
  <1>12. OtherListingsKept(id)
    BY <1>2, <1>4, <1>7, <1>9 DEF OtherListingsKept, cancelVars
  <1>13. FullyFunded(id)' <=> FullyFunded(id)
    BY <1>6, <1>8 DEF FullyFunded
  <1>14. ~FullyFunded(id) /\ ListingAgrees(id) /\ ~cancel_confirmed[id]
    BY <1>3 DEF KoraInv, ListingInv, ListingAgrees, ConfirmedClosed
  <1>15. ListingAgrees(id)'
    BY <1>3, <1>4, <1>6, <1>8, <1>13, <1>14 DEF ListingAgrees
  <1>16. ClaimedIsClosed(id)'
    <2>1. ClaimedIsClosed(id)
      BY DEF KoraInv, ListingInv
    <2>2. listings'[id].exists /\ (~listings'[id].is_active \/ listings'[id] = listings[id])
      BY <1>3, <1>6, <1>8
    <2> QED  BY <1>4, <1>13, <1>14, <2>1, <2>2 DEF ClaimedIsClosed
  <1>17. ConfirmedClosed(id)'
    BY <1>2, <1>3, <1>6, <1>9, <1>13, <1>14 DEF ConfirmedClosed, cancelVars
  <1> QED  BY <1>1, <1>11, <1>12, <1>15, <1>16, <1>17, OneListing DEF ListingInv

\* claim_refund: the listing is short of its price, and either confirmed
\* cancelled or past its deadline.
LEMMA RefundInv ==
  ASSUME KoraInv, UNCHANGED envVars, NEW i \in Investors, NEW id \in Ids, claim_refund(i, id)
  PROVE  KoraInv'
  <1>1. /\ UNCHANGED <<listings, cancel_requested, cancel_confirmed, nftVars, poolVars>>
        /\ claimed' = [claimed EXCEPT ![id][i] = TRUE]
        /\ listings[id].exists
        /\ RefundOpen(id)
    BY DEF claim_refund, cancelVars, MarkClaimed
  <1>2. PoolInv'
    BY <1>1, PoolInvKept DEF KoraInv
  <1>3. claimed \in [Ids -> [Investors -> BOOLEAN]]
    BY DEF KoraInv, ListingTypes
  <1>4. claimed' \in [Ids -> [Investors -> BOOLEAN]]
    BY <1>1, <1>3
  <1>5. ListingTypes'
    BY <1>1, <1>4 DEF KoraInv, ListingTypes
  <1>6. OtherListingsKept(id)
    BY <1>1, <1>3 DEF OtherListingsKept, nftVars, poolVars
  <1>7. ListingAgrees(id)' /\ ConfirmedClosed(id)'
    BY <1>1 DEF KoraInv, ListingInv, ListingAgrees, ConfirmedClosed, FullyFunded, nftVars, poolVars
  <1>8. ~FullyFunded(id) /\ (~listings[id].is_active \/ now > listings[id].funding_deadline)
    BY <1>1 DEF RefundOpen, KoraInv, ListingInv, ConfirmedClosed
  <1>9. ClaimedIsClosed(id)'
    BY <1>1, <1>8 DEF ClaimedIsClosed, FullyFunded, envVars
  <1> QED  BY <1>2, <1>5, <1>6, <1>7, <1>9, OneListing DEF ListingInv

\* Every step of the marketplace preserves the invariant.
LEMMA MarketplaceStepInv ==
  ASSUME KoraInv, MarketplaceStep
  PROVE  KoraInv'
  <1>1. UNCHANGED envVars
    BY DEF MarketplaceStep
  <1>2. CASE UNCHANGED <<listings, moneyVars, cancelVars, nftVars, poolVars>>
    <2>1. PoolInv'
      BY <1>1, <1>2, PoolInvKept DEF KoraInv
    <2>2. ListingTypes'
      BY <1>2 DEF KoraInv, ListingTypes, moneyVars, cancelVars
    <2>3. now \in Nat /\ now' = now
      BY <1>1 DEF KoraInv, PoolInv, NftInv, NftTypeOK, EnvTypeOK, envVars
    <2>4. \A i \in Ids : ListingInv(i)'
      BY <1>2, <2>3, ListingKept, SafeWhenKept
      DEF KoraInv, moneyVars, cancelVars, nftVars, poolVars
    <2> QED  BY <2>1, <2>2, <2>4 DEF KoraInv
  <1>3. CASE ListingNext
    BY <1>1, <1>3, ListInvoiceInv DEF ListingNext
  <1>4. CASE FundingNext
    BY <1>1, <1>4, FundInvoiceInv DEF FundingNext
  <1>5. CASE CancelNext /\ UNCHANGED <<moneyVars, nftVars, poolVars>>
    BY <1>1, <1>5, CancelInv
  <1>6. CASE RefundNext
    BY <1>1, <1>6, RefundInv DEF RefundNext
  <1> QED  BY <1>2, <1>3, <1>4, <1>5, <1>6 DEF MarketplaceStep

\* The initial state satisfies the invariant.
LEMMA KoraInitInv == Init => KoraInv
  <1> SUFFICES ASSUME Init PROVE KoraInv
    OBVIOUS
  <1>1. PoolInv
    BY PoolInitInv DEF Init
  <1>2. NoListing \in Listing
    BY DEF NoListing, Listing
  <1>3. ListingTypes
    BY <1>2 DEF Init, MarketInit, ListingTypes
  <1>4. \A id \in Ids : ListingInv(id)
    BY DEF Init, NftInit, MarketInit, ListingInv, ListingAgrees, ClaimedIsClosed,
       ConfirmedClosed, NoListing, NoInvoice
  <1> QED  BY <1>1, <1>3, <1>4 DEF KoraInv

\* Every step of the protocol preserves the invariant.
LEMMA KoraNextInv ==
  ASSUME KoraInv, [Next]_vars
  PROVE  KoraInv'
  <1>1. CASE MarketplaceStep
    BY <1>1, MarketplaceStepInv
  <1>2. CASE PoolStep /\ UNCHANGED marketVars
    BY <1>2, PoolStepSafe, PoolStepInv, OtherContractInv DEF KoraInv
  <1>3. CASE NftStep /\ UNCHANGED <<poolVars, pool_balance, marketVars>>
    BY <1>3, NftStepSafe, NftStepInv, OtherContractInv DEF KoraInv
  <1>4. CASE UNCHANGED vars
    <2>1. UNCHANGED <<envVars, nftVars, poolVars>> /\ UNCHANGED marketVars
      BY <1>4 DEF vars
    <2>2. PoolInv'
      BY <2>1, PoolInvKept DEF KoraInv
    <2>3. now' >= now
      BY <2>1 DEF KoraInv, PoolInv, NftInv, NftTypeOK, EnvTypeOK, envVars
    <2>4. \A i \in Ids : ListingSafe(i)
      BY <2>1, SafeWhenKept DEF nftVars, poolVars
    <2> QED  BY <2>1, <2>2, <2>3, <2>4, OtherContractInv
  <1> QED  BY <1>1, <1>2, <1>3, <1>4 DEF Next

\* The invariant holds in every reachable state.
LEMMA KoraInvariant == Spec => []KoraInv
  <1>1. KoraInv /\ [Next]_vars => KoraInv'
    BY KoraNextInv
  <1> QED  BY KoraInitInv, <1>1, PTL DEF Spec

-----------------------------------------------------------------------------
(* The theorems about listings, refunds, payouts and the lifecycle.         *)

\* The marketplace never disagrees with the NFT contract and the pool.
THEOREM KoraListingsAgree == Spec => []ListingsAgreeWithInvoices
  <1>1. KoraInv => ListingsAgreeWithInvoices
    BY DEF KoraInv, ListingInv, ListingsAgreeWithInvoices
  <1> QED  BY KoraInvariant, <1>1, PTL

\* No listing is completed after an investor took a contribution back.
THEOREM KoraRefundExcludesFunding == Spec => []RefundExcludesFunding
  <1>1. KoraInv => RefundExcludesFunding
    BY DEF KoraInv, ListingInv, RefundExcludesFunding
  <1> QED  BY KoraInvariant, <1>1, PTL

\* A confirmed cancellation is final.
THEOREM KoraConfirmedIsClosed == Spec => []ConfirmedIsClosed
  <1>1. KoraInv => ConfirmedIsClosed
    BY DEF KoraInv, ListingInv, ConfirmedIsClosed
  <1> QED  BY KoraInvariant, <1>1, PTL

\* Adding the marketplace changes neither the agreement between the pool and
\* the NFT contract nor the single payout.
THEOREM KoraPaidOutOnce == Spec => [](PoolsAgreeWithInvoices /\ PaidOutOnce)
  <1>1. KoraInv => PoolsAgreeWithInvoices /\ PaidOutOnce
    BY DEF KoraInv, PoolInv, InvoiceInv, PoolsAgreeWithInvoices, PaidOutOnce
  <1> QED  BY KoraInvariant, <1>1, PTL

\* Every step of the marketplace is a step of the invoice lifecycle.
LEMMA MarketplaceStepRefines ==
  ASSUME KoraInv, MarketplaceStep
  PROVE  LifecycleStep
  <1>1. PoolInv
    BY DEF KoraInv
  <1>2. CASE UNCHANGED <<nftVars, poolVars>>
    BY <1>2, Stutter DEF nftVars, poolVars
  <1>3. CASE ListingNext
    BY <1>1, <1>3, ListRefines
    DEF ListingNext, list_invoice, poolVars, LifecycleStep, Lifecycle!Next
  <1>4. CASE FundingNext
    <2> PICK i \in Investors, id \in Ids, amount \in FundAmounts : fund_invoice(i, id, amount)
      BY <1>4 DEF FundingNext
    <2>1. CASE release_funds(id, listings[id].token)
      BY <1>1, <2>1, FundRefines DEF release_funds, LifecycleStep, Lifecycle!Next
    <2> QED  BY <1>2, <2>1 DEF fund_invoice
  <1> QED
    BY <1>2, <1>3, <1>4 DEF MarketplaceStep, RefundNext, claim_refund

\* The whole protocol implements the abstract lifecycle of an invoice.
THEOREM KoraImplementsLifecycle == Spec => LifecycleSpec
  <1>1. KoraInv /\ [Next]_vars => [Lifecycle!Next]_(Lifecycle!vars)
    <2> SUFFICES ASSUME KoraInv, [Next]_vars PROVE LifecycleStep
      BY DEF LifecycleStep
    <2>1. CASE MarketplaceStep
      BY <2>1, MarketplaceStepRefines
    <2>2. CASE PoolStep
      BY <2>2, PoolStepRefines DEF KoraInv
    <2>3. CASE NftStep /\ UNCHANGED poolVars
      BY <2>3, NftStepRefines DEF KoraInv, poolVars
    <2>4. CASE UNCHANGED vars
      BY <2>4, Stutter DEF vars, nftVars, poolVars
    <2> QED  BY <2>1, <2>2, <2>3, <2>4 DEF Next
  <1>2. Init => Lifecycle!Init
    BY InitRefines DEF Init
  <1> QED
    BY <1>2, KoraInvariant, <1>1, PTL DEF Spec, LifecycleSpec, Lifecycle!Spec

-----------------------------------------------------------------------------
(* The fee of a contribution.                                               *)

\* What the setters, the token whitelist and the attestations keep of the
\* configuration.
ConfigInv ==
    /\ fee_bps \in 0..BPS_DENOMINATOR
    /\ tier_fee_bps \in [RiskTier -> 0..BPS_DENOMINATOR \cup {NoFee}]
    /\ referrer_split_bps \in 0..BPS_DENOMINATOR
    /\ whitelisted \in [Tokens -> BOOLEAN]
    /\ attested \in [Sellers -> BOOLEAN]

\* The fee in force for an invoice is a part of the whole.
LEMMA EffectiveFeeBounded ==
  ASSUME ConfigInv, NEW id \in Ids, invoices[id].risk_tier \in RiskTier
  PROVE  EffectiveFeeBps(id) \in Nat /\ EffectiveFeeBps(id) <= 10000
  <1> DEFINE bps == EffectiveFeeBps(id)
  <1>1. bps \in 0..BPS_DENOMINATOR
    BY DEF ConfigInv, EffectiveFeeBps
  <1> HIDE DEF bps
  <1>2. bps \in Nat /\ bps <= 10000
    BY <1>1 DEF BPS_DENOMINATOR
  <1> QED  BY <1>2 DEF bps

\* Rounding a rate's part of an amount down, at a token's decimals, loses less
\* than one unit of it and of the amount.
LEMMA RateRounded ==
  ASSUME NEW amount \in Nat, NEW bps \in Nat, NEW decimals \in Nat
  PROVE  FeeOfRate(bps_of_normalized(amount, bps, decimals), amount, bps, UnitOf(decimals))
  <1> DEFINE x == amount * bps
             fee == bps_of_normalized(amount, bps, decimals)
             unit == UnitOf(decimals)
  <1>1. x \in Nat /\ fee \in Nat /\ BPS_DENOMINATOR * fee <= x
    BY ShareRoundsDown
  <1>2. CASE decimals <= STANDARD_DECIMALS
    <2> DEFINE k == PowerOfTen[STANDARD_DECIMALS - decimals]
               z == (amount * k) * bps
               b == z \div 10000
    <2>1. k \in Nat \ {0} /\ unit = 1
      BY <1>2, PowerPositive DEF STANDARD_DECIMALS, UnitOf
    <2>2. fee = b \div k
      BY <1>2 DEF bps_of_normalized, normalize_amount, denormalize_amount, bps_of, BPS_DENOMINATOR
    <2> HIDE DEF k, fee
    <2>3. z = x * k /\ z \in Nat
      BY <2>1
    <2> HIDE DEF x, z
    <2>4. b \in Nat /\ z + 1 <= 10000 * (b + 1)
      BY <2>3
    <2> HIDE DEF b
    <2>5. b + 1 <= (fee + 1) * k
      BY <2>1, <2>2, <2>4
    <2>6. (x + 1) * k <= (10000 * (fee + 1)) * k \/ x * k < (10000 * (fee + 1)) * k
      <3> DEFINE y == (fee + 1) * k
      <3>1. y \in Nat /\ b + 1 <= y
        BY <1>1, <2>1, <2>5
      <3>2. (10000 * (fee + 1)) * k = 10000 * y
        BY <1>1, <2>1
      <3> HIDE DEF y
      <3>3. z < 10000 * y
        BY <2>3, <2>4, <3>1
      <3> QED  BY <2>3, <3>2, <3>3
    <2>7. x < 10000 * (fee + 1)
      <3> SUFFICES ASSUME 10000 * (fee + 1) <= x PROVE FALSE
        BY <1>1
      <3> DEFINE w == 10000 * (fee + 1)
      <3>1. w \in Nat /\ w <= x /\ ((x + 1) * k <= w * k \/ x * k < w * k)
        BY <1>1, <2>6
      <3> HIDE DEF w
      <3>2. (x - w) * k >= 0
        BY <1>1, <2>1, <3>1
      <3> QED  BY <1>1, <2>1, <3>1, <3>2
    <2>8. 10000 * fee <= x /\ x < 10000 * (fee + unit) + bps * (unit - 1)
      BY <1>1, <2>1, <2>7 DEF BPS_DENOMINATOR
    <2> HIDE DEF unit
    <2>9. FeeOfRate(fee, amount, bps, unit)
      BY <2>8 DEF FeeOfRate, BPS_DENOMINATOR, x
    <2> QED  BY <2>9 DEF fee, unit
  <1>3. CASE decimals > STANDARD_DECIMALS
    <2> DEFINE k == PowerOfTen[decimals - STANDARD_DECIMALS]
               n == amount \div k
               z == n * bps
               b == z \div 10000
    <2>1. k \in Nat \ {0} /\ unit = k
      BY <1>3, PowerPositive DEF STANDARD_DECIMALS, UnitOf
    <2>2. fee = b * k
      BY <1>3 DEF bps_of_normalized, normalize_amount, denormalize_amount, bps_of,
                  BPS_DENOMINATOR, STANDARD_DECIMALS
    <2> HIDE DEF k, fee, unit
    <2>3. n \in Nat /\ amount <= n * k + (k - 1)
      BY <2>1
    <2> HIDE DEF n
    <2>4. z \in Nat
      BY <2>3
    <2>5. x <= z * k + bps * (k - 1)
      <3> DEFINE y == n * k + (k - 1)
      <3>1. y \in Nat /\ amount <= y
        BY <2>1, <2>3
      <3>2. y * bps = z * k + bps * (k - 1)
        BY <2>1, <2>3
      <3> HIDE DEF y, z
      <3>3. (y - amount) * bps >= 0
        BY <3>1
      <3>4. amount * bps <= y * bps
        BY <3>1, <3>3
      <3> QED  BY <3>2, <3>4
    <2> HIDE DEF z, x
    <2>6. b \in Nat /\ z + 1 <= 10000 * (b + 1)
      BY <2>4
    <2> HIDE DEF b
    <2>7. z * k < 10000 * (fee + k)
      <3>1. (10000 * (b + 1) - z - 1) * k >= 0
        BY <2>1, <2>4, <2>6
      <3>2. 10000 * (b + 1) * k = 10000 * (fee + k)
        BY <2>1, <2>2, <2>6
      <3> QED  BY <2>1, <2>4, <2>6, <3>1, <3>2
    <2> DEFINE lost == bps * (k - 1)
               kept == z * k
    <2>8. lost \in Nat /\ kept \in Nat /\ x <= kept + lost /\ kept < 10000 * (fee + k)
      BY <2>1, <2>4, <2>5, <2>7
    <2> HIDE DEF kept, lost
    <2>9. x < 10000 * (fee + k) + lost
      BY <1>1, <2>1, <2>8
    <2>10. 10000 * fee <= x /\ x < 10000 * (fee + unit) + bps * (unit - 1)
      BY <1>1, <2>1, <2>9 DEF BPS_DENOMINATOR, lost
    <2>11. FeeOfRate(fee, amount, bps, unit)
      BY <2>10 DEF FeeOfRate, BPS_DENOMINATOR, x
    <2> QED  BY <2>11 DEF fee, unit
  <1> QED  BY <1>2, <1>3 DEF STANDARD_DECIMALS

\* fund_invoice takes the fee in force, and never more than the contribution.
LEMMA FundingFeeBounds ==
  ASSUME ConfigInv, NEW id \in Ids, invoices[id].risk_tier \in RiskTier,
         listings[id].token \in Tokens, NEW amount \in Nat
  PROVE  /\ FundingFee(id, amount) \in Nat
         /\ FundingFee(id, amount) <= amount
         /\ FeeOfRate(FundingFee(id, amount), amount, EffectiveFeeBps(id),
                      UnitOf(Decimals[listings[id].token]))
  <1> DEFINE bps == EffectiveFeeBps(id)
             fee == FundingFee(id, amount)
             decimals == Decimals[listings[id].token]
  <1>1. decimals \in Nat /\ bps \in Nat /\ bps <= 10000
    BY EffectiveFeeBounded, PoolAssumption
  <1>2. fee = bps_of_normalized(amount, bps, decimals)
    BY DEF FundingFee
  <1> HIDE DEF fee, bps, decimals
  <1>3. fee \in Nat /\ 10000 * fee <= amount * bps
    <2>1. /\ bps_of_normalized(amount, bps, decimals) \in Nat
          /\ BPS_DENOMINATOR * bps_of_normalized(amount, bps, decimals) <= amount * bps
      BY <1>1, ShareRoundsDown
    <2> QED  BY <1>2, <2>1 DEF BPS_DENOMINATOR
  <1>4. FeeOfRate(fee, amount, bps, UnitOf(decimals))
    BY <1>1, <1>2, RateRounded
  <1>5. (10000 - bps) * amount >= 0
    BY <1>1
  <1>6. amount * bps <= 10000 * amount
    BY <1>1, <1>5
  <1>7. fee <= amount
    <2> DEFINE y == amount * bps
    <2>1. y \in Nat
      BY <1>1
    <2> HIDE DEF y
    <2>2. 10000 * fee <= y /\ y <= 10000 * amount
      BY <1>3, <1>6 DEF y
    <2> QED  BY <1>3, <2>1, <2>2
  <1> QED  BY <1>3, <1>4, <1>7 DEF fee, bps, decimals

-----------------------------------------------------------------------------
(* The sums over listings and investors that the money is accounted in.     *)

\* The types these sums rest on.
MoneyTypes ==
    /\ listings \in [Ids -> Listing]
    /\ contribution \in [Ids -> [Investors -> Nat]]
    /\ claimed \in [Ids -> [Investors -> BOOLEAN]]
    /\ collected \in [Tokens -> Nat]

\* Contributions that claim_refund has not paid back, completed listings included.
UnclaimedOf(id, token) == IF listings[id].token = token THEN Unclaimed(id) ELSE 0
UnclaimedIn(token) == SumFunctionOnSet([id \in Ids |-> UnclaimedOf(id, token)], Ids)

\* The sums over investors are natural numbers.
LEMMA InvestorSums ==
  ASSUME NEW given \in [Investors -> Nat], NEW back \in [Investors -> BOOLEAN]
  PROVE  /\ SumFunctionOnSet(given, Investors) \in Nat
         /\ SumFunctionOnSet([i \in Investors |-> IF back[i] THEN 0 ELSE given[i]], Investors)
              \in Nat
  <1> DEFINE open == [i \in Investors |-> IF back[i] THEN 0 ELSE given[i]]
  <1>1. \A i \in Investors : given[i] \in Nat /\ open[i] \in Nat
    OBVIOUS
  <1> HIDE DEF open
  <1>2. SumFunctionOnSet(given, Investors) \in Nat /\ SumFunctionOnSet(open, Investors) \in Nat
    BY <1>1, PoolAssumption, SumNat
  <1> QED  BY <1>2 DEF open

\* So is what each listing contributes to the sums, before and after a step.
LEMMA PartsTyped ==
  ASSUME MoneyTypes, NEW id \in Ids, NEW t \in Tokens
  PROVE  /\ Contributed(id) \in Nat /\ Unclaimed(id) \in Nat
         /\ FundedOf(id, t) \in Nat /\ ContributedOf(id, t) \in Nat /\ UnclaimedOf(id, t) \in Nat
  <1>1. /\ contribution[id] \in [Investors -> Nat] /\ claimed[id] \in [Investors -> BOOLEAN]
        /\ listings[id].funded_amount \in Nat
    BY DEF MoneyTypes, Listing
  <1>2. Contributed(id) \in Nat /\ Unclaimed(id) \in Nat
    BY <1>1, InvestorSums DEF Contributed, Unclaimed
  <1> QED  BY <1>1, <1>2 DEF FundedOf, ContributedOf, UnclaimedOf

\* The same of the state after a step.
LEMMA PartsTypedAfter ==
  ASSUME MoneyTypes', NEW id \in Ids, NEW t \in Tokens
  PROVE  /\ Contributed(id)' \in Nat /\ Unclaimed(id)' \in Nat
         /\ FundedOf(id, t)' \in Nat /\ ContributedOf(id, t)' \in Nat /\ UnclaimedOf(id, t)' \in Nat
  <1>1. /\ contribution'[id] \in [Investors -> Nat] /\ claimed'[id] \in [Investors -> BOOLEAN]
        /\ listings'[id].funded_amount \in Nat
    BY DEF MoneyTypes, Listing
  <1>2. Contributed(id)' \in Nat /\ Unclaimed(id)' \in Nat
    BY <1>1, InvestorSums DEF Contributed, Unclaimed
  <1> QED  BY <1>1, <1>2 DEF FundedOf, ContributedOf, UnclaimedOf

\* The sums over the listings are natural numbers.
LEMMA SumsTyped ==
  ASSUME MoneyTypes, NEW t \in Tokens
  PROVE  FundedIn(t) \in Nat /\ ContributedIn(t) \in Nat /\ UnclaimedIn(t) \in Nat
  <1> DEFINE f == [id \in Ids |-> FundedOf(id, t)]
             c == [id \in Ids |-> ContributedOf(id, t)]
             u == [id \in Ids |-> UnclaimedOf(id, t)]
  <1>1. \A id \in Ids : f[id] \in Nat /\ c[id] \in Nat /\ u[id] \in Nat
    BY PartsTyped
  <1> HIDE DEF f, c, u
  <1>2. /\ SumFunctionOnSet(f, Ids) \in Nat
        /\ SumFunctionOnSet(c, Ids) \in Nat
        /\ SumFunctionOnSet(u, Ids) \in Nat
    BY <1>1, IdsFinite, SumNat
  <1> QED  BY <1>2 DEF FundedIn, ContributedIn, UnclaimedIn, f, c, u

\* The step is about one listing.
OtherMoneyKept(id) ==
    \A k \in Ids \ {id} :
        /\ listings'[k] = listings[k]
        /\ contribution'[k] = contribution[k]
        /\ claimed'[k] = claimed[k]

\* It changes each sum by what it changes for that listing.
LEMMA SumsMove ==
  ASSUME MoneyTypes, MoneyTypes', NEW id \in Ids, OtherMoneyKept(id), NEW t \in Tokens
  PROVE  /\ FundedIn(t)' = FundedIn(t) - FundedOf(id, t) + FundedOf(id, t)'
         /\ ContributedIn(t)' = ContributedIn(t) - ContributedOf(id, t) + ContributedOf(id, t)'
         /\ UnclaimedIn(t)' = UnclaimedIn(t) - UnclaimedOf(id, t) + UnclaimedOf(id, t)'
  <1> DEFINE f == [k \in Ids |-> FundedOf(k, t)]
             c == [k \in Ids |-> ContributedOf(k, t)]
             u == [k \in Ids |-> UnclaimedOf(k, t)]
             g == [k \in Ids |-> FundedOf(k, t)']
             d == [k \in Ids |-> ContributedOf(k, t)']
             v == [k \in Ids |-> UnclaimedOf(k, t)']
  <1>1. \A k \in Ids : f[k] \in Int /\ c[k] \in Int /\ u[k] \in Int
    BY PartsTyped
  <1>2. \A k \in Ids : g[k] \in Int /\ d[k] \in Int /\ v[k] \in Int
    BY PartsTypedAfter
  <1>3. ASSUME NEW k \in Ids \ {id}
        PROVE  g[k] = f[k] /\ d[k] = c[k] /\ v[k] = u[k]
    <2>1. /\ listings'[k] = listings[k]
          /\ contribution'[k] = contribution[k] /\ claimed'[k] = claimed[k]
      BY DEF OtherMoneyKept
    <2>2. Contributed(k)' = Contributed(k) /\ Unclaimed(k)' = Unclaimed(k)
      BY <2>1 DEF Contributed, Unclaimed
    <2> QED  BY <2>1, <2>2 DEF FundedOf, ContributedOf, UnclaimedOf
  <1>4. /\ f[id] = FundedOf(id, t) /\ g[id] = FundedOf(id, t)'
        /\ c[id] = ContributedOf(id, t) /\ d[id] = ContributedOf(id, t)'
        /\ u[id] = UnclaimedOf(id, t) /\ v[id] = UnclaimedOf(id, t)'
    OBVIOUS
  <1>5. /\ FundedIn(t) = SumFunctionOnSet(f, Ids) /\ FundedIn(t)' = SumFunctionOnSet(g, Ids)
        /\ ContributedIn(t) = SumFunctionOnSet(c, Ids)
        /\ ContributedIn(t)' = SumFunctionOnSet(d, Ids)
        /\ UnclaimedIn(t) = SumFunctionOnSet(u, Ids) /\ UnclaimedIn(t)' = SumFunctionOnSet(v, Ids)
    BY DEF FundedIn, ContributedIn, UnclaimedIn
  <1> HIDE DEF f, g, c, d, u, v
  <1>6. SumFunctionOnSet(g, Ids) = SumFunctionOnSet(f, Ids) - f[id] + g[id]
    BY <1>1, <1>2, <1>3, IdsFinite, SumOneChanged
  <1>7. SumFunctionOnSet(d, Ids) = SumFunctionOnSet(c, Ids) - c[id] + d[id]
    BY <1>1, <1>2, <1>3, IdsFinite, SumOneChanged
  <1>8. SumFunctionOnSet(v, Ids) = SumFunctionOnSet(u, Ids) - u[id] + v[id]
    BY <1>1, <1>2, <1>3, IdsFinite, SumOneChanged
  <1> QED  BY <1>4, <1>5, <1>6, <1>7, <1>8

\* A step that keeps every listing and contribution keeps the sums.
LEMMA SumsKept ==
  ASSUME \A id \in Ids : /\ listings'[id].token = listings[id].token
                         /\ listings'[id].funded_amount = listings[id].funded_amount,
         UNCHANGED <<contribution, claimed>>
  PROVE  \A t \in Tokens : /\ FundedIn(t)' = FundedIn(t)
                           /\ ContributedIn(t)' = ContributedIn(t)
                           /\ UnclaimedIn(t)' = UnclaimedIn(t)
  <1> SUFFICES ASSUME NEW t \in Tokens
               PROVE  /\ FundedIn(t)' = FundedIn(t)
                      /\ ContributedIn(t)' = ContributedIn(t)
                      /\ UnclaimedIn(t)' = UnclaimedIn(t)
    OBVIOUS
  <1>1. \A id \in Ids : Contributed(id)' = Contributed(id) /\ Unclaimed(id)' = Unclaimed(id)
    BY DEF Contributed, Unclaimed
  <1>2. \A id \in Ids : /\ FundedOf(id, t)' = FundedOf(id, t)
                        /\ ContributedOf(id, t)' = ContributedOf(id, t)
                        /\ UnclaimedOf(id, t)' = UnclaimedOf(id, t)
    BY <1>1 DEF FundedOf, ContributedOf, UnclaimedOf
  <1>3. [id \in Ids |-> FundedOf(id, t)'] = [id \in Ids |-> FundedOf(id, t)]
    BY <1>2
  <1>4. [id \in Ids |-> ContributedOf(id, t)'] = [id \in Ids |-> ContributedOf(id, t)]
    BY <1>2
  <1>5. [id \in Ids |-> UnclaimedOf(id, t)'] = [id \in Ids |-> UnclaimedOf(id, t)]
    BY <1>2
  <1> QED  BY <1>3, <1>4, <1>5 DEF FundedIn, ContributedIn, UnclaimedIn

-----------------------------------------------------------------------------
(* What every step keeps of the marketplace's and the pool's money.         *)

\* Nobody has put money in an invoice that is not listed.
Untouched ==
    \A id \in Ids : ~listings[id].exists => \A i \in Investors : contribution[id][i] = 0

\* The pool's balance of a token: what its invoices brought in and escrow, and
\* the contributions not paid back.
Held(t) == pool_balance[t] = Claims(t) + UnclaimedIn(t)

\* The books of one token: the fees and the credits make up what was funded.
TokenBooks(t) ==
    /\ FundedIn(t) = collected[t] + ContributedIn(t)
    /\ Held(t)

\* The inductive invariant of the money, next to KoraInv.
BooksInv ==
    /\ ConfigInv /\ MoneyTypes /\ Untouched
    /\ SharesInv /\ LedgerTyped
    /\ \A t \in Tokens : TokenBooks(t)

\* The credits among `given` that have not been paid back.
OpenCredit(given, back) ==
    SumFunctionOnSet([i \in Investors |-> IF back[i] THEN 0 ELSE given[i]], Investors)

\* Crediting one more amount to an investor who has not been paid back.
LEMMA CreditAdded ==
  ASSUME NEW given \in [Investors -> Nat], NEW back \in [Investors -> BOOLEAN],
         NEW i \in Investors, NEW x \in Nat, ~back[i]
  PROVE  LET after == [given EXCEPT ![i] = @ + x]
         IN  /\ SumFunctionOnSet(after, Investors) = SumFunctionOnSet(given, Investors) + x
             /\ OpenCredit(after, back) = OpenCredit(given, back) + x
  <1> DEFINE after == [given EXCEPT ![i] = @ + x]
             f == [k \in Investors |-> IF back[k] THEN 0 ELSE given[k]]
             g == [k \in Investors |-> IF back[k] THEN 0 ELSE after[k]]
  <1>1. \A k \in Investors : given[k] \in Int /\ after[k] \in Int /\ f[k] \in Int /\ g[k] \in Int
    OBVIOUS
  <1>2. \A k \in Investors \ {i} : after[k] = given[k] /\ g[k] = f[k]
    OBVIOUS
  <1>3. after[i] = given[i] + x /\ f[i] = given[i] /\ g[i] = given[i] + x
    OBVIOUS
  <1> HIDE DEF after, f, g
  <1>4. SumFunctionOnSet(after, Investors) = SumFunctionOnSet(given, Investors) - given[i] + after[i]
    BY <1>1, <1>2, PoolAssumption, SumOneChanged
  <1>5. SumFunctionOnSet(g, Investors) = SumFunctionOnSet(f, Investors) - f[i] + g[i]
    BY <1>1, <1>2, PoolAssumption, SumOneChanged
  <1>6. SumFunctionOnSet(given, Investors) \in Int /\ SumFunctionOnSet(f, Investors) \in Int
    BY <1>1, PoolAssumption, SumType
  <1>7. /\ SumFunctionOnSet(after, Investors) = SumFunctionOnSet(given, Investors) + x
        /\ SumFunctionOnSet(g, Investors) = SumFunctionOnSet(f, Investors) + x
    BY <1>1, <1>3, <1>4, <1>5, <1>6
  <1> QED  BY <1>7 DEF OpenCredit, after, f, g

\* Paying one investor back.
LEMMA CreditPaidBack ==
  ASSUME NEW given \in [Investors -> Nat], NEW back \in [Investors -> BOOLEAN],
         NEW i \in Investors, ~back[i]
  PROVE  OpenCredit(given, [back EXCEPT ![i] = TRUE]) = OpenCredit(given, back) - given[i]
  <1> DEFINE after == [back EXCEPT ![i] = TRUE]
             f == [k \in Investors |-> IF back[k] THEN 0 ELSE given[k]]
             g == [k \in Investors |-> IF after[k] THEN 0 ELSE given[k]]
  <1>1. \A k \in Investors : f[k] \in Int /\ g[k] \in Int
    OBVIOUS
  <1>2. \A k \in Investors \ {i} : g[k] = f[k]
    OBVIOUS
  <1>3. f[i] = given[i] /\ g[i] = 0 /\ given[i] \in Int
    OBVIOUS
  <1> HIDE DEF f, g
  <1>4. SumFunctionOnSet(g, Investors) = SumFunctionOnSet(f, Investors) - f[i] + g[i]
    BY <1>1, <1>2, PoolAssumption, SumOneChanged
  <1>5. SumFunctionOnSet(f, Investors) \in Int
    BY <1>1, PoolAssumption, SumType
  <1>6. SumFunctionOnSet(g, Investors) = SumFunctionOnSet(f, Investors) - given[i]
    BY <1>3, <1>4, <1>5
  <1> QED  BY <1>6 DEF OpenCredit, f, g, after

\* What fund_invoice credits, charges and books.
LEMMA FundInvoiceMoves ==
  ASSUME KoraInv, BooksInv, NEW i \in Investors, NEW id \in Ids,
         NEW amount \in FundAmounts, fund_invoice(i, id, amount)
  PROVE  \E fee \in Nat :
           /\ amount \in Nat /\ fee <= amount
           /\ FeeOfRate(fee, amount, EffectiveFeeBps(id), UnitOf(Decimals[listings[id].token]))
           /\ listings[id].token \in Tokens
           /\ listings[id].exists /\ ~claimed[id][i]
           /\ listings'[id].token = listings[id].token
           /\ listings'[id].exists
           /\ listings'[id].funded_amount = listings[id].funded_amount + amount
           /\ contribution' = [contribution EXCEPT
                                 ![id] = [contribution[id] EXCEPT ![i] = @ + (amount - fee)]]
           /\ collected' = [collected EXCEPT ![listings[id].token] = @ + fee]
           /\ pool_balance' = [pool_balance EXCEPT ![listings[id].token] = @ + (amount - fee)]
           /\ UNCHANGED claimed
           /\ \A k \in Ids \ {id} : listings'[k] = listings[k]
           /\ \A t \in Tokens : Claims(t)' = Claims(t)
  <1> DEFINE fee == FundingFee(id, amount)
             token == listings[id].token
  <1>1. /\ amount > 0 /\ listings[id].exists /\ listings[id].is_active
        /\ now <= listings[id].funding_deadline
        /\ collected' = [collected EXCEPT ![token] = @ + fee]
        /\ pool_balance' = [pool_balance EXCEPT ![token] = @ + amount - fee]
        /\ contribution' = [contribution EXCEPT ![id][i] = @ + amount - fee]
        /\ listings' = [listings EXCEPT ![id] =
             [@ EXCEPT !.funded_amount = listings[id].funded_amount + amount,
                       !.is_active = listings[id].funded_amount + amount
                                       < listings[id].asking_price]]
        /\ release_funds(id, token) \/ UNCHANGED <<nftVars, poolVars>>
        /\ UNCHANGED claimed
    BY DEF fund_invoice, WithinDeadline, collect_fee
  <1>2. /\ listings \in [Ids -> Listing] /\ invoices \in [Ids -> Invoice] /\ PoolInv
        /\ contribution \in [Ids -> [Investors -> Nat]]
        /\ collected \in [Tokens -> Nat] /\ pool_balance \in [Tokens -> Int]
        /\ ListingInv(id) /\ ConfigInv /\ now \in Nat
    BY DEF KoraInv, ListingTypes, PoolInv, NftInv, NftTypeOK, EnvTypeOK, BooksInv, MoneyTypes,
           LedgerTyped
  <1>3. amount \in Nat /\ listings[id] \in Listing
    BY <1>1, <1>2, MarketAssumption
  <1>4. token \in Tokens /\ invoices[id].risk_tier \in RiskTier
    BY <1>1, <1>2 DEF ListingInv, ListingAgrees, Invoice
  <1>5. ~claimed[id][i]
    BY <1>1, <1>2, <1>3 DEF ListingInv, ClaimedIsClosed, Listing
  <1>6. /\ fee \in Nat /\ fee <= amount
        /\ FeeOfRate(fee, amount, EffectiveFeeBps(id), UnitOf(Decimals[token]))
    BY <1>2, <1>3, <1>4, FundingFeeBounds
  <1>7. /\ listings'[id].token = token
        /\ listings'[id].exists
        /\ listings'[id].funded_amount = listings[id].funded_amount + amount
        /\ \A k \in Ids \ {id} : listings'[k] = listings[k]
    BY <1>1, <1>2, <1>3 DEF Listing
  <1>8. \A t \in Tokens : Claims(t)' = Claims(t)
    <2>1. CASE release_funds(id, token)
      BY <1>2, <1>4, <2>1, ReleaseClaims
    <2>2. CASE UNCHANGED <<nftVars, poolVars>>
      BY <2>2, ClaimsKept DEF poolVars, EscrowOf
    <2> QED  BY <1>1, <2>1, <2>2
  <1> HIDE DEF fee, token
  <1>9. /\ pool_balance[token] \in Int /\ contribution[id][i] \in Int
        /\ contribution[id] \in [Investors -> Nat]
    BY <1>2, <1>4
  <1>10. pool_balance[token] + amount - fee = pool_balance[token] + (amount - fee)
    BY <1>3, <1>6, <1>9
  <1>11. contribution[id][i] + amount - fee = contribution[id][i] + (amount - fee)
    BY <1>3, <1>6, <1>9
  <1>12. pool_balance' = [pool_balance EXCEPT ![token] = @ + (amount - fee)]
    BY <1>1, <1>10
  <1>13. contribution' = [contribution EXCEPT
                            ![id] = [contribution[id] EXCEPT ![i] = @ + (amount - fee)]]
    BY <1>1, <1>11
  <1> QED  BY <1>1, <1>3, <1>4, <1>5, <1>6, <1>7, <1>8, <1>12, <1>13 DEF token

\* fund_invoice splits the amount between the fee and the credit.
LEMMA FundBooks ==
  ASSUME KoraInv, BooksInv, NEW i \in Investors, NEW id \in Ids,
         NEW amount \in FundAmounts, fund_invoice(i, id, amount), ListingTypes'
  PROVE  MoneyTypes' /\ Untouched' /\ pool_balance' \in [Tokens -> Int]
           /\ \A t \in Tokens : TokenBooks(t)'
  <1> DEFINE token == listings[id].token
  <1>1. PICK fee \in Nat :
           /\ amount \in Nat /\ fee <= amount
           /\ token \in Tokens
           /\ listings[id].exists /\ ~claimed[id][i]
           /\ listings'[id].token = token
           /\ listings'[id].exists
           /\ listings'[id].funded_amount = listings[id].funded_amount + amount
           /\ contribution' = [contribution EXCEPT
                                 ![id] = [contribution[id] EXCEPT ![i] = @ + (amount - fee)]]
           /\ collected' = [collected EXCEPT ![token] = @ + fee]
           /\ pool_balance' = [pool_balance EXCEPT ![token] = @ + (amount - fee)]
           /\ UNCHANGED claimed
           /\ \A k \in Ids \ {id} : listings'[k] = listings[k]
           /\ \A t \in Tokens : Claims(t)' = Claims(t)
    BY FundInvoiceMoves
  <1> DEFINE x == amount - fee
  <1>2. x \in Nat /\ amount = x + fee
    BY <1>1
  <1>3. /\ listings \in [Ids -> Listing]
        /\ contribution \in [Ids -> [Investors -> Nat]]
        /\ contribution[id] \in [Investors -> Nat]
        /\ claimed[id] \in [Investors -> BOOLEAN]
        /\ collected \in [Tokens -> Nat] /\ pool_balance \in [Tokens -> Int]
        /\ MoneyTypes /\ Untouched
    BY DEF BooksInv, MoneyTypes, LedgerTyped
  <1>4. /\ contribution' = [contribution EXCEPT ![id] = [contribution[id] EXCEPT ![i] = @ + x]]
        /\ pool_balance' = [pool_balance EXCEPT ![token] = @ + x]
    BY <1>1
  <1> HIDE DEF x
  <1>5. [contribution[id] EXCEPT ![i] = @ + x] \in [Investors -> Nat]
    BY <1>2, <1>3
  <1>6. /\ contribution' \in [Ids -> [Investors -> Nat]]
        /\ contribution'[id] = [contribution[id] EXCEPT ![i] = @ + x]
        /\ \A k \in Ids \ {id} : contribution'[k] = contribution[k]
    BY <1>3, <1>4, <1>5
  <1>7. collected' \in [Tokens -> Nat] /\ pool_balance' \in [Tokens -> Int]
    BY <1>1, <1>2, <1>3, <1>4
  <1>8. MoneyTypes'
    BY <1>6, <1>7 DEF MoneyTypes, ListingTypes
  <1>9. Untouched'
    BY <1>1, <1>3, <1>6 DEF Untouched
  <1>10. OtherMoneyKept(id)
    BY <1>1, <1>6 DEF OtherMoneyKept
  <1>11. Contributed(id)' = Contributed(id) + x /\ Unclaimed(id)' = Unclaimed(id) + x
    <2>1. /\ Unclaimed(id) = OpenCredit(contribution[id], claimed[id])
          /\ Unclaimed(id)' = OpenCredit(contribution'[id], claimed[id])
      BY <1>1 DEF Unclaimed, OpenCredit
    <2> DEFINE given == contribution[id]
               back == claimed[id]
               after == [given EXCEPT ![i] = @ + x]
    <2>2. given \in [Investors -> Nat] /\ back \in [Investors -> BOOLEAN] /\ ~back[i]
      BY <1>1, <1>3
    <2>3. contribution'[id] = after
      BY <1>6
    <2> HIDE DEF given, back
    <2>4. /\ SumFunctionOnSet(after, Investors) = SumFunctionOnSet(given, Investors) + x
          /\ OpenCredit(after, back) = OpenCredit(given, back) + x
      BY <1>2, <2>2, CreditAdded
    <2> QED  BY <2>1, <2>3, <2>4 DEF Contributed, given, back
  <1>12. ASSUME NEW t \in Tokens PROVE TokenBooks(t)'
    <2> DEFINE F == FundedIn(t)
               C == ContributedIn(t)
               U == UnclaimedIn(t)
               c == collected[t]
               b == pool_balance[t]
    <2>1. F \in Nat /\ C \in Nat /\ U \in Nat /\ c \in Nat /\ b \in Int
      BY <1>3, SumsTyped
    <2>2. F = c + C /\ b = Claims(t) + U
      BY DEF BooksInv, TokenBooks, Held
    <2>3. Claims(t) \in Int /\ Claims(t)' = Claims(t)
      BY <1>1, ClaimsTyped DEF KoraInv, PoolInv, BooksInv
    <2>5. CASE t = token
      <3>0. listings[id].token = t /\ listings'[id].token = t
        BY <1>1, <2>5
      <3>1. /\ FundedOf(id, t) \in Nat /\ ContributedOf(id, t) \in Nat /\ UnclaimedOf(id, t) \in Nat
            /\ FundedOf(id, t)' = FundedOf(id, t) + amount
            /\ ContributedOf(id, t)' = ContributedOf(id, t) + x
            /\ UnclaimedOf(id, t)' = UnclaimedOf(id, t) + x
        BY <1>1, <1>3, <1>11, <3>0, PartsTyped DEF FundedOf, ContributedOf, UnclaimedOf
      <3>2. FundedIn(t)' = F + amount /\ ContributedIn(t)' = C + x /\ UnclaimedIn(t)' = U + x
        BY <1>1, <1>2, <1>3, <1>8, <1>10, <2>1, <3>1, SumsMove
      <3>3. collected'[t] = c + fee /\ pool_balance'[t] = b + x
        BY <1>1, <1>3, <1>4, <2>5
      <3> HIDE DEF F, C, U, c, b
      <3>4. FundedIn(t)' = collected'[t] + ContributedIn(t)'
        BY <1>2, <2>1, <2>2, <3>2, <3>3
      <3>6. Held(t)'
        BY <1>2, <2>1, <2>2, <2>3, <3>2, <3>3 DEF Held
      <3> QED  BY <3>4, <3>6 DEF TokenBooks
    <2>6. CASE t # token
      <3>0. listings[id].token # t /\ listings'[id].token # t
        BY <1>1, <2>6
      <3>1. /\ FundedOf(id, t) = 0 /\ FundedOf(id, t)' = 0
            /\ ContributedOf(id, t) = 0 /\ ContributedOf(id, t)' = 0
            /\ UnclaimedOf(id, t) = 0 /\ UnclaimedOf(id, t)' = 0
        BY <3>0 DEF FundedOf, ContributedOf, UnclaimedOf
      <3>2. FundedIn(t)' = F /\ ContributedIn(t)' = C /\ UnclaimedIn(t)' = U
        BY <1>3, <1>8, <1>10, <2>1, <3>1, SumsMove
      <3>3. collected'[t] = c /\ pool_balance'[t] = b
        BY <1>1, <1>3, <1>4, <2>6
      <3> QED  BY <2>2, <2>3, <3>2, <3>3 DEF TokenBooks, Held
    <2> QED  BY <2>5, <2>6
  <1> QED  BY <1>7, <1>8, <1>9, <1>12

\* claim_refund takes from the balance what it takes from the unclaimed credits.
LEMMA RefundBooks ==
  ASSUME KoraInv, BooksInv, NEW i \in Investors, NEW id \in Ids, claim_refund(i, id), ListingTypes'
  PROVE  MoneyTypes' /\ Untouched' /\ pool_balance' \in [Tokens -> Int]
           /\ \A t \in Tokens : TokenBooks(t)'
  <1> DEFINE token == listings[id].token
             x == contribution[id][i]
  <1>1. /\ UNCHANGED <<listings, contribution, collected, net, pools, settlement>>
        /\ claimed' = [claimed EXCEPT ![id][i] = TRUE]
        /\ pool_balance' = [pool_balance EXCEPT ![token] = @ - x]
        /\ ~claimed[id][i] /\ listings[id].exists
    BY DEF claim_refund, MarkClaimed, poolVars
  <1>2. /\ listings \in [Ids -> Listing]
        /\ contribution[id] \in [Investors -> Nat] /\ x \in Nat
        /\ claimed \in [Ids -> [Investors -> BOOLEAN]]
        /\ claimed[id] \in [Investors -> BOOLEAN]
        /\ collected \in [Tokens -> Nat] /\ pool_balance \in [Tokens -> Int]
        /\ MoneyTypes /\ Untouched
    BY DEF BooksInv, MoneyTypes, LedgerTyped
  <1>3. token \in Tokens
    BY <1>1 DEF KoraInv, ListingInv, ListingAgrees
  <1>4. /\ claimed'[id] = [claimed[id] EXCEPT ![i] = TRUE]
        /\ \A k \in Ids \ {id} : claimed'[k] = claimed[k]
    BY <1>1, <1>2
  <1>5. MoneyTypes' /\ Untouched'
    BY <1>1, <1>2 DEF MoneyTypes, ListingTypes, Untouched
  <1>6. OtherMoneyKept(id)
    BY <1>1, <1>4 DEF OtherMoneyKept
  <1>7. Contributed(id)' = Contributed(id) /\ Unclaimed(id)' = Unclaimed(id) - x
    <2>1. Unclaimed(id)' = Unclaimed(id) - x
      <3>1. /\ Unclaimed(id) = OpenCredit(contribution[id], claimed[id])
            /\ Unclaimed(id)' = OpenCredit(contribution[id], claimed'[id])
        BY <1>1 DEF Unclaimed, OpenCredit
      <3> DEFINE given == contribution[id]
                 back == claimed[id]
                 after == [back EXCEPT ![i] = TRUE]
      <3>2. given \in [Investors -> Nat] /\ back \in [Investors -> BOOLEAN] /\ ~back[i]
        BY <1>1, <1>2
      <3>3. claimed'[id] = after
        BY <1>4
      <3> HIDE DEF given, back
      <3>4. OpenCredit(given, after) = OpenCredit(given, back) - given[i]
        BY <3>2, CreditPaidBack
      <3> QED  BY <3>1, <3>3, <3>4 DEF given, back
    <2> QED  BY <1>1, <2>1 DEF Contributed
  <1>8. \A t \in Tokens : Claims(t)' = Claims(t)
    BY <1>1, ClaimsKept DEF EscrowOf
  <1> HIDE DEF x
  <1>9. pool_balance' \in [Tokens -> Int]
    BY <1>1, <1>2, <1>3
  <1>10. ASSUME NEW t \in Tokens PROVE TokenBooks(t)'
    <2> DEFINE U == UnclaimedIn(t)
               b == pool_balance[t]
    <2>1. U \in Nat /\ b \in Int /\ FundedIn(t) \in Nat /\ ContributedIn(t) \in Nat
      BY <1>2, SumsTyped
    <2>2. b = Claims(t) + U /\ Claims(t) \in Int /\ Claims(t)' = Claims(t)
      BY <1>8, ClaimsTyped DEF BooksInv, TokenBooks, Held, KoraInv, PoolInv
    <2>3. /\ FundedOf(id, t)' = FundedOf(id, t)
          /\ ContributedOf(id, t)' = ContributedOf(id, t)
          /\ FundedOf(id, t) \in Nat /\ ContributedOf(id, t) \in Nat /\ UnclaimedOf(id, t) \in Nat
          /\ Unclaimed(id) \in Nat
      BY <1>1, <1>2, <1>7, PartsTyped DEF FundedOf, ContributedOf
    <2>4. FundedIn(t)' = FundedIn(t) /\ ContributedIn(t)' = ContributedIn(t)
      BY <1>2, <1>5, <1>6, <2>1, <2>3, SumsMove
    <2>5. CASE t = token
      <3>1. UnclaimedOf(id, t)' = UnclaimedOf(id, t) - x
        BY <1>1, <1>7, <2>5 DEF UnclaimedOf
      <3>2. UnclaimedIn(t)' = U - x
        BY <1>2, <1>5, <1>6, <2>1, <2>3, <3>1, SumsMove
      <3>3. pool_balance'[t] = b - x
        BY <1>1, <1>2, <2>5
      <3> HIDE DEF U, b
      <3>4. Held(t)'
        BY <1>2, <2>1, <2>2, <3>2, <3>3 DEF Held
      <3> QED  BY <1>1, <2>4, <3>4 DEF TokenBooks, BooksInv
    <2>6. CASE t # token
      <3>1. UnclaimedOf(id, t)' = 0 /\ UnclaimedOf(id, t) = 0
        BY <1>1, <2>6 DEF UnclaimedOf
      <3>2. UnclaimedIn(t)' = U
        BY <1>2, <1>5, <1>6, <2>1, <3>1, SumsMove
      <3>3. pool_balance'[t] = b
        BY <1>1, <1>2, <2>6
      <3>4. Held(t)'
        BY <2>2, <3>2, <3>3 DEF Held
      <3> QED  BY <1>1, <2>4, <3>4 DEF TokenBooks, BooksInv
    <2> QED  BY <2>5, <2>6
  <1> QED  BY <1>5, <1>9, <1>10

\* A step that moves no money of the marketplace, and after which the pool still
\* holds the claims on it.
LEMMA MoneyKept ==
  ASSUME KoraInv, PoolTypeOK', BooksInv, UNCHANGED moneyVars, ListingTypes', LedgerTyped', Balanced,
         \A id \in Ids : /\ listings'[id].token = listings[id].token
                         /\ listings'[id].exists = listings[id].exists
                         /\ listings'[id].funded_amount = listings[id].funded_amount
  PROVE  MoneyTypes' /\ Untouched' /\ \A t \in Tokens : TokenBooks(t)'
  <1>1. MoneyTypes'
    BY DEF BooksInv, MoneyTypes, ListingTypes, moneyVars
  <1>2. Untouched'
    BY DEF BooksInv, Untouched, moneyVars
  <1>3. ASSUME NEW t \in Tokens PROVE TokenBooks(t)'
    <2>1. /\ FundedIn(t)' = FundedIn(t) /\ ContributedIn(t)' = ContributedIn(t)
          /\ UnclaimedIn(t)' = UnclaimedIn(t) /\ collected' = collected
      BY SumsKept DEF moneyVars
    <2>2. /\ pool_balance[t] = Claims(t) + UnclaimedIn(t) /\ Claims(t) \in Int
          /\ UnclaimedIn(t) \in Int
      BY ClaimsTyped, SumsTyped DEF BooksInv, TokenBooks, Held, KoraInv, PoolInv
    <2>3. pool_balance'[t] \in Int /\ Claims(t)' \in Int
      <3> DEFINE f == [id \in Ids |-> net'[id][t]]
                 g == [id \in Ids |-> EscrowOf(id, t)']
      <3>1. \A id \in Ids : f[id] \in Int /\ g[id] \in Int
        BY DEF LedgerTyped, PoolTypeOK, EscrowOf, Settlement
      <3> HIDE DEF f, g
      <3>2. SumFunctionOnSet(f, Ids) \in Int /\ SumFunctionOnSet(g, Ids) \in Int
        BY <3>1, IdsFinite, SumType
      <3>3. NetIn(t)' \in Int /\ EscrowedIn(t)' \in Int
        BY <3>2 DEF NetIn, EscrowedIn, f, g
      <3> QED  BY <3>3 DEF LedgerTyped, Claims
    <2>4. pool_balance'[t] - Claims(t)' = pool_balance[t] - Claims(t)
      BY DEF Balanced
    <2>5. Held(t)'
      BY <2>1, <2>2, <2>3, <2>4 DEF Held
    <2> QED  BY <2>1, <2>5 DEF BooksInv, TokenBooks
  <1> QED  BY <1>1, <1>2, <1>3

\* list_invoice: nobody has put money in the invoice yet.
LEMMA ListBooks ==
  ASSUME KoraInv, BooksInv, ListingTypes', NEW seller \in Sellers, NEW id \in Ids,
         NEW asking_price \in AskingPrices, NEW face_value \in Amounts,
         NEW token \in Tokens, NEW deadline \in Deadlines, NEW referrer \in Referrers \cup {None},
         list_invoice(seller, id, asking_price, face_value, token, deadline, referrer)
  PROVE  MoneyTypes' /\ Untouched' /\ \A t \in Tokens : TokenBooks(t)'
  <1>1. /\ ~listings[id].exists
        /\ listings'[id].exists /\ listings'[id].funded_amount = 0
        /\ \A k \in Ids \ {id} : listings'[k] = listings[k]
        /\ UNCHANGED <<contribution, claimed, collected, pool_balance, net, pools, settlement>>
    BY DEF KoraInv, ListingTypes, list_invoice, moneyVars, poolVars
  <1>2. MoneyTypes /\ Untouched
    BY DEF BooksInv
  <1>3. MoneyTypes' /\ Untouched'
    BY <1>1, <1>2 DEF MoneyTypes, ListingTypes, Untouched
  <1>4. OtherMoneyKept(id)
    BY <1>1 DEF OtherMoneyKept
  <1>5. Contributed(id) = 0 /\ Unclaimed(id) = 0
    <2> DEFINE f == contribution[id]
               g == [i \in Investors |-> IF claimed[id][i] THEN 0 ELSE contribution[id][i]]
    <2>1. \A i \in Investors : f[i] = 0 /\ g[i] = 0
      BY <1>1, <1>2 DEF Untouched
    <2> HIDE DEF f, g
    <2>2. SumFunctionOnSet(f, Investors) = 0 /\ SumFunctionOnSet(g, Investors) = 0
      BY <2>1, PoolAssumption, SumZero
    <2> QED  BY <2>2 DEF Contributed, Unclaimed, f, g
  <1>6. Contributed(id)' = 0 /\ Unclaimed(id)' = 0
    BY <1>1, <1>5 DEF Contributed, Unclaimed
  <1>7. listings[id].funded_amount = 0
    BY <1>1 DEF KoraInv, ListingInv, ListingAgrees, NoListing
  <1>8. ASSUME NEW t \in Tokens PROVE TokenBooks(t)'
    <2>1. /\ FundedOf(id, t) = 0 /\ FundedOf(id, t)' = 0
          /\ ContributedOf(id, t) = 0 /\ ContributedOf(id, t)' = 0
          /\ UnclaimedOf(id, t) = 0 /\ UnclaimedOf(id, t)' = 0
      BY <1>1, <1>5, <1>6, <1>7 DEF FundedOf, ContributedOf, UnclaimedOf
    <2>2. FundedIn(t) \in Nat /\ ContributedIn(t) \in Nat /\ UnclaimedIn(t) \in Nat
      BY <1>2, SumsTyped
    <2>3. /\ FundedIn(t)' = FundedIn(t) /\ ContributedIn(t)' = ContributedIn(t)
          /\ UnclaimedIn(t)' = UnclaimedIn(t)
      BY <1>2, <1>3, <1>4, <2>1, <2>2, SumsMove
    <2>4. Claims(t)' = Claims(t)
      BY <1>1, ClaimsKept DEF EscrowOf
    <2> QED  BY <1>1, <2>3, <2>4 DEF BooksInv, TokenBooks, Held
  <1> QED  BY <1>3, <1>8

\* The setters accept parts of the whole only.
LEMMA ConfigStep ==
  ASSUME ConfigInv, ConfigNext
  PROVE  ConfigInv'
  <1> USE DEF ConfigInv
  <1>1. ASSUME NEW bps \in Nat, bps <= BPS_DENOMINATOR PROVE bps \in 0..BPS_DENOMINATOR
    BY <1>1 DEF BPS_DENOMINATOR
  <1>2. ASSUME NEW bps \in FeeChoices, set_fee_bps(bps) PROVE ConfigInv'
    BY <1>1, <1>2, MarketAssumption DEF set_fee_bps
  <1>3. ASSUME NEW tier \in RiskTier, NEW bps \in TierFeeChoices, set_tier_fee_bps(tier, bps)
        PROVE  ConfigInv'
    BY <1>1, <1>3, MarketAssumption DEF set_tier_fee_bps
  <1>4. ASSUME NEW bps \in ReferrerSplits, set_referrer_split_bps(bps) PROVE ConfigInv'
    BY <1>1, <1>4, MarketAssumption DEF set_referrer_split_bps
  <1>5. ASSUME NEW token \in Tokens, whitelist_token(token) \/ remove_token_whitelist(token)
        PROVE  ConfigInv'
    BY <1>5 DEF whitelist_token, remove_token_whitelist
  <1>6. ASSUME NEW seller \in Sellers, register_sme(seller) PROVE ConfigInv'
    BY <1>6 DEF register_sme
  <1> QED  BY <1>2, <1>3, <1>4, <1>5, <1>6 DEF ConfigNext

\* Every step of the marketplace keeps the books.
LEMMA MarketplaceBooks ==
  ASSUME KoraInv, KoraInv', BooksInv, MarketplaceStep
  PROVE  BooksInv'
  <1>1. UNCHANGED envVars /\ ListingTypes' /\ PoolTypeOK' /\ PoolInv
    BY DEF MarketplaceStep, KoraInv, PoolInv
  <1>3. CASE ConfigNext /\ UNCHANGED <<listings, moneyVars, cancelVars, nftVars, poolVars, pool_balance>>
    <2>1. ConfigInv'
      BY <1>3, ConfigStep DEF BooksInv
    <2>2. LedgerTyped' /\ Balanced
      BY <1>3, LedgerKept DEF BooksInv, poolVars
    <2>3. SharesInv'
      BY <1>3 DEF BooksInv, SharesInv, poolVars, careVars
    <2>4. MoneyTypes' /\ Untouched' /\ \A t \in Tokens : TokenBooks(t)'
      BY <1>1, <1>3, <2>2, MoneyKept
    <2> QED  BY <2>1, <2>2, <2>3, <2>4 DEF BooksInv
  <1>4. CASE ListingNext
    <2> PICK seller \in Sellers, id \in Ids, asking_price \in AskingPrices,
             face_value \in Amounts, token \in Tokens, deadline \in Deadlines,
             referrer \in Referrers \cup {None} :
               list_invoice(seller, id, asking_price, face_value, token, deadline, referrer)
      BY <1>4 DEF ListingNext
    <2>1. MoneyTypes' /\ Untouched' /\ \A t \in Tokens : TokenBooks(t)'
      BY <1>1, ListBooks
    <2>2. ConfigInv' /\ LedgerTyped' /\ SharesInv'
      BY DEF list_invoice, BooksInv, ConfigInv, configVars, LedgerTyped, SharesInv, poolVars, careVars
    <2> QED  BY <2>1, <2>2 DEF BooksInv
  <1>5. CASE FundingNext
    <2> PICK i \in Investors, id \in Ids, amount \in FundAmounts : fund_invoice(i, id, amount)
      BY <1>5 DEF FundingNext
    <2>1. /\ MoneyTypes' /\ Untouched' /\ \A t \in Tokens : TokenBooks(t)'
          /\ pool_balance' \in [Tokens -> Int]
      BY <1>1, FundBooks
    <2>2. UNCHANGED <<net, positions, whole, irregular>>
      BY DEF fund_invoice, release_funds, poolVars, careVars
    <2>3. ConfigInv'
      BY DEF fund_invoice, BooksInv, ConfigInv, configVars
    <2>4. LedgerTyped' /\ SharesInv'
      BY <2>1, <2>2 DEF BooksInv, LedgerTyped, SharesInv
    <2> QED  BY <2>1, <2>3, <2>4 DEF BooksInv
  <1>6. CASE CancelNext /\ UNCHANGED <<configVars, moneyVars, nftVars, poolVars, pool_balance>>
    <2>1. ConfigInv' /\ SharesInv'
      BY <1>6 DEF BooksInv, ConfigInv, configVars, SharesInv, poolVars, careVars
    <2>2. LedgerTyped' /\ Balanced
      BY <1>6, LedgerKept DEF BooksInv, poolVars
    <2>3. \E id \in Ids : Deactivate(id) \/ UNCHANGED listings
      BY <1>6 DEF CancelNext, cancel_listing, request_cancellation, admin_confirm_cancellation
    <2>4. \A id \in Ids : /\ listings'[id].token = listings[id].token
                          /\ listings'[id].exists = listings[id].exists
                          /\ listings'[id].funded_amount = listings[id].funded_amount
      BY <2>3 DEF Deactivate, KoraInv, ListingTypes, Listing
    <2>5. MoneyTypes' /\ Untouched' /\ \A t \in Tokens : TokenBooks(t)'
      BY <1>1, <1>6, <2>2, <2>4, MoneyKept
    <2> QED  BY <2>1, <2>2, <2>5 DEF BooksInv
  <1>7. CASE RefundNext
    <2> PICK i \in Investors, id \in Ids : claim_refund(i, id)
      BY <1>7 DEF RefundNext
    <2>1. /\ MoneyTypes' /\ Untouched' /\ \A t \in Tokens : TokenBooks(t)'
          /\ pool_balance' \in [Tokens -> Int]
      BY <1>1, RefundBooks
    <2>2. ConfigInv' /\ LedgerTyped' /\ SharesInv'
      BY <2>1 DEF claim_refund, BooksInv, ConfigInv, configVars, LedgerTyped, SharesInv, poolVars, careVars
    <2> QED  BY <2>1, <2>2 DEF BooksInv
  <1> QED  BY <1>3, <1>4, <1>5, <1>6, <1>7 DEF MarketplaceStep

\* Every step of the protocol keeps the books.
LEMMA BooksStep ==
  ASSUME KoraInv, BooksInv, [Next]_vars
  PROVE  BooksInv'
  <1>1. KoraInv'
    BY KoraNextInv
  <1>2. PoolInv /\ PoolInv' /\ ListingTypes' /\ PoolTypeOK'
    BY <1>1 DEF KoraInv, PoolInv
  <1>3. CASE MarketplaceStep
    BY <1>1, <1>3, MarketplaceBooks
  <1>4. CASE PoolStep /\ UNCHANGED marketVars
    <2>1. LedgerTyped' /\ Balanced
      BY <1>2, <1>4, PoolStepBalanced DEF BooksInv
    <2>2. SharesInv'
      BY <1>2, <1>4, SharesStep DEF BooksInv
    <2>4. ConfigInv'
      BY <1>4 DEF BooksInv, ConfigInv, marketVars, configVars
    <2>5. MoneyTypes' /\ Untouched' /\ \A t \in Tokens : TokenBooks(t)'
      BY <1>2, <1>4, <2>1, MoneyKept DEF marketVars
    <2> QED  BY <2>1, <2>2, <2>4, <2>5 DEF BooksInv
  <1>5. CASE (NftStep \/ UNCHANGED <<envVars, nftVars>>)
             /\ UNCHANGED <<poolVars, pool_balance, marketVars>>
    <2>1. LedgerTyped' /\ Balanced
      BY <1>5, LedgerKept DEF BooksInv, poolVars
    <2>2. SharesInv'
      BY <1>5 DEF BooksInv, SharesInv, poolVars, careVars
    <2>4. ConfigInv'
      BY <1>5 DEF BooksInv, ConfigInv, marketVars, configVars
    <2>5. MoneyTypes' /\ Untouched' /\ \A t \in Tokens : TokenBooks(t)'
      BY <1>2, <1>5, <2>1, MoneyKept DEF marketVars
    <2> QED  BY <2>1, <2>2, <2>4, <2>5 DEF BooksInv
  <1> QED  BY <1>3, <1>4, <1>5 DEF Next, vars

\* No money has moved in the initial state.
LEMMA BooksInitInv ==
  ASSUME Init
  PROVE  BooksInv /\ \A id \in Ids : Covered(id)
  <1>1. PoolSystemInit /\ MarketInit
    BY DEF Init, PoolSystemInit
  <1>2. LedgerInv /\ \A id \in Ids : Covered(id)
    BY <1>1, LedgerInitInv
  <1>3. ConfigInv
    <2>1. fee_bps \in 0..BPS_DENOMINATOR
      BY <1>1, Zenon DEF MarketInit
    <2> QED  BY <1>1, <2>1 DEF MarketInit, ConfigInv, BPS_DENOMINATOR
  <1>4. MoneyTypes /\ Untouched
    BY <1>1, KoraInitInv DEF MarketInit, MoneyTypes, Untouched, KoraInv, ListingTypes
  <1>5. ASSUME NEW t \in Tokens PROVE TokenBooks(t)
    <2> DEFINE f == [id \in Ids |-> FundedOf(id, t)]
               c == [id \in Ids |-> ContributedOf(id, t)]
               u == [id \in Ids |-> UnclaimedOf(id, t)]
    <2>1. \A id \in Ids : listings[id].token # t
      BY <1>1, PoolAssumption DEF MarketInit, NoListing
    <2>2. \A id \in Ids : f[id] = 0 /\ c[id] = 0 /\ u[id] = 0
      BY <2>1 DEF FundedOf, ContributedOf, UnclaimedOf
    <2> HIDE DEF f, c, u
    <2>3. /\ SumFunctionOnSet(f, Ids) = 0
          /\ SumFunctionOnSet(c, Ids) = 0
          /\ SumFunctionOnSet(u, Ids) = 0
      BY <2>2, IdsFinite, SumZero
    <2>4. FundedIn(t) = 0 /\ ContributedIn(t) = 0 /\ UnclaimedIn(t) = 0
      BY <2>3 DEF FundedIn, ContributedIn, UnclaimedIn, f, c, u
    <2>5. collected[t] = 0 /\ pool_balance[t] = 0 /\ pool_balance[t] = Claims(t)
      BY <1>1, <1>2 DEF MarketInit, PoolSystemInit, PoolInit, LedgerInv
    <2> QED  BY <2>4, <2>5 DEF TokenBooks, Held
  <1> QED  BY <1>2, <1>3, <1>4, <1>5 DEF BooksInv, LedgerInv

\* The books hold in every reachable state.
LEMMA BooksInvariant == Spec => []BooksInv
  <1>1. Init => BooksInv
    BY BooksInitInv
  <1>2. KoraInv /\ BooksInv /\ [Next]_vars => BooksInv'
    BY BooksStep
  <1> QED  BY <1>1, <1>2, KoraInvariant, PTL DEF Spec

-----------------------------------------------------------------------------
(* The theorems about the types and the money.                              *)

\* list_invoice stores a referrer or none.
ReferrersTyped == referrers \in [Ids -> Referrers \cup {None}]

\* No other call writes a referrer.
LEMMA ReferrersStep ==
  ASSUME ReferrersTyped, [Next]_vars
  PROVE  ReferrersTyped'
  <1>1. CASE UNCHANGED referrers
    BY <1>1 DEF ReferrersTyped
  <1>2. CASE ListingNext
    BY <1>2 DEF ListingNext, list_invoice, ReferrersTyped
  <1> QED
    BY <1>1, <1>2 DEF Next, vars, marketVars, MarketplaceStep, FundingNext, fund_invoice,
       RefundNext, claim_refund

\* The storage of the three contracts stays well formed.
THEOREM KoraTypeCorrect == Spec => []TypeOK
  <1>1. KoraInv /\ BooksInv /\ ReferrersTyped => TypeOK
    BY DEF KoraInv, PoolInv, NftInv, TypeOK, MarketTypeOK, BooksInv, ConfigInv, MoneyTypes,
       ListingTypes, ReferrersTyped
  <1>2. Init => ReferrersTyped
    BY DEF Init, MarketInit, ReferrersTyped
  <1>3. ReferrersTyped /\ [Next]_vars => ReferrersTyped'
    BY ReferrersStep
  <1> QED  BY <1>1, <1>2, <1>3, KoraInvariant, BooksInvariant, PTL DEF Spec

\* fund_invoice loses nothing to rounding, in any number of listings and tokens.
THEOREM KoraFundingAccounted == Spec => []FundingAccounted
  <1>1. BooksInv => FundingAccounted
    BY DEF BooksInv, TokenBooks, FundingAccounted
  <1> QED  BY <1>1, BooksInvariant, PTL

\* What FeeAtRate says of one step.
FeeStep ==
    \A id \in Ids :
        LET token == listings[id].token
            amount == listings'[id].funded_amount - listings[id].funded_amount
        IN  amount > 0 =>
              FeeOfRate(collected'[token] - collected[token], amount,
                        EffectiveFeeBps(id), UnitOf(Decimals[token]))

\* A step that funds nothing charges nothing.
LEMMA NothingFunded ==
  ASSUME KoraInv,
         \A id \in Ids : \/ listings'[id].funded_amount = listings[id].funded_amount
                         \/ listings'[id].funded_amount = 0
  PROVE  FeeStep
  <1>1. \A id \in Ids : listings[id].funded_amount \in Nat
    BY DEF KoraInv, ListingTypes, Listing
  <1>2. \A id \in Ids : ~(listings'[id].funded_amount - listings[id].funded_amount > 0)
    BY <1>1
  <1> QED  BY <1>2 DEF FeeStep

\* The contribution that raises the funded amount pays the fee of the moment.
LEMMA FundingCharges ==
  ASSUME KoraInv, BooksInv, NEW i \in Investors, NEW id \in Ids,
         NEW amount \in FundAmounts, fund_invoice(i, id, amount)
  PROVE  FeeStep
  <1> DEFINE token == listings[id].token
  <1>1. PICK fee \in Nat :
          /\ amount \in Nat /\ token \in Tokens
          /\ FeeOfRate(fee, amount, EffectiveFeeBps(id), UnitOf(Decimals[token]))
          /\ listings'[id].funded_amount = listings[id].funded_amount + amount
          /\ collected' = [collected EXCEPT ![token] = @ + fee]
          /\ \A k \in Ids \ {id} : listings'[k] = listings[k]
    BY FundInvoiceMoves
  <1>2. collected[token] \in Nat /\ \A k \in Ids : listings[k].funded_amount \in Nat
    BY <1>1 DEF BooksInv, MoneyTypes, Listing
  <1>3. collected'[token] - collected[token] = fee
    <2>1. collected'[token] = collected[token] + fee
      BY <1>1 DEF BooksInv, MoneyTypes
    <2> QED  BY <1>2, <2>1
  <1>4. listings'[id].funded_amount - listings[id].funded_amount = amount
    BY <1>1, <1>2
  <1>5. \A k \in Ids \ {id} : ~(listings'[k].funded_amount - listings[k].funded_amount > 0)
    BY <1>1, <1>2
  <1> QED  BY <1>1, <1>3, <1>4, <1>5 DEF FeeStep

\* fund_invoice charges the fee in force, rounded down to the token's unit,
\* whatever the decimals of the token and the fees the admin chooses.
THEOREM KoraFeeAtRate == Spec => FeeAtRate
  <1>1. KoraInv /\ BooksInv /\ [Next]_vars => [FeeStep]_vars
    <2> SUFFICES ASSUME KoraInv, BooksInv, [Next]_vars PROVE FeeStep
      OBVIOUS
    <2>1. listings \in [Ids -> Listing]
      BY DEF KoraInv, ListingTypes
    <2>2. CASE UNCHANGED listings
      BY <2>2, NothingFunded
    <2>3. CASE FundingNext
      BY <2>3, FundingCharges DEF FundingNext
    <2>4. CASE ListingNext
      BY <2>1, <2>4, NothingFunded DEF ListingNext, list_invoice
    <2>5. CASE CancelNext
      <3>1. \E id \in Ids : Deactivate(id) \/ UNCHANGED listings
        BY <2>5 DEF CancelNext, cancel_listing, request_cancellation, admin_confirm_cancellation
      <3>2. \A id \in Ids : listings'[id].funded_amount = listings[id].funded_amount
        BY <2>1, <3>1 DEF Deactivate, Listing
      <3> QED  BY <3>2, NothingFunded
    <2> QED
      BY <2>2, <2>3, <2>4, <2>5 DEF Next, vars, marketVars, MarketplaceStep, RefundNext,
         claim_refund
  <1>2. Spec => [][FeeStep]_vars
    BY <1>1, KoraInvariant, BooksInvariant, PTL DEF Spec
  <1> QED  BY <1>2, PTL DEF FeeAtRate, FeeStep

\* The pool's balance is exactly what its invoices brought in and escrow, and
\* what the investors were not paid back, whatever tokens and prices there are.
THEOREM KoraLedgerExact == Spec => [](\A t \in Tokens : Held(t))
  <1>1. BooksInv => \A t \in Tokens : Held(t)
    BY DEF BooksInv, TokenBooks
  <1> QED  BY <1>1, BooksInvariant, PTL

\* Every invoice stays covered or is noted as irregular, also while the marketplace
\* moves contributions and refunds.
LEMMA KoraCoveredStep ==
  ASSUME KoraInv, BooksInv, \A id \in Ids : Covered(id), [Next]_vars
  PROVE  \A id \in Ids : Covered(id)'
  <1>1. PoolInv /\ PoolInv'
    BY KoraNextInv DEF KoraInv
  <1>2. CASE PoolStep
    BY <1>1, <1>2, PoolStepCovered DEF BooksInv
  <1>3. CASE UNCHANGED poolVars
    BY <1>3, CoveredKept DEF BooksInv, poolVars, careVars
  <1>4. CASE FundingNext
    <2> PICK i \in Investors, id \in Ids, amount \in FundAmounts : fund_invoice(i, id, amount)
      BY <1>4 DEF FundingNext
    <2>1. CASE release_funds(id, listings[id].token)
      <3>1. UNCHANGED <<net, distributions, irregular>>
        BY <2>1 DEF release_funds, careVars
      <3>2. listings[id].token \in Tokens
        BY DEF fund_invoice, KoraInv, ListingInv, ListingAgrees
      <3>3. \A k \in Ids : \/ pools'[k] = pools[k]
                           \/ pools'[k].repaid_amount = 0 /\ pools'[k].token \in Tokens
        BY <1>1, <2>1, <3>2 DEF release_funds, NoPool, PoolInv, PoolTypeOK
      <3> QED  BY <3>1, <3>3, CoveredKept DEF BooksInv
    <2>2. CASE UNCHANGED poolVars
      BY <1>3, <2>2
    <2> QED  BY <2>1, <2>2 DEF fund_invoice
  <1> QED
    BY <1>2, <1>3, <1>4 DEF Next, vars, MarketplaceStep, ListingNext, list_invoice, RefundNext,
       claim_refund

\* Also in the whole protocol, distribute_yield pays an invoice's investors with
\* that invoice's own tokens only, never with a contribution waiting for a refund,
\* unless the invoice itself was irregular.
THEOREM KoraPaysOnlyWhatCameIn == Spec => []PaysOnlyWhatCameIn
  <1>1. Init => \A id \in Ids : Covered(id)
    BY BooksInitInv
  <1>2. KoraInv /\ BooksInv /\ (\A id \in Ids : Covered(id)) /\ [Next]_vars
        => (\A id \in Ids : Covered(id))'
    BY KoraCoveredStep
  <1>3. (\A id \in Ids : Covered(id)) => PaysOnlyWhatCameIn
    BY DEF Covered, PaysOnlyWhatCameIn
  <1> QED  BY <1>1, <1>2, <1>3, KoraInvariant, BooksInvariant, PTL DEF Spec

\* Every refund that may be claimed and every escrow is in the pool, at any time,
\* but for what the irregular invoices have overdrawn.
THEOREM KoraRefundsBacked == Spec => []RefundsBacked
  <1>1. KoraInv /\ BooksInv /\ PaysOnlyWhatCameIn => RefundsBacked
    <2> SUFFICES ASSUME KoraInv, BooksInv, PaysOnlyWhatCameIn, NEW t \in Tokens
                 PROVE  pool_balance[t] + Overdrawn(t) >= EscrowedIn(t) + RefundableIn(t)
      BY DEF RefundsBacked
    <2> DEFINE r == [id \in Ids |-> RefundableOf(id, t)]
               u == [id \in Ids |-> UnclaimedOf(id, t)]
    <2>1. NetIn(t) \in Int /\ Overdrawn(t) \in Nat /\ NetIn(t) + Overdrawn(t) >= 0
      BY NetAboveOverdraft DEF KoraInv, BooksInv
    <2>2. ASSUME NEW id \in Ids PROVE r[id] \in Int /\ u[id] \in Int /\ r[id] <= u[id]
      <3>1. Unclaimed(id) \in Nat /\ UnclaimedOf(id, t) \in Nat
        BY PartsTyped DEF BooksInv
      <3> QED  BY <3>1 DEF RefundableOf, UnclaimedOf
    <2> HIDE DEF r, u
    <2>4. SumFunctionOnSet(r, Ids) <= SumFunctionOnSet(u, Ids)
      BY <2>2, IdsFinite, SumMonotone
    <2>5. SumFunctionOnSet(r, Ids) \in Int /\ SumFunctionOnSet(u, Ids) \in Int
      BY <2>2, IdsFinite, SumType
    <2>6. EscrowedIn(t) \in Int
      BY ClaimsTyped DEF KoraInv, PoolInv, BooksInv
    <2>7. RefundableIn(t) \in Int /\ UnclaimedIn(t) \in Int /\ RefundableIn(t) <= UnclaimedIn(t)
      BY <2>4, <2>5 DEF RefundableIn, UnclaimedIn, r, u
    <2>8. pool_balance[t] = NetIn(t) + EscrowedIn(t) + UnclaimedIn(t)
      BY DEF BooksInv, TokenBooks, Held, Claims
    <2> QED  BY <2>1, <2>6, <2>7, <2>8
  <1> QED  BY <1>1, KoraInvariant, BooksInvariant, KoraPaysOnlyWhatCameIn, PTL

-----------------------------------------------------------------------------
(* What is promised of pool and NFT contract holds with the marketplace too. *)

\* What a call of the marketplace does to the other two contracts: nothing, the
\* listing of an invoice, or the opening of its pool.
LEMMA MarketplaceCalls ==
  ASSUME KoraInv, MarketplaceStep
  PROVE  \/ UNCHANGED <<nftVars, poolVars>>
         \/ \E id \in Ids : set_listed(MarketplaceAddr, id) /\ UNCHANGED poolVars
         \/ \E id \in Ids, token \in Tokens : release_funds(id, token)
  <1>1. CASE ListingNext
    BY <1>1 DEF ListingNext, list_invoice
  <1>2. CASE FundingNext
    <2> PICK i \in Investors, id \in Ids, amount \in FundAmounts : fund_invoice(i, id, amount)
      BY <1>2 DEF FundingNext
    <2>1. listings[id].token \in Tokens
      BY DEF fund_invoice, KoraInv, ListingInv, ListingAgrees
    <2> QED  BY <2>1 DEF fund_invoice
  <1>3. CASE UNCHANGED <<nftVars, poolVars>>
    BY <1>3
  <1> QED  BY <1>1, <1>2, <1>3 DEF MarketplaceStep, RefundNext, claim_refund

\* A step of the protocol that is not the marketplace's is one of the system of
\* pool and NFT contract.
LEMMA OtherSteps ==
  ASSUME [Next]_vars
  PROVE  MarketplaceStep \/ [PoolNext]_allPoolVars
  BY DEF Next, vars, PoolNext, allPoolVars

\* The shares of a pool stay within the whole while the marketplace opens pools.
THEOREM KoraSharesWithinWhole == Spec => []SharesWithinWhole
  <1>1. KoraInv /\ BooksInv => SharesWithinWhole
    BY WithinPoolShares
    DEF KoraInv, BooksInv, PoolInv, PoolTypeOK, SharesInv, SharesWithinWhole, TotalShares
  <1> QED  BY <1>1, KoraInvariant, BooksInvariant, PTL

\* mark_default reports an SME at most once per defaulted invoice, also when the
\* invoice was sold in the marketplace.
THEOREM KoraDefaultsReportedOnce == Spec => []DefaultsReportedOnce
  <1>1. Init => DefaultsReportedOnce
    BY DefaultsInitInv DEF Init, PoolSystemInit
  <1>2. KoraInv /\ DefaultsReportedOnce /\ [Next]_vars => DefaultsReportedOnce'
    <2> SUFFICES ASSUME KoraInv, DefaultsReportedOnce, [Next]_vars PROVE DefaultsReportedOnce'
      OBVIOUS
    <2>1. PoolInv /\ invoices \in [Ids -> Invoice]
      BY DEF KoraInv, PoolInv, NftInv, NftTypeOK
    <2>2. CASE [PoolNext]_allPoolVars
      BY <2>1, <2>2, DefaultsStep
    <2>3. CASE UNCHANGED <<nftVars, poolVars>>
      BY <2>1, <2>3, DefaultsKept DEF nftVars, poolVars
    <2>4. ASSUME NEW id \in Ids, set_listed(MarketplaceAddr, id), UNCHANGED poolVars
          PROVE  DefaultsReportedOnce'
      BY <2>1, <2>4, DefaultsKept DEF set_listed, HasStatus, poolVars
    <2>5. ASSUME NEW id \in Ids, NEW token \in Tokens, release_funds(id, token)
          PROVE  DefaultsReportedOnce'
      BY <2>1, <2>5, DefaultsKept DEF release_funds, set_funded, HasStatus
    <2> QED  BY <2>2, <2>3, <2>4, <2>5, OtherSteps, MarketplaceCalls
  <1> QED  BY <1>1, <1>2, KoraInvariant, PTL DEF Spec

\* The pool contract moves an invoice on without touching its terms.
LEMMA PoolKeepsTerms ==
  ASSUME PoolInv, PoolStep
  PROVE  TermsKept
  <1>1. NftInv /\ invoices \in [Ids -> Invoice]
    BY DEF PoolInv, NftInv, NftTypeOK
  <1>2. CASE UNCHANGED invoices
    BY <1>2 DEF TermsKept, Terms
  <1>3. ASSUME NEW id \in Ids, NEW caller, set_funded(caller, id) \/ set_repaid(caller, id)
        PROVE  TermsKept
    BY <1>1, <1>3, SettersKeepTerms
  <1>4. ASSUME NEW id \in Ids, set_defaulted(id)
        PROVE  TermsKept
    BY <1>1, <1>4 DEF set_defaulted, TermsKept, Terms, Invoice
  <1>5. CASE RecordNext \/ CapNext \/ MarketNext
    BY <1>2, <1>5 DEF RecordNext, CapNext, MarketNext, record_position,
       set_max_position_bps, list_position_for_sale, buy_position, nftVars
  <1>6. CASE OpenNext
    BY <1>3, <1>6 DEF OpenNext, release_funds
  <1>7. CASE RepayNext
    BY <1>2, <1>3, <1>7 DEF RepayNext, repay, nftVars
  <1>8. CASE DefaultNext
    BY <1>4, <1>8 DEF DefaultNext, mark_default
  <1>9. CASE SettlementNext
    BY <1>2, <1>3, <1>9 DEF SettlementNext, propose_early_settlement, accept_early_settlement,
       AddAcceptance, SettleEarly, cancel_early_settlement, nftVars
  <1> QED  BY <1>5, <1>6, <1>7, <1>8, <1>9 DEF PoolStep

\* In the whole protocol the terms investors saw at the listing stay the terms:
\* no call of SME, marketplace, pool or admin changes them afterwards.
THEOREM KoraTermsFixed == Spec => TermsFixedOnceListed
  <1>1. KoraInv /\ [Next]_vars => [TermsKept]_invoices
    <2> SUFFICES ASSUME KoraInv, [Next]_vars, invoices' # invoices PROVE TermsKept
      OBVIOUS
    <2>1. PoolInv /\ NftInv
      BY DEF KoraInv, PoolInv
    <2>2. CASE PoolStep
      BY <2>1, <2>2, PoolKeepsTerms
    <2>3. CASE NftStep
      BY <2>1, <2>3, OwnNextKeepsTerms DEF NftStep, nftVars
    <2>4. CASE MarketplaceStep
      <3>1. ASSUME NEW id \in Ids, NEW token \in Tokens, release_funds(id, token)
            PROVE  TermsKept
        BY <2>1, <3>1, SettersKeepTerms DEF release_funds
      <3>2. ASSUME NEW id \in Ids, set_listed(MarketplaceAddr, id)
            PROVE  TermsKept
        BY <2>1, <3>2, SettersKeepTerms
      <3> QED  BY <2>4, <3>1, <3>2, MarketplaceCalls DEF nftVars
    <2> QED  BY <2>2, <2>3, <2>4 DEF Next, vars, nftVars
  <1>2. Spec => [][TermsKept]_invoices
    BY <1>1, KoraInvariant, PTL DEF Spec
  <1> QED  BY <1>2, PTL DEF TermsFixedOnceListed, TermsKept

-----------------------------------------------------------------------------
(* Nobody else can take away an investor's or an SME's right to its money.  *)

\* The conditions the marketplace puts on claim_refund: all but the pool's
\* authorization of the transfer and its balance.
RefundDue(i, id) ==
    /\ listings[id].exists
    /\ RefundOpen(id)
    /\ ~claimed[id][i]
    /\ contribution[id][i] > 0

RefundPayable(i, id) ==
    LET token == listings[id].token
    IN  RefundDue(i, id) /\ pool_balance[token] + Overdrawn(token) >= contribution[id][i]

\* A refund that is due stays due and in the pool, but for overdrafts, until the
\* investor has claimed it.
RefundStays ==
    [][\A id \in Ids, i \in Investors :
          RefundDue(i, id) => claimed'[id][i] \/ RefundPayable(i, id)']_vars

\* The conditions of cancel_early_settlement, for the invoice's SME.
EscrowReturnable ==
    \A id \in Ids : HasSettlement(id) =>
        /\ MayCancelSettlement(invoices[id].sme, id)
        /\ pool_balance[pools[id].token] + Overdrawn(pools[id].token) >= settlement[id].amount

\* What is overdrawn is a number.
LEMMA OverdraftTyped ==
  ASSUME LedgerTyped, NEW t \in Tokens
  PROVE  Overdrawn(t) \in Int
  <1> DEFINE g == [id \in Ids |-> OverdraftOf(id, t)]
  <1>1. \A id \in Ids : g[id] \in Int
    BY DEF LedgerTyped, OverdraftOf
  <1> HIDE DEF g
  <1>2. SumFunctionOnSet(g, Ids) \in Int
    BY <1>1, IdsFinite, SumType
  <1> QED  BY <1>2 DEF Overdrawn, g

\* A due refund is one of the refunds the pool's balance backs.
LEMMA DueIsPayable ==
  ASSUME KoraInv, BooksInv, RefundsBacked, NEW id \in Ids, NEW i \in Investors, RefundDue(i, id)
  PROVE  RefundPayable(i, id)
  <1> DEFINE t == listings[id].token
             open == [k \in Investors |-> IF claimed[id][k] THEN 0 ELSE contribution[id][k]]
             r == [k \in Ids |-> RefundableOf(k, t)]
  <1>1. t \in Tokens
    BY DEF RefundDue, KoraInv, ListingInv, ListingAgrees
  <1>2. \A k \in Investors : open[k] \in Nat
    BY DEF BooksInv, MoneyTypes
  <1>3. open[i] = contribution[id][i]
    BY DEF RefundDue
  <1>4. open[i] <= SumFunctionOnSet(open, Investors)
    <2> HIDE DEF open
    <2> QED  BY <1>2, PoolAssumption, SumAtLeast
  <1>5. contribution[id][i] <= Unclaimed(id)
    BY <1>3, <1>4 DEF Unclaimed
  <1>6. RefundableOf(id, t) = Unclaimed(id)
    BY DEF RefundableOf, RefundDue, RefundOpen
  <1>7. \A k \in Ids : r[k] \in Nat
    BY <1>1, PartsTyped DEF RefundableOf, BooksInv
  <1>8. r[id] <= SumFunctionOnSet(r, Ids)
    <2> HIDE DEF r
    <2> QED  BY <1>7, IdsFinite, SumAtLeast
  <1>9. Unclaimed(id) <= RefundableIn(t)
    BY <1>6, <1>8 DEF RefundableIn
  <1>10. pool_balance[t] + Overdrawn(t) >= EscrowedIn(t) + RefundableIn(t)
    BY <1>1 DEF RefundsBacked
  <1>11. EscrowedIn(t) \in Nat
    <2> DEFINE e == [k \in Ids |-> EscrowOf(k, t)]
    <2>1. \A k \in Ids : e[k] \in Nat
      BY <1>1, ClaimsTyped DEF KoraInv, PoolInv, BooksInv
    <2> HIDE DEF e
    <2>2. SumFunctionOnSet(e, Ids) \in Nat
      BY <2>1, IdsFinite, SumNat
    <2> QED  BY <2>2 DEF EscrowedIn, e
  <1>12. RefundableIn(t) \in Nat
    <2> HIDE DEF r
    <2>1. SumFunctionOnSet(r, Ids) \in Nat
      BY <1>7, IdsFinite, SumNat
    <2> QED  BY <2>1 DEF RefundableIn, r
  <1>13. /\ contribution[id][i] \in Nat /\ Unclaimed(id) \in Nat /\ pool_balance[t] \in Int
         /\ Overdrawn(t) \in Int
    BY <1>1, <1>2, <1>3, PartsTyped, OverdraftTyped DEF KoraInv, BooksInv, LedgerTyped
  <1> HIDE DEF t
  <1>14. pool_balance[t] + Overdrawn(t) >= contribution[id][i]
    BY <1>5, <1>9, <1>10, <1>11, <1>12, <1>13
  <1> QED  BY <1>14 DEF RefundPayable, t

\* No call but the investor's own ends a refund that is due: the listing can no
\* longer be completed, and neither the pause nor the admin is asked.
LEMMA DueStays ==
  ASSUME KoraInv, BooksInv, [Next]_vars, NEW id \in Ids, NEW i \in Investors, RefundDue(i, id)
  PROVE  claimed'[id][i] \/ RefundDue(i, id)'
  <1>1. /\ now \in Nat /\ listings \in [Ids -> Listing]
        /\ contribution \in [Ids -> [Investors -> Nat]]
        /\ claimed \in [Ids -> [Investors -> BOOLEAN]]
    BY DEF KoraInv, ListingTypes, PoolInv, NftInv, NftTypeOK, EnvTypeOK, BooksInv, MoneyTypes
  <1>2. cancel_confirmed[id] => ~listings[id].is_active
    BY DEF KoraInv, ListingInv, ConfirmedClosed
  <1>3. listings[id].funding_deadline \in Nat
    BY <1>1 DEF Listing
  <1>4. CASE UNCHANGED marketVars /\ now' >= now /\ now' \in Nat
    BY <1>1, <1>3, <1>4 DEF RefundDue, RefundOpen, FullyFunded, marketVars, moneyVars, cancelVars
  <1>5. CASE ~UNCHANGED marketVars
    <2>1. MarketplaceStep /\ now' = now
      BY <1>5 DEF Next, vars, MarketplaceStep, envVars
    <2>2. CASE UNCHANGED <<listings, moneyVars, cancelVars>>
      BY <2>1, <2>2 DEF RefundDue, RefundOpen, FullyFunded, moneyVars, cancelVars
    <2>3. CASE ListingNext
      BY <1>1, <2>1, <2>3 DEF ListingNext, list_invoice, RefundDue, RefundOpen, FullyFunded,
         moneyVars, cancelVars
    <2>4. CASE FundingNext
      <3> PICK j \in Investors, k \in Ids, amount \in FundAmounts : fund_invoice(j, k, amount)
        BY <2>4 DEF FundingNext
      <3>1. k # id
        BY <1>1, <1>2, <1>3 DEF fund_invoice, WithinDeadline, RefundDue, RefundOpen
      <3> QED
        BY <1>1, <2>1, <3>1 DEF fund_invoice, RefundDue, RefundOpen, FullyFunded, cancelVars
    <2>5. CASE CancelNext /\ UNCHANGED moneyVars
      <3>1. \/ UNCHANGED listings
            \/ \E k \in Ids : listings' = [listings EXCEPT ![k].is_active = FALSE]
        BY <2>5 DEF CancelNext, cancel_listing, request_cancellation,
           admin_confirm_cancellation, Deactivate
      <3>2. /\ listings'[id].exists = listings[id].exists
            /\ listings'[id].funded_amount = listings[id].funded_amount
            /\ listings'[id].asking_price = listings[id].asking_price
            /\ listings'[id].funding_deadline = listings[id].funding_deadline
        BY <1>1, <3>1 DEF Listing
      <3>3. cancel_confirmed[id] => cancel_confirmed'[id]
        BY <2>5 DEF CancelNext, cancel_listing, request_cancellation,
           admin_confirm_cancellation, cancelVars, KoraInv, ListingTypes
      <3> QED
        BY <2>1, <2>5, <3>2, <3>3 DEF RefundDue, RefundOpen, FullyFunded, moneyVars
    <2>6. CASE RefundNext
      BY <1>1, <2>1, <2>6 DEF RefundNext, claim_refund, MarkClaimed, RefundDue, RefundOpen,
         FullyFunded, cancelVars
    <2> QED  BY <2>1, <2>2, <2>3, <2>4, <2>5, <2>6 DEF MarketplaceStep
  <1>6. now' >= now /\ now' \in Nat
    <2>1. now' >= now
      BY <1>1, PoolStepSafe, NftStepSafe DEF Next, vars, MarketplaceStep, envVars, KoraInv
    <2>2. KoraInv'
      BY KoraNextInv
    <2> QED  BY <2>1, <2>2 DEF KoraInv, PoolInv, NftInv, NftTypeOK, EnvTypeOK
  <1> QED  BY <1>4, <1>5, <1>6

\* Once the marketplace owes an investor a refund it goes on owing it, and the
\* pool holds it but for overdrafts, whatever anybody calls, until it is claimed.
THEOREM KoraRefundStays == Spec => RefundStays
  <1> DEFINE Step == \A id \in Ids, i \in Investors :
                       RefundDue(i, id) => claimed'[id][i] \/ RefundPayable(i, id)'
             Backed == \A id \in Ids, i \in Investors : RefundDue(i, id) => RefundPayable(i, id)
  <1>1. KoraInv /\ BooksInv /\ RefundsBacked => Backed
    BY DueIsPayable
  <1>2. KoraInv /\ BooksInv /\ Backed' /\ [Next]_vars => [Step]_vars
    BY DueStays
  <1>3. Spec => []Backed
    BY <1>1, KoraInvariant, BooksInvariant, KoraRefundsBacked, PTL
  <1>4. Spec => [][Step]_vars
    BY <1>2, <1>3, KoraInvariant, BooksInvariant, PTL DEF Spec
  <1> QED  BY <1>4, PTL DEF RefundStays

\* Whenever an offer is pending its SME may call cancel_early_settlement, also with
\* the pool closed, the invoice defaulted or the contracts paused, and the escrow is
\* in the pool but for what irregular invoices have overdrawn.
THEOREM KoraEscrowReturnable == Spec => []EscrowReturnable
  <1>1. KoraInv /\ BooksInv /\ RefundsBacked => EscrowReturnable
    <2> SUFFICES ASSUME KoraInv, BooksInv, RefundsBacked, NEW id \in Ids, HasSettlement(id)
                 PROVE  /\ MayCancelSettlement(invoices[id].sme, id)
                        /\ pool_balance[pools[id].token] + Overdrawn(pools[id].token)
                             >= settlement[id].amount
      BY DEF EscrowReturnable
    <2> DEFINE t == pools[id].token
               e == [k \in Ids |-> EscrowOf(k, t)]
               r == [k \in Ids |-> RefundableOf(k, t)]
    <2>1. pools[id].exists /\ t \in Tokens
      BY DEF KoraInv, PoolInv, InvoiceInv, PoolAgrees
    <2>2. \A k \in Ids : e[k] \in Nat /\ r[k] \in Nat
      BY <2>1, ClaimsTyped, PartsTyped DEF KoraInv, PoolInv, BooksInv, RefundableOf
    <2>3. e[id] = settlement[id].amount
      BY DEF EscrowOf
    <2>4. /\ e[id] <= SumFunctionOnSet(e, Ids)
          /\ SumFunctionOnSet(e, Ids) \in Nat /\ SumFunctionOnSet(r, Ids) \in Nat
      <3> HIDE DEF e, r
      <3> QED  BY <2>2, IdsFinite, SumAtLeast, SumNat
    <2>5. settlement[id].amount <= EscrowedIn(t) /\ EscrowedIn(t) \in Nat /\ RefundableIn(t) \in Nat
      BY <2>3, <2>4 DEF EscrowedIn, RefundableIn
    <2>6. pool_balance[t] + Overdrawn(t) >= EscrowedIn(t) + RefundableIn(t)
      BY <2>1 DEF RefundsBacked
    <2>7. settlement[id].amount \in Nat /\ pool_balance[t] \in Int /\ Overdrawn(t) \in Int
      BY <2>1, <2>2, <2>3, OverdraftTyped DEF KoraInv, BooksInv, LedgerTyped
    <2> HIDE DEF t
    <2>8. pool_balance[t] + Overdrawn(t) >= settlement[id].amount
      BY <2>5, <2>6, <2>7
    <2> QED  BY <2>1, <2>8 DEF MayCancelSettlement, t
  <1> QED  BY <1>1, KoraInvariant, BooksInvariant, KoraRefundsBacked, PTL
=============================================================================

--------------------------- MODULE MCKoraProtocol ---------------------------
(* The composed protocol on small instances.                                *)
EXTENDS KoraProtocol, TLC

\* A token with more and one with fewer decimals than the standard seven.
MCDecimals == [t \in Tokens |-> IF t = "eurc9" THEN 9 ELSE 6]

\* Bound of the run with two invoices: the switches that only block calls, and
\* the hash and sale offers that move no money, stay off; invoices are not
\* withdrawn and are listed in the order of their ids, and only the first listing
\* is cancelled; the first is listed with a referrer and the second without; a
\* listed token stays whitelisted; a tier fee is set between two contributions
\* only.
Calm ==
    /\ ~paused
    /\ \A id \in Ids :
          /\ ~frozen[id]
          /\ invoices[id].metadata_hash = None
          /\ \A i \in Investors : ~for_sale[id][i]
          /\ listings[id].exists =>
               /\ whitelisted[listings[id].token]
               /\ referrers[id] # None <=> id = 1
          /\ id < next_id => load_invoice(id)
          /\ id > 1 /\ listings[id].exists =>
               /\ listings[id - 1].exists
               /\ listings[id].is_active \/ FullyFunded(id)
               /\ ~cancel_requested[id]
    /\ \A tier \in RiskTier \ {"AAA"} : tier_fee_bps[tier] = NoFee
    /\ tier_fee_bps["AAA"] # NoFee => \E id \in Ids : listings[id].funded_amount > 0
=============================================================================

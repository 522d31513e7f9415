--------------------------- MODULE FinancingPool ---------------------------
(***************************************************************************)
(* The financing pool contract: a pool per funded invoice, the investors'  *)
(* positions, repayment and distribution, default, early settlement and    *)
(* the secondary market.  It calls the invoice NFT contract, whose         *)
(* transitions are part of the same transaction: when the NFT contract     *)
(* refuses, the pool's entry point has no effect either.                   *)
(*                                                                         *)
(* The per-invoice RepaymentLock is set and removed within one transaction *)
(* and rolled back with it, so no transaction ever starts with it set.     *)
(***************************************************************************)
EXTENDS InvoiceNft, FiniteSets, FiniteSetsExt, Functions

CONSTANTS
    Investors,         \* addresses that hold positions
    Tokens,            \* stablecoin contracts
    Decimals,          \* decimals of each token
    LatePenaltyBps,    \* fixed when the contract is initialized
    MaxPositionChoices,\* concentration caps the admin may choose
    Contributions,     \* contributions the admin may record
    TotalPools,        \* totals the admin may divide a contribution by
    RepayAmounts,      \* amounts a payer may send
    SettlementAmounts, \* amounts an SME may offer for early settlement
    MaxAggregate       \* bound: the largest AggregateFunded a record may lead to

ASSUME PoolAssumption ==
    /\ Decimals \in [Tokens -> Nat]
    /\ LatePenaltyBps \in 0..BPS_DENOMINATOR
    /\ MaxPositionChoices \subseteq Nat
    /\ MaxPositionChoices \cap 1..BPS_DENOMINATOR # {}
    /\ Contributions \subseteq Int
    /\ TotalPools \subseteq Int
    /\ RepayAmounts \subseteq Int
    /\ SettlementAmounts \subseteq Int
    /\ MaxAggregate \in Nat
    /\ None \notin Tokens
    /\ IsFiniteSet(Investors)

VARIABLES
    max_position_bps,  \* MaxPositionBps
    pools,             \* Pool(id)
    positions,         \* Positions(id): investor -> position
    for_sale,          \* SaleOffer(id, seller): whether an offer is stored
    settlement,        \* EarlySettlement(id)
    aggregate,         \* AggregateFunded(token)
    pool_balance,      \* tokens the pool's address holds
    defaults,          \* the risk registry's count of defaults of each SME
    net,               \* history: tokens invoice id brought in, less its payouts
    distributions,     \* history: how often the positions of id were paid out
    whole,             \* history: the total the first share of id is a part of
    irregular          \* history: what was done to id that no call checks

careVars == <<whole, irregular>>
poolVars == <<max_position_bps, pools, positions, for_sale, settlement,
              aggregate, defaults, net, distributions, careVars>>

\* Three things every call accepts and that let an invoice pay out more than it
\* brought in: a position recorded against another total, or beyond the total;
\* a repayment or payout in another token than the pool's; a repayment credited
\* at a price above one USDC.
Irregularities == {"record", "token", "price"}

Pool ==
    [exists: BOOLEAN, token: Tokens \cup {None}, total_funded: Nat,
     face_value: Nat, repaid_amount: Nat, is_closed: BOOLEAN,
     total_owed: Nat, penalty_applied: BOOLEAN]

NoPool ==
    [exists |-> FALSE, token |-> None, total_funded |-> 0, face_value |-> 0,
     repaid_amount |-> 0, is_closed |-> FALSE, total_owed |-> 0,
     penalty_applied |-> FALSE]

Position == [contributed: Nat, share_bps: Nat]
NoPosition == [contributed |-> 0, share_bps |-> 0]

Settlement == [amount: Nat, accepted_bps: Nat, accepted: SUBSET Investors]
NoSettlement == [amount |-> 0, accepted_bps |-> 0, accepted |-> {}]

PoolInit ==
    /\ max_position_bps \in MaxPositionChoices \cap 1..BPS_DENOMINATOR
    /\ pools = [id \in Ids |-> NoPool]
    /\ positions = [id \in Ids |-> [i \in Investors |-> NoPosition]]
    /\ for_sale = [id \in Ids |-> [i \in Investors |-> FALSE]]
    /\ settlement = [id \in Ids |-> NoSettlement]
    /\ aggregate = [t \in Tokens |-> 0]
    /\ pool_balance = [t \in Tokens |-> 0]
    /\ defaults = [s \in SMEs |-> 0]
    /\ net = [id \in Ids |-> [t \in Tokens |-> 0]]
    /\ distributions = [id \in Ids |-> 0]
    /\ whole = [id \in Ids |-> 0]
    /\ irregular = [id \in Ids |-> {}]

-----------------------------------------------------------------------------
HoldsPosition(id, i) == positions[id][i].contributed > 0
Holders(id) == {i \in Investors : HoldsPosition(id, i)}

PoolOpen(id) == pools[id].exists /\ ~pools[id].is_closed

\* A stored offer always escrows a positive amount.
HasSettlement(id) == settlement[id].amount > 0

TotalContributed(id) ==
    SumFunctionOnSet([i \in Investors |-> positions[id][i].contributed], Investors)

TotalShares(id) ==
    SumFunctionOnSet([i \in Investors |-> positions[id][i].share_bps], Investors)

-----------------------------------------------------------------------------
(* Opening a pool.  Any address that signs for itself may call it.          *)

release_funds(id, token) ==
    /\ require_not_paused
    /\ ~pools[id].exists
    /\ invoices[id].amount > 0
    /\ pools' = [pools EXCEPT ![id] =
         [NoPool EXCEPT !.exists = TRUE, !.token = token,
            !.face_value = invoices[id].amount,
            !.total_owed = invoices[id].amount]]
    /\ set_funded(PoolAddr, id)
    /\ UNCHANGED <<max_position_bps, positions, for_sale, settlement, aggregate,
                   defaults, net, distributions, careVars>>

-----------------------------------------------------------------------------
(* Positions, recorded by the admin.                                        *)

set_max_position_bps(bps) ==
    /\ bps \in 1..BPS_DENOMINATOR
    /\ max_position_bps' = bps
    /\ UNCHANGED <<pools, positions, for_sale, settlement, aggregate, defaults,
                   net, distributions, careVars>>

share_bps(contributed, total_pool) ==
    (contributed * BPS_DENOMINATOR) \div total_pool

Note(id, causes) == irregular' = [irregular EXCEPT ![id] = @ \cup causes]

\* The position is a part of the same total as the ones before it, and together
\* they do not exceed it.
RegularRecord(id, i, contributed, total_pool) ==
    /\ whole[id] \in {0, total_pool}
    /\ TotalContributed(id) - positions[id][i].contributed + contributed <= total_pool

\* Each position is checked against the total the call names, and against no
\* other position of the pool.
record_position(id, i, contributed, total_pool) ==
    /\ require_not_paused
    /\ contributed > 0
    /\ total_pool > 0
    /\ contributed <= total_pool
    /\ share_bps(contributed, total_pool) <= max_position_bps
    /\ pools[id].exists
    /\ positions' = [positions EXCEPT ![id][i] =
         [contributed |-> contributed,
          share_bps |-> share_bps(contributed, total_pool)]]
    /\ aggregate' = [aggregate EXCEPT ![pools[id].token] =
         @ - positions[id][i].contributed + contributed]
    /\ whole' = [whole EXCEPT ![id] = IF @ = 0 THEN total_pool ELSE @]
    /\ Note(id, IF RegularRecord(id, i, contributed, total_pool) THEN {} ELSE {"record"})
    /\ UNCHANGED <<max_position_bps, pools, for_sale, settlement, defaults, net,
                   distributions>>

-----------------------------------------------------------------------------
(* Repayment and distribution.                                              *)

\* The oracle's address is fixed at initialization.  Whatever the pool's token
\* is, the amount is converted from the invoice's currency to USDC.
convert_if_needed(amount, currency) == convert(amount, currency)

Payout(id, i, total, token) ==
    bps_of_normalized(total, positions[id][i].share_bps, Decimals[token])

TotalPayout(id, total, token) ==
    SumFunctionOnSet([i \in Investors |-> Payout(id, i, total, token)], Investors)

\* Pay every position its share of `total` in `token`.  `arrived` tokens came
\* in earlier in the same transaction and `released` left the escrow; a
\* transfer the pool cannot cover fails, and the transaction with it.
distribute_yield(id, token, total, arrived, released) ==
    LET paid == TotalPayout(id, total, token)
    IN  /\ pool_balance[token] + arrived >= paid
        /\ pool_balance' = [pool_balance EXCEPT ![token] = @ + arrived - paid]
        /\ aggregate' = [aggregate EXCEPT ![token] = @ - TotalContributed(id)]
        /\ net' = [net EXCEPT ![id][token] = @ + arrived + released - paid]
        /\ distributions' = [distributions EXCEPT ![id] = @ + 1]

MutPenaltyEveryTime(id) ==
    IF LatePenaltyBps > 0 /\ PastDue(id)
    THEN bps_of(pools[id].face_value, LatePenaltyBps)
    ELSE 0

LatePenalty(id) ==
    IF /\ ~pools[id].penalty_applied
       /\ LatePenaltyBps > 0
       /\ PastDue(id)
    THEN bps_of(pools[id].face_value, LatePenaltyBps)
    ELSE 0

PenaltyDue(id) ==
    pools[id].penalty_applied \/ (LatePenaltyBps > 0 /\ PastDue(id))

\* The pool record after `effective` more was repaid.
PoolAfter(id, effective) ==
    LET owed == pools[id].total_owed + LatePenalty(id)
        repaid == pools[id].repaid_amount + effective
    IN  [pools[id] EXCEPT !.total_owed = owed, !.repaid_amount = repaid,
           !.penalty_applied = PenaltyDue(id), !.is_closed = repaid >= owed]

OtherToken(id, token) == IF token = pools[id].token THEN {} ELSE {"token"}

AbovePar(currency) ==
    IF currency = POOL_CURRENCY \/ prices[currency].price <= PRICE_SCALE
    THEN {} ELSE {"price"}

\* The payer chooses the token; nothing compares it with the pool's.
repay(id, token, amount) ==
    LET effective == convert_if_needed(amount, invoices[id].currency)
        after == PoolAfter(id, effective)
    IN  /\ amount > 0
        /\ ~frozen[id]
        /\ PoolOpen(id)
        /\ Convertible(invoices[id].currency)
        /\ effective > 0
        /\ pools' = [pools EXCEPT ![id] = after]
        /\ \/ /\ ~after.is_closed
              /\ pool_balance' = [pool_balance EXCEPT ![token] = @ + amount]
              /\ net' = [net EXCEPT ![id][token] = @ + amount]
              /\ UNCHANGED <<aggregate, distributions, nftVars>>
           \/ /\ after.is_closed
              /\ distribute_yield(id, token, after.repaid_amount, amount, 0)
              /\ set_repaid(PoolAddr, id)
        /\ Note(id, OtherToken(id, token) \cup AbovePar(invoices[id].currency))
        /\ UNCHANGED <<max_position_bps, positions, for_sale, settlement, defaults, whole>>

\* The pool stays open.  The call of the risk registry's record_default is a
\* best effort: `recorded` tells whether the registry accepted it, which it does
\* not for an SME without a profile or from an admin that is not its own.
mark_default(id, token, recorded) ==
    /\ require_not_paused
    /\ PoolOpen(id)
    /\ \/ /\ pools[id].repaid_amount > 0
          /\ distribute_yield(id, token, pools[id].repaid_amount, 0, 0)
          /\ Note(id, OtherToken(id, token))
       \/ /\ pools[id].repaid_amount = 0
          /\ UNCHANGED <<pool_balance, aggregate, net, distributions, irregular>>
    /\ set_defaulted(id)
    /\ defaults' = [defaults EXCEPT ![invoices[id].sme] =
         IF recorded THEN @ + 1 ELSE @]
    /\ UNCHANGED <<max_position_bps, pools, positions, for_sale, settlement, whole>>

-----------------------------------------------------------------------------
(* Early settlement: the SME escrows a discounted amount, and the pool      *)
(* closes when the accepted shares reach 10_000 basis points.               *)

propose_early_settlement(sme, id, amount) ==
    /\ require_not_paused
    /\ amount > 0
    /\ PoolOpen(id)
    /\ amount >= pools[id].total_funded
    /\ amount < pools[id].total_owed
    /\ ~HasSettlement(id)
    /\ invoices[id].sme = sme
    /\ pool_balance' = [pool_balance EXCEPT ![pools[id].token] = @ + amount]
    /\ settlement' = [settlement EXCEPT ![id] = [NoSettlement EXCEPT !.amount = amount]]
    /\ UNCHANGED <<max_position_bps, pools, positions, for_sale, aggregate,
                   defaults, net, distributions, careVars, nftVars>>

MayAccept(i, id) ==
    /\ require_not_paused
    /\ HasSettlement(id)
    /\ PoolOpen(id)
    /\ HoldsPosition(id, i)
    /\ i \notin settlement[id].accepted

AcceptedBps(i, id) == settlement[id].accepted_bps + positions[id][i].share_bps

AddAcceptance(i, id) ==
    /\ AcceptedBps(i, id) < BPS_DENOMINATOR
    /\ settlement' = [settlement EXCEPT ![id] =
         [@ EXCEPT !.accepted_bps = AcceptedBps(i, id),
                   !.accepted = settlement[id].accepted \cup {i}]]
    /\ UNCHANGED <<pools, aggregate, pool_balance, net, distributions, nftVars>>

MutSettleKeepsOffer(i, id) ==
    LET amount == settlement[id].amount
    IN  /\ AcceptedBps(i, id) >= BPS_DENOMINATOR
        /\ pools' = [pools EXCEPT ![id] =
             [@ EXCEPT !.repaid_amount = amount, !.is_closed = TRUE]]
        /\ distribute_yield(id, pools[id].token, amount, 0, amount)
        /\ set_repaid(PoolAddr, id)
        /\ UNCHANGED settlement

SettleEarly(i, id) ==
    LET amount == settlement[id].amount
    IN  /\ AcceptedBps(i, id) >= BPS_DENOMINATOR
        /\ pools' = [pools EXCEPT ![id] =
             [@ EXCEPT !.repaid_amount = amount, !.is_closed = TRUE]]
        /\ distribute_yield(id, pools[id].token, amount, 0, amount)
        /\ set_repaid(PoolAddr, id)
        /\ settlement' = [settlement EXCEPT ![id] = NoSettlement]

accept_early_settlement(i, id) ==
    /\ MayAccept(i, id)
    /\ AddAcceptance(i, id) \/ SettleEarly(i, id)
    /\ UNCHANGED <<max_position_bps, positions, for_sale, defaults, careVars>>

MutMayCancelSettlement(sme, id) ==
    /\ HasSettlement(id)
    /\ PoolOpen(id)
    /\ invoices[id].sme = sme

\* Neither the pause nor a closed pool prevents the SME from taking its
\* escrow back.
MayCancelSettlement(sme, id) ==
    /\ HasSettlement(id)
    /\ pools[id].exists
    /\ invoices[id].sme = sme

cancel_early_settlement(sme, id) ==
    /\ MayCancelSettlement(sme, id)
    /\ pool_balance[pools[id].token] >= settlement[id].amount
    /\ pool_balance' = [pool_balance EXCEPT ![pools[id].token] = @ - settlement[id].amount]
    /\ settlement' = [settlement EXCEPT ![id] = NoSettlement]
    /\ UNCHANGED <<max_position_bps, pools, positions, for_sale, aggregate,
                   defaults, net, distributions, careVars, nftVars>>

-----------------------------------------------------------------------------
(* The secondary market.  The price goes from buyer to seller and leaves    *)
(* the pool's own balance alone.                                            *)

list_position_for_sale(seller, id) ==
    /\ require_not_paused
    /\ PoolOpen(id)
    /\ HoldsPosition(id, seller)
    /\ ~for_sale[id][seller]
    /\ for_sale' = [for_sale EXCEPT ![id][seller] = TRUE]
    /\ UNCHANGED <<max_position_bps, pools, positions, settlement, aggregate,
                   pool_balance, defaults, net, distributions, careVars, nftVars>>

MutBuyKeepsSeller(buyer, id, seller) ==
    /\ require_not_paused
    /\ for_sale[id][seller]
    /\ PoolOpen(id)
    /\ HoldsPosition(id, seller)
    /\ for_sale' = [for_sale EXCEPT ![id][seller] = FALSE]
    /\ positions' = [positions EXCEPT ![id][buyer] = positions[id][seller]]
    /\ UNCHANGED <<max_position_bps, pools, settlement, aggregate, pool_balance,
                   defaults, net, distributions, careVars, nftVars>>

\* A position the buyer already holds is overwritten, not merged.
buy_position(buyer, id, seller) ==
    /\ require_not_paused
    /\ for_sale[id][seller]
    /\ PoolOpen(id)
    /\ HoldsPosition(id, seller)
    /\ for_sale' = [for_sale EXCEPT ![id][seller] = FALSE]
    /\ positions' = [positions EXCEPT ![id] =
         [@ EXCEPT ![seller] = NoPosition, ![buyer] = positions[id][seller]]]
    /\ UNCHANGED <<max_position_bps, pools, settlement, aggregate, pool_balance,
                   defaults, net, distributions, careVars, nftVars>>

-----------------------------------------------------------------------------
RecordNext ==
    \E id \in Ids, i \in Investors, c \in Contributions, total \in TotalPools :
        /\ \A t \in Tokens : aggregate[t] + c <= MaxAggregate
        /\ record_position(id, i, c, total)
        /\ UNCHANGED <<pool_balance, nftVars>>

CapNext ==
    \E bps \in MaxPositionChoices :
        set_max_position_bps(bps) /\ UNCHANGED <<pool_balance, nftVars>>

OpenNext ==
    \E id \in Ids, token \in Tokens :
        release_funds(id, token) /\ UNCHANGED pool_balance

RepayNext ==
    \E id \in Ids, token \in Tokens, amount \in RepayAmounts : repay(id, token, amount)

DefaultNext ==
    \E id \in Ids, token \in Tokens, recorded \in BOOLEAN :
        mark_default(id, token, recorded)

SettlementNext ==
    \E id \in Ids :
        \/ \E sme \in SMEs, amount \in SettlementAmounts :
              propose_early_settlement(sme, id, amount)
        \/ \E i \in Investors : accept_early_settlement(i, id)
        \/ \E sme \in SMEs : cancel_early_settlement(sme, id)

MarketNext ==
    \E id \in Ids, i \in Investors :
        \/ list_position_for_sale(i, id)
        \/ \E seller \in Investors : buy_position(i, id, seller)

\* Steps of the pool contract and, through it, of the NFT contract.
PoolStep ==
    /\ \/ RecordNext
       \/ CapNext
       \/ OpenNext
       \/ RepayNext
       \/ DefaultNext
       \/ SettlementNext
       \/ MarketNext
    /\ UNCHANGED envVars

\* Steps of the NFT contract alone, and of the environment.
NftStep ==
    \/ /\ SmeNext \/ NftAdminNext
       /\ UNCHANGED envVars
    \/ Environment /\ UNCHANGED nftVars

\* The two contracts with a marketplace that lists any Created invoice.
ListNext ==
    \E id \in Ids : set_listed(MarketplaceAddr, id) /\ UNCHANGED envVars

PoolNext ==
    \/ PoolStep
    \/ (NftStep \/ ListNext) /\ UNCHANGED <<poolVars, pool_balance>>

allPoolVars == <<envVars, nftVars, poolVars, pool_balance>>

PoolSystemInit == EnvInit /\ NftInit /\ PoolInit

PoolSpec == PoolSystemInit /\ [][PoolNext]_allPoolVars

-----------------------------------------------------------------------------
(* Properties.                                                              *)

\* The storage of the pool contract is well formed in every state.
PoolTypeOK ==
    /\ max_position_bps \in 1..BPS_DENOMINATOR
    /\ pools \in [Ids -> Pool]
    /\ positions \in [Ids -> [Investors -> Position]]
    /\ for_sale \in [Ids -> [Investors -> BOOLEAN]]
    /\ settlement \in [Ids -> Settlement]
    /\ defaults \in [SMEs -> Nat]
    /\ distributions \in [Ids -> Nat]
    /\ whole \in [Ids -> Nat]
    /\ irregular \in [Ids -> SUBSET Irregularities]

\* release_funds, repay, mark_default and accept_early_settlement keep the
\* pool and the NFT contract agreed on every invoice: a pool exists exactly
\* when the invoice was funded, it owes the invoice's amount and the penalty it
\* was charged, it is closed when the invoice is Repaid and never while the
\* invoice is Funded, and while open it is short of what is owed.
PoolAgrees(id) ==
    LET pool == pools[id]
        status == invoices[id].status
    IN  /\ pool.exists <=> status \in {"Funded", "Repaid", "Defaulted"}
        /\ status = "Repaid" => pool.is_closed
        /\ pool.is_closed => status \in {"Repaid", "Defaulted"}
        /\ pool.exists =>
             /\ pool.token \in Tokens
             /\ pool.face_value = invoices[id].amount
             /\ pool.total_owed = pool.face_value +
                  (IF pool.penalty_applied THEN bps_of(pool.face_value, LatePenaltyBps) ELSE 0)
        /\ PoolOpen(id) => pool.repaid_amount < pool.total_owed
        /\ HasSettlement(id) => pool.exists

\* PoolAgrees for every invoice, across all four entry points of the pool that
\* call the NFT contract.
PoolsAgreeWithInvoices == \A id \in Ids : PoolAgrees(id)

\* distribute_yield pays an invoice's investors at most once, whichever of
\* repay, mark_default and accept_early_settlement comes first, and a pool
\* whose invoice is still Funded has paid nobody.
PaidOutAtMostOnce(id) ==
    /\ distributions[id] <= 1
    /\ invoices[id].status \notin {"Repaid", "Defaulted"} => distributions[id] = 0
    /\ invoices[id].status = "Repaid" => distributions[id] = 1

\* No invoice's investors are paid twice by repay, mark_default and
\* accept_early_settlement.
PaidOutOnce == \A id \in Ids : PaidOutAtMostOnce(id)

\* Rounding every share down keeps the shares of a pool within the whole across
\* record_position, its corrections and buy_position, unless the admin recorded a
\* position against another total or beyond it.
SharesWithinWhole ==
    \A id \in Ids : "record" \notin irregular[id] => TotalShares(id) <= BPS_DENOMINATOR

\* What the stored settlement offers of the pools in a token escrow.
EscrowOf(id, token) == IF pools[id].token = token THEN settlement[id].amount ELSE 0

EscrowedIn(token) == SumFunctionOnSet([id \in Ids |-> EscrowOf(id, token)], Ids)

\* distribute_yield never pays an invoice's investors with tokens that another
\* invoice, an investor's contribution or an SME's escrow brought in, however the
\* oracle's price moves between the repayments of one invoice - except for an
\* invoice whose positions, repayments or payout were irregular themselves.
PaysOnlyWhatCameIn ==
    \A id \in Ids, t \in Tokens : irregular[id] = {} => net[id][t] >= 0

\* What the irregular invoices have paid out beyond what they brought in.
OverdraftOf(id, token) ==
    IF irregular[id] # {} /\ net[id][token] < 0 THEN 0 - net[id][token] ELSE 0

Overdrawn(token) == SumFunctionOnSet([id \in Ids |-> OverdraftOf(id, token)], Ids)

\* The SME's escrow is in the pool for as long as its offer stands, also after
\* the pool was closed or defaulted in the meantime: repay, mark_default and
\* accept_early_settlement take nothing of it but what irregular invoices overdraw.
EscrowBacked == \A t \in Tokens : pool_balance[t] + Overdrawn(t) >= EscrowedIn(t)

\* mark_default reports an SME to the risk registry at most once per invoice
\* that ended Defaulted.
DefaultsReportedOnce ==
    \A sme \in SMEs :
        defaults[sme] <=
          Cardinality({id \in Ids : invoices[id].sme = sme
                                    /\ invoices[id].status = "Defaulted"})

\* The pool and the NFT contract together implement the abstract lifecycle.
StageOf(id) ==
    IF invoices[id].status # "Absent" THEN invoices[id].status
    ELSE IF id < next_id THEN "Withdrawn" ELSE "Unminted"

Lifecycle == INSTANCE InvoiceLifecycle
                WITH stage <- [id \in Ids |-> StageOf(id)],
                     face_value <- [id \in Ids |-> invoices[id].amount]

\* Every entry point of the pool and of the NFT contract takes an invoice along
\* the abstract lifecycle, or leaves its stage, face value and payouts alone.
LifecycleSpec == Lifecycle!Spec

-----------------------------------------------------------------------------
(* What the repository says of the pool and the code does not do.           *)

\* "SMEs must always be able to repay": while the invoice is Funded and not
\* frozen, the payment that settles it is accepted, paused or not.
RepayNeverBlocked ==
    \A id \in Ids, t \in Tokens, amount \in RepayAmounts :
        /\ HasStatus(id, "Funded")
        /\ ~frozen[id]
        /\ invoices[id].currency = "USDC"
        /\ PoolAfter(id, amount).is_closed
        /\ amount > 0
        => ENABLED repay(id, t, amount)

\* A pool settles early "once investors representing 100% of pool shares have
\* accepted": when the last acceptance settles it, nobody but the one who sends
\* it holds a position and has not accepted.
SettledByConsent ==
    [][\A id \in Ids :
          /\ HasSettlement(id)
          /\ HasStatus(id, "Funded")
          /\ settlement'[id] = NoSettlement
          /\ invoices'[id].status = "Repaid"
          => Cardinality(Holders(id) \ settlement[id].accepted) <= 1]_allPoolVars
=============================================================================

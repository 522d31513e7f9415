------------------------ MODULE FinancingPoolProofs ------------------------
(***************************************************************************)
(* Proofs about the financing pool composed with the NFT contract: the     *)
(* pool's storage stays well formed, the two contracts stay agreed on      *)
(* every invoice, investors are paid out at most once, and the two         *)
(* contracts implement the abstract invoice lifecycle.                     *)
(***************************************************************************)
EXTENDS FinancingPool, InvoiceNftProofs, SumProofs

\* What the pool's storage says of one invoice.  A pool is closed by repay and
\* accept_early_settlement only.
InvoiceInv(id) ==
    /\ PoolAgrees(id)
    /\ PaidOutAtMostOnce(id)
    /\ pools[id].is_closed => invoices[id].status = "Repaid"

\* The inductive invariant.  PoolAgrees supplies what the payout count needs:
\* an open pool's invoice is Funded or Defaulted, so a second payout would need
\* a status that set_repaid and set_defaulted refuse.
PoolInv ==
    /\ NftInv
    /\ PoolTypeOK
    /\ \A id \in Ids : InvoiceInv(id)

\* The step leaves everything but invoice id as it is.
OthersKept(id) ==
    \A i \in Ids \ {id} :
        /\ pools'[i] = pools[i]
        /\ invoices'[i] = invoices[i]
        /\ settlement'[i] = settlement[i]
        /\ distributions'[i] = distributions[i]

\* An invoice none of whose storage changes keeps what is said of it.
LEMMA InvoiceKept ==
  ASSUME NEW i \in Ids, InvoiceInv(i),
         pools'[i] = pools[i], invoices'[i] = invoices[i],
         settlement'[i] = settlement[i], distributions'[i] = distributions[i]
  PROVE  InvoiceInv(i)'
  BY DEF InvoiceInv, PoolAgrees, PaidOutAtMostOnce, PoolOpen, HasSettlement

\* A step about one invoice need only be checked for that invoice.
LEMMA OneInvoice ==
  ASSUME \A i \in Ids : InvoiceInv(i), NEW id \in Ids,
         OthersKept(id), InvoiceInv(id)'
  PROVE  \A i \in Ids : InvoiceInv(i)'
  BY InvoiceKept DEF OthersKept

\* Nothing of the NFT contract changes.
LEMMA NftKept ==
  ASSUME NftInv, UNCHANGED <<envVars, nftVars>>
  PROVE  NftInv'
  BY DEF NftInv, NftTypeOK, EnvTypeOK, Timeline, TimelineOf, envVars, nftVars

-----------------------------------------------------------------------------
(* Arithmetic and record facts.                                             *)

\* The late penalty is a natural number.
LEMMA PenaltyType ==
  ASSUME NEW amount \in Nat
  PROVE  bps_of(amount, LatePenaltyBps) \in Nat
  <1>1. LatePenaltyBps \in Nat
    BY PoolAssumption DEF BPS_DENOMINATOR
  <1>2. \A x \in Nat, y \in Nat : x * y \in Nat
    OBVIOUS
  <1>3. \A z \in Nat : z \div 10000 \in Nat
    OBVIOUS
  <1> QED  BY <1>1, <1>2, <1>3 DEF bps_of, BPS_DENOMINATOR

\* record_position computes a natural share.
LEMMA ShareType ==
  ASSUME NEW contributed \in Int, NEW total \in Int, contributed > 0, contributed <= total
  PROVE  share_bps(contributed, total) \in Nat
  BY DEF share_bps, BPS_DENOMINATOR

\* Converting a repayment yields an integer.
LEMMA ConvertType ==
  ASSUME EnvTypeOK, NEW amount \in Int, NEW currency \in Currencies
  PROVE  convert_if_needed(amount, currency) \in Int
  <1>1. CASE currency = POOL_CURRENCY
    BY <1>1 DEF convert_if_needed, convert
  <1>2. CASE currency # POOL_CURRENCY
    <2>1. prices[currency].price \in Nat
      BY <1>2 DEF EnvTypeOK, Foreign, PriceData
    <2> QED  BY <1>2, <2>1 DEF convert_if_needed, convert, PRICE_SCALE
  <1> QED  BY <1>1, <1>2

\* A note adds causes of the known kinds to one invoice.
LEMMA NoteType ==
  ASSUME PoolTypeOK, NEW id \in Ids, NEW causes \in SUBSET Irregularities, Note(id, causes)
  PROVE  irregular' \in [Ids -> SUBSET Irregularities]
  BY DEF PoolTypeOK, Note

\* What repay and mark_default may note.
LEMMA CauseTypes ==
  ASSUME NEW id, NEW token, NEW currency
  PROVE  /\ OtherToken(id, token) \in SUBSET Irregularities
         /\ AbovePar(currency) \in SUBSET Irregularities
  BY DEF OtherToken, AbovePar, Irregularities

\* The record of an unopened pool is a pool record.
LEMMA NoPoolType == NoPool \in Pool
  BY DEF NoPool, Pool

\* release_funds writes a pool record.
LEMMA OpenedType ==
  ASSUME NEW token \in Tokens, NEW amount \in Nat
  PROVE  [NoPool EXCEPT !.exists = TRUE, !.token = token,
            !.face_value = amount, !.total_owed = amount] \in Pool
  BY DEF NoPool, Pool

\* The record of no settlement offer is a settlement record.
LEMMA NoSettlementType == NoSettlement \in Settlement
  BY DEF NoSettlement, Settlement

-----------------------------------------------------------------------------
\* The initial state satisfies the invariant.
LEMMA PoolInitInv == EnvInit /\ NftInit /\ PoolInit => PoolInv
  <1> SUFFICES ASSUME EnvInit, NftInit, PoolInit PROVE PoolInv
    OBVIOUS
  <1>1. NftInv
    BY NftInitInv
  <1>2. max_position_bps \in 1..BPS_DENOMINATOR
    BY DEF PoolInit
  <1>3. pools \in [Ids -> Pool]
    BY NoPoolType DEF PoolInit
  <1>4. positions \in [Ids -> [Investors -> Position]]
    BY DEF PoolInit, NoPosition, Position
  <1>5. for_sale \in [Ids -> [Investors -> BOOLEAN]]
    BY DEF PoolInit
  <1>6. settlement \in [Ids -> Settlement]
    BY NoSettlementType DEF PoolInit
  <1>7. /\ defaults \in [SMEs -> Nat] /\ distributions \in [Ids -> Nat]
        /\ whole \in [Ids -> Nat] /\ irregular \in [Ids -> SUBSET Irregularities]
    BY DEF PoolInit
  <1>8. \A id \in Ids : InvoiceInv(id)
    BY DEF PoolInit, NftInit, InvoiceInv, PoolAgrees, PaidOutAtMostOnce, PoolOpen,
       HasSettlement, NoPool, NoInvoice, NoSettlement
  <1> QED
    BY <1>1, <1>2, <1>3, <1>4, <1>5, <1>6, <1>7, <1>8 DEF PoolInv, PoolTypeOK

-----------------------------------------------------------------------------
(* Steps that leave the pools, the offers and the payouts alone.            *)

\* The storage the per-invoice part of the invariant is about is unchanged.
CoreKept == UNCHANGED <<pools, settlement, distributions, invoices>>

\* A step that leaves the pools, the invoices' status and the ghosts alone keeps
\* the invariant of every invoice.
LEMMA CoreKeptInv ==
  ASSUME \A i \in Ids : InvoiceInv(i), CoreKept
  PROVE  \A i \in Ids : InvoiceInv(i)'
  BY InvoiceKept DEF CoreKept

\* record_position stores a well-formed position.
LEMMA RecordInv ==
  ASSUME PoolInv, UNCHANGED envVars, RecordNext
  PROVE  PoolInv'
  <1> PICK id \in Ids, i \in Investors, c \in Contributions, total \in TotalPools :
        record_position(id, i, c, total) /\ UNCHANGED <<pool_balance, nftVars>>
    BY DEF RecordNext
  <1> DEFINE position == [contributed |-> c, share_bps |-> share_bps(c, total)]
  <1>1. NftInv'
    BY NftKept DEF PoolInv
  <1>2. c \in Int /\ total \in Int /\ c > 0 /\ c <= total
    BY PoolAssumption DEF record_position
  <1>3. position \in Position
    BY <1>2, ShareType DEF Position
  <1>4. positions' \in [Ids -> [Investors -> Position]]
    BY <1>3 DEF PoolInv, PoolTypeOK, record_position
  <1>5. PoolTypeOK'
    <2>1. irregular' \in [Ids -> SUBSET Irregularities]
      BY NoteType DEF record_position, Irregularities, PoolInv, PoolTypeOK
    <2>2. whole' \in [Ids -> Nat]
      BY <1>2 DEF record_position, PoolInv, PoolTypeOK
    <2> QED  BY <1>4, <2>1, <2>2 DEF PoolInv, PoolTypeOK, record_position
  <1>6. \A k \in Ids : InvoiceInv(k)'
    BY CoreKeptInv DEF PoolInv, CoreKept, record_position, nftVars
  <1> QED  BY <1>1, <1>5, <1>6 DEF PoolInv

\* set_max_position_bps keeps the cap within 1 and 10_000.
LEMMA CapInv ==
  ASSUME PoolInv, UNCHANGED envVars, CapNext
  PROVE  PoolInv'
  <1> PICK bps \in MaxPositionChoices :
        set_max_position_bps(bps) /\ UNCHANGED <<pool_balance, nftVars>>
    BY DEF CapNext
  <1>1. NftInv'
    BY NftKept DEF PoolInv
  <1>2. PoolTypeOK'
    BY DEF PoolInv, PoolTypeOK, set_max_position_bps, careVars
  <1>3. \A k \in Ids : InvoiceInv(k)'
    BY CoreKeptInv DEF PoolInv, CoreKept, set_max_position_bps, nftVars
  <1> QED  BY <1>1, <1>2, <1>3 DEF PoolInv

\* list_position_for_sale and buy_position move positions and offers only.
LEMMA MarketInv ==
  ASSUME PoolInv, UNCHANGED envVars, MarketNext
  PROVE  PoolInv'
  <1> PICK id \in Ids, i \in Investors :
        \/ list_position_for_sale(i, id)
        \/ \E seller \in Investors : buy_position(i, id, seller)
    BY DEF MarketNext
  <1> USE DEF list_position_for_sale, buy_position
  <1>1. NftInv'
    BY NftKept DEF PoolInv
  <1>2. positions' \in [Ids -> [Investors -> Position]]
    <2>1. positions \in [Ids -> [Investors -> Position]]
      BY DEF PoolInv, PoolTypeOK
    <2>2. ASSUME NEW seller \in Investors, buy_position(i, id, seller)
          PROVE  positions' \in [Ids -> [Investors -> Position]]
      <3>1. NoPosition \in Position
        BY DEF NoPosition, Position
      <3>2. positions[id] \in [Investors -> Position] /\ positions[id][seller] \in Position
        BY <2>1
      <3>3. [positions[id] EXCEPT ![seller] = NoPosition, ![i] = positions[id][seller]]
               \in [Investors -> Position]
        BY <3>1, <3>2
      <3> QED  BY <2>1, <2>2, <3>3
    <2> QED  BY <2>1, <2>2
  <1>3. for_sale' \in [Ids -> [Investors -> BOOLEAN]]
    <2>1. for_sale \in [Ids -> [Investors -> BOOLEAN]]
      BY DEF PoolInv, PoolTypeOK
    <2>2. \A j \in Investors, b \in BOOLEAN :
             [for_sale EXCEPT ![id][j] = b] \in [Ids -> [Investors -> BOOLEAN]]
      BY <2>1
    <2>3. \E j \in Investors : \/ for_sale' = [for_sale EXCEPT ![id][j] = TRUE]
                               \/ for_sale' = [for_sale EXCEPT ![id][j] = FALSE]
      OBVIOUS
    <2> HIDE DEF list_position_for_sale, buy_position
    <2> QED  BY <2>2, <2>3, Zenon
  <1>4. UNCHANGED <<max_position_bps, pools, settlement, defaults, distributions, invoices>>
    BY DEF nftVars
  <1>5. PoolTypeOK'
    BY <1>2, <1>3, <1>4 DEF PoolInv, PoolTypeOK, careVars
  <1>6. \A k \in Ids : InvoiceInv(k)'
    BY <1>4, CoreKeptInv DEF PoolInv, CoreKept
  <1> QED  BY <1>1, <1>5, <1>6 DEF PoolInv

-----------------------------------------------------------------------------
(* Steps about one invoice.                                                 *)

\* release_funds, also as the last step of fund_invoice: the invoice is Listed,
\* so there is no pool and there was no payout.
LEMMA ReleaseInv ==
  ASSUME PoolInv, UNCHANGED envVars, NEW id \in Ids, NEW token \in Tokens,
         release_funds(id, token)
  PROVE  PoolInv'
  <1> DEFINE opened == [NoPool EXCEPT !.exists = TRUE, !.token = token,
                          !.face_value = invoices[id].amount,
                          !.total_owed = invoices[id].amount]
  <1>1. NftInv'
    BY SetFundedInv DEF PoolInv, release_funds
  <1>2. invoices \in [Ids -> Invoice] /\ invoices[id].amount \in Nat
    BY DEF PoolInv, NftInv, NftTypeOK, Invoice
  <1>3. opened \in Pool
    BY <1>2, OpenedType
  <1>4. PoolTypeOK'
    BY <1>3 DEF PoolInv, PoolTypeOK, release_funds, careVars
  <1>5. OthersKept(id)
    BY <1>2 DEF OthersKept, release_funds, set_funded, PoolInv, PoolTypeOK
  <1>6. pools'[id] = opened /\ settlement' = settlement /\ distributions' = distributions
    BY DEF release_funds, PoolInv, PoolTypeOK
  <1>7. invoices'[id].status = "Funded" /\ invoices'[id].amount = invoices[id].amount
    BY <1>2 DEF release_funds, set_funded, Invoice
  <1>8. invoices[id].status = "Listed" /\ invoices[id].amount > 0
    BY DEF release_funds, set_funded, HasStatus
  <1>9. InvoiceInv(id)'
    BY <1>2, <1>6, <1>7, <1>8 DEF PoolInv, InvoiceInv, PoolAgrees, PaidOutAtMostOnce,
       PoolOpen, HasSettlement, NoPool
  <1> QED  BY <1>1, <1>4, <1>5, <1>9, OneInvoice DEF PoolInv

\* propose_early_settlement and cancel_early_settlement move the offer only.
LEMMA ProposeInv ==
  ASSUME PoolInv, UNCHANGED envVars, NEW id \in Ids, NEW sme,
         NEW amount \in SettlementAmounts, propose_early_settlement(sme, id, amount)
  PROVE  PoolInv'
  <1> USE DEF propose_early_settlement
  <1>1. NftInv'
    BY NftKept DEF PoolInv
  <1>2. [NoSettlement EXCEPT !.amount = amount] \in Settlement
    BY PoolAssumption DEF NoSettlement, Settlement
  <1>3. PoolTypeOK'
    BY <1>2 DEF PoolInv, PoolTypeOK, careVars
  <1>4. OthersKept(id)
    BY DEF OthersKept, PoolInv, PoolTypeOK, nftVars
  <1>5. InvoiceInv(id)'
    BY DEF PoolInv, InvoiceInv, PoolAgrees, PaidOutAtMostOnce, PoolOpen, HasSettlement, nftVars
  <1> QED  BY <1>1, <1>3, <1>4, <1>5, OneInvoice DEF PoolInv

\* cancel_early_settlement only takes the offer and its escrow away.
LEMMA CancelSettlementInv ==
  ASSUME PoolInv, UNCHANGED envVars, NEW id \in Ids, NEW sme,
         cancel_early_settlement(sme, id)
  PROVE  PoolInv'
  <1> USE DEF cancel_early_settlement, MayCancelSettlement
  <1>1. NftInv'
    BY NftKept DEF PoolInv
  <1>2. PoolTypeOK'
    BY NoSettlementType DEF PoolInv, PoolTypeOK, careVars
  <1>3. OthersKept(id)
    BY DEF OthersKept, PoolInv, PoolTypeOK, nftVars
  <1>4. InvoiceInv(id)'
    BY DEF PoolInv, PoolTypeOK, InvoiceInv, PoolAgrees, PaidOutAtMostOnce, PoolOpen,
       HasSettlement, NoSettlement, nftVars
  <1> QED  BY <1>1, <1>2, <1>3, <1>4, OneInvoice DEF PoolInv

\* distribute_yield counts one payout, of this invoice only.
LEMMA DistributeCounts ==
  ASSUME NEW id, NEW token, NEW total, NEW arrived, NEW released,
         distribute_yield(id, token, total, arrived, released)
  PROVE  distributions' = [distributions EXCEPT ![id] = @ + 1]
  BY DEF distribute_yield

\* What the record of a pool says after a repayment: the late penalty is added
\* exactly when it is first due, and the pool is closed exactly when it is
\* repaid in full.
LEMMA PoolAfterFacts ==
  ASSUME PoolInv, NEW id \in Ids, PoolOpen(id), NEW effective \in Int, effective > 0
  PROVE  LET after == PoolAfter(id, effective)
         IN  /\ after \in Pool
             /\ after.exists
             /\ after.token = pools[id].token
             /\ after.face_value = pools[id].face_value
             /\ after.total_owed = after.face_value +
                  (IF after.penalty_applied
                   THEN bps_of(after.face_value, LatePenaltyBps) ELSE 0)
             /\ after.is_closed <=> after.repaid_amount >= after.total_owed
  <1> DEFINE pool == pools[id]
             owed == pool.total_owed + LatePenalty(id)
             repaid == pool.repaid_amount + effective
             penalty == bps_of(pool.face_value, LatePenaltyBps)
             after == PoolAfter(id, effective)
  <1>1. pool \in Pool
    BY DEF PoolInv, PoolTypeOK
  <1>2. penalty \in Nat
    BY <1>1, PenaltyType DEF Pool
  <1>3. pool.exists /\ pool.total_owed =
          pool.face_value + (IF pool.penalty_applied THEN penalty ELSE 0)
    BY DEF PoolInv, InvoiceInv, PoolAgrees, PoolOpen
  <1>4. LatePenalty(id) = IF PenaltyDue(id) /\ ~pool.penalty_applied THEN penalty ELSE 0
    BY DEF LatePenalty, PenaltyDue
  <1>5. pool.penalty_applied => PenaltyDue(id)
    BY DEF PenaltyDue
  <1>6. owed \in Nat /\ repaid \in Nat
    <2>1. LatePenalty(id) \in Nat
      BY <1>2, <1>4
    <2> QED  BY <1>1, <2>1 DEF Pool
  <1>7. owed = pool.face_value + (IF PenaltyDue(id) THEN penalty ELSE 0)
    BY <1>1, <1>2, <1>3, <1>4, <1>5 DEF Pool
  <1>8. PenaltyDue(id) \in BOOLEAN
    BY <1>1 DEF PenaltyDue, Pool
  <1>9. after = [pool EXCEPT !.total_owed = owed, !.repaid_amount = repaid,
                   !.penalty_applied = PenaltyDue(id), !.is_closed = repaid >= owed]
    BY DEF PoolAfter
  <1> HIDE DEF owed, repaid, penalty, after, pool
  <1>10. (repaid >= owed) \in BOOLEAN
    BY <1>6
  <1>11. after \in Pool
    BY <1>1, <1>6, <1>8, <1>9, <1>10 DEF Pool
  <1>12. /\ after.exists = pool.exists
         /\ after.token = pool.token
         /\ after.face_value = pool.face_value
         /\ after.total_owed = owed
         /\ after.repaid_amount = repaid
         /\ after.penalty_applied = PenaltyDue(id)
         /\ after.is_closed = (repaid >= owed)
    BY <1>1, <1>9 DEF Pool
  <1> QED  BY <1>3, <1>7, <1>11, <1>12 DEF after, pool, penalty

\* repay: a payment that closes the pool pays out, and set_repaid only lets a
\* Funded invoice through, so there was no payout before.
LEMMA RepayInv ==
  ASSUME PoolInv, UNCHANGED envVars, NEW id \in Ids, NEW token \in Tokens,
         NEW amount \in RepayAmounts, repay(id, token, amount)
  PROVE  PoolInv'
  <1> DEFINE effective == convert_if_needed(amount, invoices[id].currency)
             after == PoolAfter(id, effective)
  <1>1. /\ PoolOpen(id)
        /\ effective > 0
        /\ pools' = [pools EXCEPT ![id] = after]
        /\ UNCHANGED <<max_position_bps, positions, for_sale, settlement, defaults, whole>>
        /\ Note(id, OtherToken(id, token) \cup AbovePar(invoices[id].currency))
    BY DEF repay
  <1>2. \/ ~after.is_closed /\ UNCHANGED <<distributions, nftVars>>
        \/ /\ after.is_closed
           /\ distributions' = [distributions EXCEPT ![id] = @ + 1]
           /\ set_repaid(PoolAddr, id)
    BY DistributeCounts DEF repay
  <1>3. invoices \in [Ids -> Invoice] /\ pools \in [Ids -> Pool]
    BY DEF PoolInv, NftInv, NftTypeOK, PoolTypeOK
  <1>4. effective \in Int
    <2>1. invoices[id].status # "Absent"
      BY <1>1 DEF PoolInv, InvoiceInv, PoolAgrees, PoolOpen
    <2>2. invoices[id].currency \in Currencies
      BY <2>1 DEF PoolInv, NftInv, Timeline, TimelineOf
    <2> QED  BY <2>2, ConvertType, PoolAssumption DEF PoolInv, NftInv, NftTypeOK
  <1>5. /\ after \in Pool
        /\ after.exists
        /\ after.token = pools[id].token
        /\ after.face_value = pools[id].face_value
        /\ after.total_owed = after.face_value +
             (IF after.penalty_applied THEN bps_of(after.face_value, LatePenaltyBps) ELSE 0)
        /\ after.is_closed <=> after.repaid_amount >= after.total_owed
    BY <1>1, <1>4, PoolAfterFacts
  <1> HIDE DEF effective, after
  <1>6. pools' \in [Ids -> Pool] /\ pools'[id] = after
    BY <1>1, <1>3, <1>5
  <1>9. irregular' \in [Ids -> SUBSET Irregularities]
    BY <1>1, NoteType, CauseTypes DEF PoolInv
  <1>7. CASE ~after.is_closed /\ UNCHANGED <<distributions, nftVars>>
    <2>1. NftInv'
      BY <1>7, NftKept DEF PoolInv
    <2>2. PoolTypeOK'
      BY <1>1, <1>6, <1>7, <1>9 DEF PoolInv, PoolTypeOK
    <2>3. OthersKept(id)
      BY <1>1, <1>3, <1>7 DEF OthersKept, nftVars
    <2>4. after.repaid_amount < after.total_owed
      BY <1>5, <1>7 DEF Pool
    <2>5. InvoiceInv(id)'
      <3>1. /\ pools[id].exists /\ ~pools[id].is_closed
            /\ pools[id].token \in Tokens
            /\ pools[id].face_value = invoices[id].amount
            /\ invoices[id].status \in {"Funded", "Repaid", "Defaulted"}
            /\ invoices[id].status # "Repaid"
        BY <1>1 DEF PoolInv, InvoiceInv, PoolAgrees, PoolOpen
      <3>2. PoolAgrees(id)'
        BY <1>5, <1>6, <1>7, <2>4, <3>1 DEF PoolAgrees, PoolOpen, HasSettlement, nftVars
      <3>3. PaidOutAtMostOnce(id)'
        BY <1>7 DEF PoolInv, InvoiceInv, PaidOutAtMostOnce, nftVars
      <3> QED  BY <1>6, <1>7, <3>2, <3>3 DEF InvoiceInv
    <2> QED  BY <2>1, <2>2, <2>3, <2>5, OneInvoice DEF PoolInv
  <1>8. CASE /\ after.is_closed
             /\ distributions' = [distributions EXCEPT ![id] = @ + 1]
             /\ set_repaid(PoolAddr, id)
    <2>1. NftInv'
      BY <1>8, SetRepaidInv DEF PoolInv
    <2>2. distributions' \in [Ids -> Nat]
      BY <1>8 DEF PoolInv, PoolTypeOK
    <2>3. PoolTypeOK'
      BY <1>1, <1>6, <1>9, <2>2 DEF PoolInv, PoolTypeOK
    <2>4. OthersKept(id)
      BY <1>1, <1>3, <1>8 DEF OthersKept, set_repaid, PoolInv, PoolTypeOK
    <2>5. invoices[id].status = "Funded" /\ distributions[id] = 0
      BY <1>8 DEF set_repaid, HasStatus, PoolInv, InvoiceInv, PaidOutAtMostOnce
    <2>6. /\ invoices'[id].status = "Repaid"
          /\ invoices'[id].amount = invoices[id].amount
          /\ distributions'[id] = 1
      BY <1>3, <1>8, <2>5 DEF set_repaid, Invoice, PoolInv, PoolTypeOK
    <2>7. InvoiceInv(id)'
      BY <1>1, <1>5, <1>6, <1>8, <2>6 DEF PoolInv, InvoiceInv, PoolAgrees,
         PaidOutAtMostOnce, PoolOpen, HasSettlement
    <2> QED  BY <2>1, <2>3, <2>4, <2>7, OneInvoice DEF PoolInv
  <1> QED  BY <1>2, <1>7, <1>8

\* mark_default: the invoice was Funded, so nobody was paid before; the pool
\* stays open, and the invoice's status keeps it from being closed later.
LEMMA DefaultInv ==
  ASSUME PoolInv, UNCHANGED envVars, NEW id \in Ids, NEW token \in Tokens,
         NEW recorded \in BOOLEAN, mark_default(id, token, recorded)
  PROVE  PoolInv'
  <1>1. \/ distributions' = [distributions EXCEPT ![id] = @ + 1]
        \/ distributions' = distributions
    BY DistributeCounts DEF mark_default
  <1>2. NftInv'
    BY SetDefaultedInv DEF PoolInv, mark_default
  <1>3. invoices \in [Ids -> Invoice] /\ distributions \in [Ids -> Nat]
    BY DEF PoolInv, NftInv, NftTypeOK, PoolTypeOK
  <1>4. distributions' \in [Ids -> Nat]
    BY <1>1, <1>3
  <1>5. defaults' \in [SMEs -> Nat]
    <2>1. defaults \in [SMEs -> Nat]
      BY DEF PoolInv, PoolTypeOK
    <2>2. SUFFICES ASSUME NEW s \in SMEs PROVE defaults'[s] \in Nat
      BY <2>1 DEF mark_default
    <2>3. defaults'[s] \in {defaults[s], defaults[s] + 1}
      BY <2>1 DEF mark_default
    <2> QED  BY <2>1, <2>3
  <1>6. PoolTypeOK'
    <2>1. irregular' \in [Ids -> SUBSET Irregularities]
      BY NoteType, CauseTypes DEF mark_default, PoolInv, PoolTypeOK
    <2> QED  BY <1>4, <1>5, <2>1 DEF PoolInv, PoolTypeOK, mark_default
  <1>7. OthersKept(id)
    BY <1>1, <1>3 DEF OthersKept, mark_default, set_defaulted
  <1>8. invoices[id].status = "Funded" /\ distributions[id] = 0
    BY DEF mark_default, set_defaulted, HasStatus, Defaultable, PoolInv, InvoiceInv, PaidOutAtMostOnce
  <1>9. /\ invoices'[id].status = "Defaulted"
        /\ invoices'[id].amount = invoices[id].amount
        /\ distributions'[id] \in {0, 1}
        /\ UNCHANGED <<pools, settlement>>
    BY <1>1, <1>3, <1>8 DEF mark_default, set_defaulted, Invoice
  <1>10. InvoiceInv(id)'
    BY <1>8, <1>9 DEF PoolInv, InvoiceInv, PoolAgrees, PaidOutAtMostOnce, PoolOpen, HasSettlement
  <1> QED  BY <1>2, <1>6, <1>7, <1>10, OneInvoice DEF PoolInv

\* The admin calls set_defaulted on the NFT contract directly.
LEMMA DirectDefaultInv ==
  ASSUME PoolInv, UNCHANGED <<envVars, poolVars>>, NEW id \in Ids, set_defaulted(id)
  PROVE  PoolInv'
  <1>1. NftInv'
    BY SetDefaultedInv DEF PoolInv
  <1>2. PoolTypeOK'
    BY DEF PoolInv, PoolTypeOK, poolVars, careVars
  <1>3. invoices \in [Ids -> Invoice]
    BY DEF PoolInv, NftInv, NftTypeOK
  <1>4. OthersKept(id)
    BY <1>3 DEF OthersKept, poolVars, set_defaulted
  <1>5. /\ invoices[id].status = "Funded"
        /\ invoices'[id].status = "Defaulted"
        /\ invoices'[id].amount = invoices[id].amount
        /\ UNCHANGED <<pools, settlement, distributions>>
    BY <1>3 DEF set_defaulted, HasStatus, Defaultable, Invoice, poolVars
  <1>6. InvoiceInv(id)'
    BY <1>5 DEF PoolInv, InvoiceInv, PoolAgrees, PaidOutAtMostOnce, PoolOpen, HasSettlement
  <1> QED  BY <1>1, <1>2, <1>4, <1>6, OneInvoice DEF PoolInv

\* accept_early_settlement: the acceptance that completes the pool closes it and
\* pays out; any other only adds to the offer.
LEMMA AcceptInv ==
  ASSUME PoolInv, UNCHANGED envVars, NEW id \in Ids, NEW i \in Investors,
         accept_early_settlement(i, id)
  PROVE  PoolInv'
  <1> DEFINE offer == settlement[id]
             more == [offer EXCEPT !.accepted_bps = AcceptedBps(i, id),
                                   !.accepted = offer.accepted \cup {i}]
             closed == [pools[id] EXCEPT !.repaid_amount = offer.amount, !.is_closed = TRUE]
  <1>1. /\ MayAccept(i, id)
        /\ UNCHANGED <<max_position_bps, positions, for_sale, defaults, whole, irregular>>
    BY DEF accept_early_settlement, careVars
  <1>2. /\ invoices \in [Ids -> Invoice]
        /\ pools \in [Ids -> Pool]
        /\ settlement \in [Ids -> Settlement]
        /\ distributions \in [Ids -> Nat]
        /\ positions \in [Ids -> [Investors -> Position]]
    BY DEF PoolInv, NftInv, NftTypeOK, PoolTypeOK
  <1>3. CASE AddAcceptance(i, id)
    <2> USE <1>3 DEF AddAcceptance
    <2>1. NftInv'
      BY NftKept DEF PoolInv
    <2>2. positions[id][i] \in Position /\ offer \in Settlement
      BY <1>2
    <2>3. AcceptedBps(i, id) \in Nat
      BY <2>2 DEF AcceptedBps, Position, Settlement
    <2>4. more \in Settlement /\ more.amount = offer.amount
      BY <2>2, <2>3 DEF Settlement
    <2>5. settlement' \in [Ids -> Settlement] /\ settlement'[id].amount = settlement[id].amount
      BY <1>2, <1>3, <2>4
    <2>6. PoolTypeOK'
      BY <1>1, <1>3, <2>5 DEF PoolInv, PoolTypeOK, careVars
    <2>7. OthersKept(id)
      BY <1>2, <1>3 DEF OthersKept, nftVars
    <2>8. InvoiceInv(id)'
      BY <1>3, <2>5 DEF PoolInv, InvoiceInv, PoolAgrees, PaidOutAtMostOnce, PoolOpen,
         HasSettlement, nftVars
    <2> QED  BY <2>1, <2>6, <2>7, <2>8, OneInvoice DEF PoolInv
  <1>4. CASE SettleEarly(i, id)
    <2>0. /\ pools' = [pools EXCEPT ![id] = closed]
          /\ distributions' = [distributions EXCEPT ![id] = @ + 1]
          /\ set_repaid(PoolAddr, id)
          /\ settlement' = [settlement EXCEPT ![id] = NoSettlement]
      BY <1>4, DistributeCounts DEF SettleEarly
    <2>1. NftInv'
      BY <2>0, SetRepaidInv DEF PoolInv
    <2>2. pools[id] \in Pool /\ offer.amount \in Nat
      BY <1>2 DEF Settlement
    <2>3. closed \in Pool
      BY <2>2 DEF Pool
    <2>4. /\ closed.exists = pools[id].exists
          /\ closed.is_closed
          /\ closed.token = pools[id].token
          /\ closed.face_value = pools[id].face_value
          /\ closed.total_owed = pools[id].total_owed
          /\ closed.penalty_applied = pools[id].penalty_applied
      BY <2>2 DEF Pool
    <2> HIDE DEF closed
    <2>5. pools' \in [Ids -> Pool] /\ pools'[id] = closed
      BY <1>2, <2>0, <2>3
    <2>6. settlement' \in [Ids -> Settlement] /\ settlement'[id].amount = 0
      BY <1>2, <2>0, NoSettlementType DEF NoSettlement
    <2>7. distributions' \in [Ids -> Nat]
      BY <1>2, <2>0
    <2>8. PoolTypeOK'
      BY <1>1, <2>5, <2>6, <2>7 DEF PoolInv, PoolTypeOK, careVars
    <2>9. OthersKept(id)
      BY <1>2, <2>0 DEF OthersKept, set_repaid
    <2>10. invoices[id].status = "Funded" /\ distributions[id] = 0
      BY <2>0 DEF set_repaid, HasStatus, PoolInv, InvoiceInv, PaidOutAtMostOnce
    <2>11. /\ invoices'[id].status = "Repaid"
           /\ invoices'[id].amount = invoices[id].amount
           /\ distributions'[id] = 1
      BY <1>2, <2>0, <2>10 DEF set_repaid, Invoice
    <2>12. /\ pools[id].exists
           /\ pools[id].token \in Tokens
           /\ pools[id].face_value = invoices[id].amount
           /\ pools[id].total_owed = pools[id].face_value +
                (IF pools[id].penalty_applied
                 THEN bps_of(pools[id].face_value, LatePenaltyBps) ELSE 0)
      BY <1>1 DEF PoolInv, InvoiceInv, PoolAgrees, MayAccept, PoolOpen
    <2>13. PaidOutAtMostOnce(id)'
      BY <2>11 DEF PaidOutAtMostOnce
    <2>14. ~HasSettlement(id)' /\ ~PoolOpen(id)'
      BY <2>4, <2>5, <2>6 DEF HasSettlement, PoolOpen
    <2>15. /\ pools'[id].exists
           /\ pools'[id].is_closed
           /\ pools'[id].token \in Tokens
           /\ pools'[id].face_value = invoices'[id].amount
           /\ pools'[id].total_owed = pools'[id].face_value +
                (IF pools'[id].penalty_applied
                 THEN bps_of(pools'[id].face_value, LatePenaltyBps) ELSE 0)
      BY <2>4, <2>5, <2>11, <2>12
    <2>16. InvoiceInv(id)'
      BY <2>11, <2>13, <2>14, <2>15 DEF InvoiceInv, PoolAgrees
    <2> QED  BY <2>1, <2>8, <2>9, <2>16, OneInvoice DEF PoolInv
  <1> QED  BY <1>3, <1>4 DEF accept_early_settlement

-----------------------------------------------------------------------------
(* Steps of the NFT contract alone.                                         *)

\* The step changes the record of one invoice that has no pool, and leaves it
\* without one.
ChangesUnfunded(id) ==
    /\ \A i \in Ids \ {id} : invoices'[i] = invoices[i]
    /\ invoices[id].status \in {"Absent", "Created"}
    /\ invoices'[id].status \in {"Absent", "Created", "Listed"}

\* Such a step keeps what the pool's storage says of every invoice.
LEMMA UnfundedInv ==
  ASSUME PoolInv, NftInv', UNCHANGED poolVars, NEW id \in Ids, ChangesUnfunded(id)
  PROVE  PoolInv'
  <1>1. PoolTypeOK'
    BY DEF PoolInv, PoolTypeOK, poolVars, careVars
  <1>2. OthersKept(id)
    BY DEF OthersKept, ChangesUnfunded, poolVars
  <1>3. InvoiceInv(id)'
    BY DEF PoolInv, InvoiceInv, PoolAgrees, PaidOutAtMostOnce, PoolOpen, HasSettlement,
       ChangesUnfunded, poolVars
  <1> QED  BY <1>1, <1>2, <1>3, OneInvoice DEF PoolInv

\* The SME's entry points concern invoices that have no pool yet.
LEMMA SmeChangesUnfunded ==
  ASSUME NftInv, SmeNext
  PROVE  \E id \in Ids : ChangesUnfunded(id) /\ invoices'[id].status # "Listed"
  <1>1. invoices \in [Ids -> Invoice] /\ next_id \in Nat \ {0}
    BY DEF NftInv, NftTypeOK, EnvTypeOK
  <1>2. ASSUME NEW sme \in SMEs, NEW amount \in Amounts, NEW currency \in Currencies,
               NEW due_date \in DueDates, NEW document \in Documents, NEW score \in Scores,
               mint_invoice(sme, amount, currency, due_date, document, score)
        PROVE  \E id \in Ids : ChangesUnfunded(id) /\ invoices'[id].status # "Listed"
    <2>1. PICK id \in Ids : id = next_id
      BY <1>1, <1>2, NftAssumption DEF mint_invoice, Ids
    <2>2. invoices[id].status = "Absent"
      BY <1>1, <2>1 DEF NftInv, Timeline, TimelineOf, NoInvoice, Ids
    <2>3. invoices'[id].status = "Created"
      BY <1>1, <1>2, <2>1 DEF mint_invoice, NoInvoice
    <2>4. \A i \in Ids \ {id} : invoices'[i] = invoices[i]
      BY <1>1, <1>2, <2>1 DEF mint_invoice
    <2> QED  BY <2>1, <2>2, <2>3, <2>4 DEF ChangesUnfunded
  <1>3. ASSUME NEW sme \in SMEs, NEW id \in Ids, NEW amount \in Amounts,
               NEW due_date \in DueDates, NEW document \in Documents, NEW score \in Scores,
               amend_invoice(sme, id, amount, due_date, document, score)
        PROVE  ChangesUnfunded(id) /\ invoices'[id].status # "Listed"
    BY <1>1, <1>3 DEF amend_invoice, HasStatus, OwnedCreated, ChangesUnfunded, Invoice
  <1>4. ASSUME NEW sme \in SMEs, NEW id \in Ids, withdraw_invoice(sme, id)
        PROVE  ChangesUnfunded(id) /\ invoices'[id].status # "Listed"
    BY <1>1, <1>4 DEF withdraw_invoice, HasStatus, OwnedCreated, ChangesUnfunded, NoInvoice
  <1>5. ASSUME NEW sme \in SMEs, NEW id \in Ids, NEW hash \in Documents,
               commit_metadata_hash(sme, id, hash)
        PROVE  ChangesUnfunded(id) /\ invoices'[id].status # "Listed"
    BY <1>1, <1>5 DEF commit_metadata_hash, HasStatus, OwnedCreated, ChangesUnfunded, Invoice
  <1> QED  BY <1>2, <1>3, <1>4, <1>5 DEF SmeNext

\* The steps of the NFT contract and of the environment preserve the invariant.
LEMMA NftStepInv ==
  ASSUME PoolInv, NftStep, UNCHANGED poolVars
  PROVE  PoolInv'
  <1>1. CASE SmeNext /\ UNCHANGED envVars
    <2>1. NftInv'
      BY <1>1, SmeNextInv DEF PoolInv
    <2> QED  BY <1>1, <2>1, SmeChangesUnfunded, UnfundedInv DEF PoolInv
  <1>2. CASE NftAdminNext /\ UNCHANGED envVars
    <2> PICK id \in Ids : set_defaulted(id) \/ freeze_invoice(id) \/ unfreeze_invoice(id)
      BY <1>2 DEF NftAdminNext
    <2>1. CASE set_defaulted(id)
      BY <1>2, <2>1, DirectDefaultInv
    <2>2. CASE freeze_invoice(id) \/ unfreeze_invoice(id)
      <3>1. NftInv'
        BY <1>2, <2>2, FreezeInv DEF PoolInv
      <3>2. PoolTypeOK'
        BY DEF PoolInv, PoolTypeOK, poolVars, careVars
      <3>3. CoreKept
        BY <2>2 DEF CoreKept, poolVars, freeze_invoice, unfreeze_invoice
      <3> QED  BY <3>1, <3>2, <3>3, CoreKeptInv DEF PoolInv
    <2> QED  BY <2>1, <2>2
  <1>3. CASE Environment /\ UNCHANGED nftVars
    <2>1. NftInv'
      BY <1>3, EnvironmentInv DEF PoolInv
    <2>2. PoolTypeOK'
      BY DEF PoolInv, PoolTypeOK, poolVars, careVars
    <2>3. CoreKept
      BY <1>3 DEF CoreKept, poolVars, nftVars
    <2> QED  BY <2>1, <2>2, <2>3, CoreKeptInv DEF PoolInv
  <1> QED  BY <1>1, <1>2, <1>3 DEF NftStep

\* Listing an invoice, as the marketplace does, preserves the invariant.
LEMMA ListedInv ==
  ASSUME PoolInv, NEW id \in Ids, NEW caller, set_listed(caller, id),
         UNCHANGED <<envVars, poolVars>>
  PROVE  PoolInv'
  <1>1. NftInv'
    BY SetListedInv DEF PoolInv
  <1>2. ChangesUnfunded(id)
    BY DEF PoolInv, NftInv, NftTypeOK, set_listed, HasStatus, ChangesUnfunded, Invoice
  <1> QED  BY <1>1, <1>2, UnfundedInv

\* Every step of the pool contract preserves the invariant.
LEMMA PoolStepInv ==
  ASSUME PoolInv, PoolStep
  PROVE  PoolInv'
  <1>1. CASE OpenNext
    BY <1>1, ReleaseInv DEF OpenNext, PoolStep
  <1>2. CASE RepayNext
    BY <1>2, RepayInv DEF RepayNext, PoolStep
  <1>3. CASE DefaultNext
    BY <1>3, DefaultInv DEF DefaultNext, PoolStep
  <1>4. CASE SettlementNext
    BY <1>4, ProposeInv, AcceptInv, CancelSettlementInv DEF SettlementNext, PoolStep
  <1> QED
    BY <1>1, <1>2, <1>3, <1>4, RecordInv, CapInv, MarketInv DEF PoolStep

\* Every step of the two contracts preserves the invariant.
LEMMA PoolNextInv ==
  ASSUME PoolInv, [PoolNext]_allPoolVars
  PROVE  PoolInv'
  <1>1. CASE PoolStep
    BY <1>1, PoolStepInv
  <1>2. CASE NftStep /\ UNCHANGED <<poolVars, pool_balance>>
    BY <1>2, NftStepInv
  <1>3. CASE ListNext /\ UNCHANGED <<poolVars, pool_balance>>
    BY <1>3, ListedInv DEF ListNext
  <1>4. CASE UNCHANGED allPoolVars
    <2>1. UNCHANGED <<envVars, nftVars>> /\ UNCHANGED poolVars
      BY <1>4 DEF allPoolVars
    <2>2. NftInv'
      BY <2>1, NftKept DEF PoolInv
    <2>3. PoolTypeOK'
      BY <2>1 DEF PoolInv, PoolTypeOK, poolVars, careVars
    <2>4. CoreKept
      BY <2>1 DEF CoreKept, poolVars, nftVars
    <2> QED  BY <2>2, <2>3, <2>4, CoreKeptInv DEF PoolInv
  <1> QED  BY <1>1, <1>2, <1>3, <1>4 DEF PoolNext

\* The inductive invariant holds in every state of the two contracts.
LEMMA PoolInvariant == PoolSpec => []PoolInv
  <1>1. PoolInv /\ [PoolNext]_allPoolVars => PoolInv'
    BY PoolNextInv
  <1> QED  BY PoolInitInv, <1>1, PTL DEF PoolSpec, PoolSystemInit

\* The storage of the pool contract is well formed in every reachable state.
THEOREM PoolTypeCorrect == PoolSpec => []PoolTypeOK
  <1>1. PoolInv => PoolTypeOK
    BY DEF PoolInv
  <1> QED  BY PoolInvariant, <1>1, PTL

\* The pool and the NFT contract never disagree about an invoice, whatever the
\* payer, the admin, the SME and the investors do in whatever order.
THEOREM PoolAgreement == PoolSpec => []PoolsAgreeWithInvoices
  <1>1. PoolInv => PoolsAgreeWithInvoices
    BY DEF PoolInv, InvoiceInv, PoolsAgreeWithInvoices
  <1> QED  BY PoolInvariant, <1>1, PTL

\* Repayment, default and early settlement pay an invoice's investors at most
\* once between them.
THEOREM PoolPaidOutOnce == PoolSpec => []PaidOutOnce
  <1>1. PoolInv => PaidOutOnce
    BY DEF PoolInv, InvoiceInv, PaidOutOnce
  <1> QED  BY PoolInvariant, <1>1, PTL

-----------------------------------------------------------------------------
(* Shares of an amount, at a token's decimals.                              *)

\* A table of the powers of ten up to n.
PowerTable(n, g) ==
    /\ g \in [0..n -> Int]
    /\ \A k \in 0..n : g[k] = IF k = 0 THEN 1 ELSE 10 * g[k - 1]

\* There is a table of every length.
LEMMA PowerTableExists == \A n \in Nat : \E g : PowerTable(n, g)
  <1> DEFINE Good == {n \in Nat : \E g : PowerTable(n, g)}
  <1>1. 0 \in Good
    <2>1. PowerTable(0, [k \in 0..0 |-> 1])
      BY DEF PowerTable
    <2> QED  BY <2>1
  <1>2. ASSUME NEW n \in Nat, n \in Good PROVE n + 1 \in Good
    <2>1. PICK g : PowerTable(n, g)
      BY <1>2
    <2> DEFINE h == [k \in 0..(n + 1) |-> IF k <= n THEN g[k] ELSE 10 * g[n]]
    <2>2. h \in [0..(n + 1) -> Int]
      BY <2>1 DEF PowerTable
    <2>3. ASSUME NEW k \in 0..(n + 1) PROVE h[k] = IF k = 0 THEN 1 ELSE 10 * h[k - 1]
      BY <2>1 DEF PowerTable
    <2> HIDE DEF h
    <2>4. PowerTable(n + 1, h)
      BY <2>2, <2>3 DEF PowerTable
    <2> QED  BY <2>4
  <1> HIDE DEF Good
  <1>3. \A n \in Nat : n \in Good
    BY <1>1, <1>2, NaturalClosure
  <1> QED  BY <1>3 DEF Good

\* Two tables agree wherever both have an entry.
LEMMA PowerTablesAgree ==
  ASSUME NEW n \in Nat, NEW m \in Nat, m <= n, NEW g, NEW h, PowerTable(n, g), PowerTable(m, h)
  PROVE  \A k \in 0..m : g[k] = h[k]
  <1> DEFINE Good == {k \in Nat : k <= m => g[k] = h[k]}
  <1>1. 0 \in Good
    BY DEF PowerTable
  <1>2. ASSUME NEW k \in Nat, k \in Good PROVE k + 1 \in Good
    <2> SUFFICES ASSUME k + 1 <= m PROVE g[k + 1] = h[k + 1]
      OBVIOUS
    <2>1. k + 1 \in 0..n /\ k + 1 \in 0..m /\ k + 1 # 0 /\ (k + 1) - 1 = k /\ k <= m
      OBVIOUS
    <2>2. g[k + 1] = 10 * g[k] /\ h[k + 1] = 10 * h[k]
      BY <2>1 DEF PowerTable
    <2> QED  BY <1>2, <2>1, <2>2
  <1> HIDE DEF Good
  <1>3. \A k \in Nat : k \in Good
    BY <1>1, <1>2, NaturalClosure
  <1> QED  BY <1>3 DEF Good

\* What the recursive definition of PowerOfTen says is so.
LEMMA PowerUnfolded ==
  /\ PowerOfTen[0] = 1
  /\ \A k \in Nat : PowerOfTen[k + 1] = 10 * PowerOfTen[k]
  <1> DEFINE Table(n) == CHOOSE g : PowerTable(n, g)
             IsPower(f) == f = [k \in Nat |-> IF k = 0 THEN 1 ELSE 10 * f[k - 1]]
             p == [k \in Nat |-> Table(k)[k]]
  <1>1. \A n \in Nat : PowerTable(n, Table(n))
    BY PowerTableExists
  <1> HIDE DEF Table
  <1>2. ASSUME NEW k \in Nat PROVE p[k] = IF k = 0 THEN 1 ELSE 10 * p[k - 1]
    <2>1. CASE k = 0
      BY <1>1, <2>1 DEF PowerTable
    <2>2. CASE k # 0
      <3>1. k - 1 \in Nat /\ k - 1 <= k /\ k \in 0..k /\ k - 1 \in 0..(k - 1)
        BY <2>2
      <3>2. PowerTable(k, Table(k)) /\ PowerTable(k - 1, Table(k - 1))
        BY <1>1, <3>1
      <3>3. Table(k)[k - 1] = Table(k - 1)[k - 1]
        BY <3>1, <3>2, PowerTablesAgree
      <3>4. Table(k)[k] = 10 * Table(k)[k - 1]
        BY <2>2, <3>1, <3>2 DEF PowerTable
      <3> QED  BY <2>2, <3>1, <3>3, <3>4
    <2> QED  BY <2>1, <2>2
  <1>3. IsPower(p)
    <2> DEFINE q == [k \in Nat |-> IF k = 0 THEN 1 ELSE 10 * p[k - 1]]
    <2>1. \A k \in Nat : p[k] = q[k]
      BY <1>2
    <2>2. p = q
      BY <2>1
    <2> QED  BY <2>2
  <1> HIDE DEF p
  <1>4. PowerOfTen = CHOOSE f : IsPower(f)
    BY DEF PowerOfTen
  <1>5. IsPower(PowerOfTen)
    BY <1>3, <1>4
  <1>6. \A k \in Nat : PowerOfTen[k] = IF k = 0 THEN 1 ELSE 10 * PowerOfTen[k - 1]
    BY <1>5
  <1>7. ASSUME NEW k \in Nat PROVE PowerOfTen[k + 1] = 10 * PowerOfTen[k]
    <2>1. k + 1 \in Nat /\ k + 1 # 0 /\ (k + 1) - 1 = k
      OBVIOUS
    <2> HIDE DEF IsPower
    <2> QED  BY <1>6, <2>1
  <1>8. PowerOfTen[0] = 1
    BY <1>6
  <1> QED  BY <1>7, <1>8

\* A power of ten is a positive number.
LEMMA PowerPositive == \A k \in Nat : PowerOfTen[k] \in Nat \ {0}
  <1> DEFINE Good == {k \in Nat : PowerOfTen[k] \in Nat \ {0}}
  <1>1. 0 \in Good
    BY PowerUnfolded
  <1>2. ASSUME NEW k \in Nat, k \in Good PROVE k + 1 \in Good
    BY <1>2, PowerUnfolded
  <1> HIDE DEF Good
  <1>3. \A k \in Nat : k \in Good
    BY <1>1, <1>2, NaturalClosure
  <1> QED  BY <1>3 DEF Good

\* A common positive factor cancels from an inequality.
LEMMA Cancel ==
  ASSUME NEW a \in Int, NEW b \in Int, NEW k \in Nat \ {0}, a * k <= b * k
  PROVE  a <= b
  <1> SUFFICES ASSUME a >= b + 1 PROVE FALSE
    OBVIOUS
  <1>1. (a - b - 1) * k >= 0
    OBVIOUS
  <1> QED  BY <1>1

\* Rounding a share of an amount down, at a token's decimals, takes no more than
\* the share.
LEMMA ShareRoundsDown ==
  ASSUME NEW amount \in Nat, NEW bps \in Nat, NEW decimals \in Nat
  PROVE  /\ bps_of_normalized(amount, bps, decimals) \in Nat
         /\ BPS_DENOMINATOR * bps_of_normalized(amount, bps, decimals) <= amount * bps
  <1> DEFINE x == amount * bps
  <1>1. x \in Nat
    OBVIOUS
  <1>2. CASE decimals <= STANDARD_DECIMALS
    <2> DEFINE k == PowerOfTen[STANDARD_DECIMALS - decimals]
               z == (amount * k) * bps
               b == z \div 10000
               paid == b \div k
    <2>1. k \in Nat \ {0}
      BY <1>2, PowerPositive DEF STANDARD_DECIMALS
    <2>2. bps_of_normalized(amount, bps, decimals) = paid
      BY <1>2 DEF bps_of_normalized, normalize_amount, denormalize_amount, bps_of, BPS_DENOMINATOR
    <2> HIDE DEF k
    <2>3. z = x * k /\ z \in Nat
      BY <2>1
    <2> HIDE DEF x, z
    <2>4. b \in Nat /\ 10000 * b <= z
      BY <2>3
    <2> HIDE DEF b
    <2>5. paid \in Nat /\ paid * k <= b
      BY <2>1, <2>4
    <2> HIDE DEF paid
    <2>6. (10000 * paid) * k <= x * k
      <3> DEFINE y == paid * k
      <3>1. y \in Nat /\ y <= b
        BY <2>1, <2>5
      <3>2. (10000 * paid) * k = 10000 * y
        BY <2>1, <2>5
      <3> HIDE DEF y
      <3> QED  BY <2>3, <2>4, <3>1, <3>2
    <2>7. 10000 * paid <= x
      BY <1>1, <2>1, <2>5, <2>6, Cancel
    <2> QED  BY <2>2, <2>5, <2>7 DEF BPS_DENOMINATOR, x
  <1>3. CASE decimals > STANDARD_DECIMALS
    <2> DEFINE k == PowerOfTen[decimals - STANDARD_DECIMALS]
               n == amount \div k
               z == n * bps
               b == z \div 10000
               paid == b * k
    <2>1. k \in Nat \ {0}
      BY <1>3, PowerPositive DEF STANDARD_DECIMALS
    <2>2. bps_of_normalized(amount, bps, decimals) = paid
      BY <1>3 DEF bps_of_normalized, normalize_amount, denormalize_amount, bps_of,
                  BPS_DENOMINATOR, STANDARD_DECIMALS
    <2> HIDE DEF k
    <2>3. n \in Nat /\ n * k <= amount
      BY <2>1
    <2> HIDE DEF n
    <2>4. z \in Nat
      BY <2>3
    <2>5. z * k <= x
      <3> DEFINE y == n * k
      <3>1. y \in Nat /\ y <= amount
        BY <2>1, <2>3
      <3>2. z * k = y * bps
        BY <2>1, <2>3
      <3> HIDE DEF y
      <3>3. (amount - y) * bps >= 0
        BY <3>1
      <3>4. y * bps <= amount * bps
        BY <3>1, <3>3
      <3> QED  BY <3>2, <3>4
    <2> HIDE DEF z, x
    <2>6. b \in Nat /\ 10000 * b <= z
      BY <2>4
    <2> HIDE DEF b
    <2>7. paid \in Nat /\ 10000 * paid <= x
      <3>1. paid \in Nat /\ z * k \in Nat
        BY <2>1, <2>4, <2>6
      <3>2. (z - 10000 * b) * k >= 0
        BY <2>1, <2>4, <2>6
      <3>3. 10000 * paid <= z * k
        BY <2>1, <2>4, <2>6, <3>2
      <3> HIDE DEF paid
      <3> QED  BY <1>1, <2>5, <3>1, <3>3
    <2> QED  BY <2>2, <2>7 DEF BPS_DENOMINATOR, x
  <1> QED  BY <1>2, <1>3 DEF STANDARD_DECIMALS
-----------------------------------------------------------------------------
(* The shares of a pool stay within the whole.                              *)

\* A recorded share is the contribution's part of the total, rounded down.
ShareRounded(position, total) ==
    /\ total * position.share_bps <= BPS_DENOMINATOR * position.contributed
    /\ total = 0 => position.share_bps = 0

\* What the positions of one pool satisfy: the contributions add up to no more
\* than the total that the shares were computed from.
WithinPool(held, total) ==
    /\ \A i \in Investors : ShareRounded(held[i], total)
    /\ SumFunctionOnSet([i \in Investors |-> held[i].contributed], Investors) <= total

\* So it is in every pool whose positions were recorded regularly.
SharesInv == \A id \in Ids : "record" \notin irregular[id] => WithinPool(positions[id], whole[id])

\* Such positions add up to 10_000 basis points at most.
LEMMA WithinPoolShares ==
  ASSUME NEW held \in [Investors -> Position], NEW total \in Nat, WithinPool(held, total)
  PROVE  SumFunctionOnSet([i \in Investors |-> held[i].share_bps], Investors) <= BPS_DENOMINATOR
  <1> DEFINE f == [i \in Investors |-> held[i].share_bps]
             g == [i \in Investors |-> held[i].contributed]
             S == SumFunctionOnSet(f, Investors)
             C == SumFunctionOnSet(g, Investors)
  <1>1. IsFiniteSet(Investors)
    BY PoolAssumption
  <1>2. \A i \in Investors : f[i] \in Nat /\ g[i] \in Nat
    BY DEF Position
  <1>3. CASE total = 0
    <2>1. \A i \in Investors : f[i] = 0
      BY <1>3 DEF WithinPool, ShareRounded
    <2> HIDE DEF f
    <2>2. S = 0
      BY <1>1, <2>1, SumZero
    <2> QED  BY <2>2 DEF BPS_DENOMINATOR, f
  <1>4. CASE total # 0
    <2>1. \A i \in Investors : total * f[i] <= BPS_DENOMINATOR * g[i]
      BY DEF WithinPool, ShareRounded
    <2>2. C <= total
      BY DEF WithinPool
    <2> HIDE DEF f, g
    <2>3. \A i \in Investors : f[i] \in Int /\ g[i] \in Int
      BY <1>2
    <2>4. BPS_DENOMINATOR \in Int /\ total \in Int
      BY DEF BPS_DENOMINATOR
    <2>5. total * S <= BPS_DENOMINATOR * C
      BY <1>1, <2>1, <2>3, <2>4, SumProportion
    <2>6. S \in Int /\ C \in Int
      BY <1>1, <2>3, SumType
    <2> HIDE DEF S, C
    <2>7. S * total <= BPS_DENOMINATOR * total
      BY <2>2, <2>5, <2>6 DEF BPS_DENOMINATOR
    <2>8. S <= BPS_DENOMINATOR
      BY <1>4, <2>4, <2>6, <2>7, Cancel
    <2> QED  BY <2>8 DEF S, f
  <1> QED  BY <1>3, <1>4

\* Writing one investor's position changes the sum by the difference.
LEMMA OnePositionChanged ==
  ASSUME NEW held \in [Investors -> Position], NEW i \in Investors, NEW position \in Position
  PROVE  LET Total(p) == SumFunctionOnSet([k \in Investors |-> p[k].contributed], Investors)
         IN  /\ Total([held EXCEPT ![i] = position])
                  = Total(held) - held[i].contributed + position.contributed
             /\ Total(held) \in Nat
  <1> DEFINE new == [held EXCEPT ![i] = position]
             f == [k \in Investors |-> held[k].contributed]
             g == [k \in Investors |-> new[k].contributed]
  <1>1. IsFiniteSet(Investors)
    BY PoolAssumption
  <1>2. \A k \in Investors : f[k] \in Nat /\ g[k] \in Nat
    BY DEF Position
  <1>3. \A k \in Investors \ {i} : g[k] = f[k]
    OBVIOUS
  <1>4. f[i] = held[i].contributed /\ g[i] = position.contributed
    OBVIOUS
  <1> HIDE DEF f, g
  <1>5. SumFunctionOnSet(g, Investors) = SumFunctionOnSet(f, Investors) - f[i] + g[i]
    BY <1>1, <1>2, <1>3, SumOneChanged
  <1>6. SumFunctionOnSet(f, Investors) \in Nat
    BY <1>1, <1>2, SumNat
  <1> QED  BY <1>4, <1>5, <1>6 DEF f, g

\* A step that writes no position keeps the shares, whatever else it notes.
LEMMA SharesKept ==
  ASSUME SharesInv, UNCHANGED <<positions, whole>>,
         \A id \in Ids : irregular[id] \subseteq irregular'[id]
  PROVE  SharesInv'
  BY DEF SharesInv

\* In a pool whose positions cover nothing, every share is nothing.
LEMMA EmptyPoolShares ==
  ASSUME NEW held \in [Investors -> Position], WithinPool(held, 0), NEW total \in Nat,
         NEW i \in Investors
  PROVE  ShareRounded(held[i], total)
  <1>1. held[i].share_bps = 0 /\ held[i].contributed \in Nat
    BY DEF WithinPool, ShareRounded, Position
  <1>2. total * 0 <= BPS_DENOMINATOR * held[i].contributed
    BY <1>1 DEF BPS_DENOMINATOR
  <1> QED  BY <1>1, <1>2 DEF ShareRounded

\* record_position rounds the share down; a regular record is a part of the
\* same total as the others, and the total covers it.
LEMMA RecordShares ==
  ASSUME PoolInv, SharesInv, RecordNext
  PROVE  SharesInv'
  <1> PICK id \in Ids, i \in Investors, c \in Contributions, total \in TotalPools :
        record_position(id, i, c, total)
    BY DEF RecordNext
  <1> DEFINE share == share_bps(c, total)
             position == [contributed |-> c, share_bps |-> share]
             held == positions[id]
             new == [held EXCEPT ![i] = position]
  <1>1. c \in Nat \ {0} /\ total \in Nat \ {0} /\ c <= total
    BY PoolAssumption DEF record_position
  <1>2. share \in Nat
    BY <1>1, ShareType
  <1>3. position \in Position
    BY <1>1, <1>2 DEF Position
  <1>4. total * share <= BPS_DENOMINATOR * c
    <2> DEFINE z == c * BPS_DENOMINATOR
    <2>1. z \in Nat /\ z = BPS_DENOMINATOR * c
      BY <1>1 DEF BPS_DENOMINATOR
    <2>2. share = z \div total
      BY DEF share_bps
    <2> HIDE DEF z, share
    <2>3. total * (z \div total) <= z
      BY <1>1, <2>1
    <2> QED  BY <2>1, <2>2, <2>3
  <1>5. /\ positions \in [Ids -> [Investors -> Position]] /\ held \in [Investors -> Position]
        /\ whole \in [Ids -> Nat] /\ irregular \in [Ids -> SUBSET Irregularities]
    BY DEF PoolInv, PoolTypeOK
  <1>6. /\ positions' = [positions EXCEPT ![id] = new]
        /\ whole' = [whole EXCEPT ![id] = IF @ = 0 THEN total ELSE @]
        /\ irregular' = [irregular EXCEPT ![id] = @ \cup
             (IF RegularRecord(id, i, c, total) THEN {} ELSE {"record"})]
    BY <1>5 DEF record_position, Note
  <1> HIDE DEF share
  <1>7. ASSUME "record" \notin irregular'[id] PROVE WithinPool(new, whole'[id])
    <2>1. RegularRecord(id, i, c, total) /\ "record" \notin irregular[id]
      BY <1>5, <1>6, <1>7
    <2>2. whole'[id] = total /\ (whole[id] = 0 \/ whole[id] = total)
      BY <1>1, <1>5, <1>6, <2>1 DEF RegularRecord
    <2>3. ShareRounded(position, total)
      BY <1>1, <1>4 DEF ShareRounded
    <2>4. SumFunctionOnSet([k \in Investors |-> held[k].contributed], Investors)
            - held[i].contributed + c <= total
      BY <2>1 DEF RegularRecord, TotalContributed
    <2>5. SumFunctionOnSet([k \in Investors |-> new[k].contributed], Investors) <= total
      <3>1. position.contributed = c
        OBVIOUS
      <3> HIDE DEF position
      <3> QED  BY <1>3, <1>5, <2>4, <3>1, OnePositionChanged
    <2>6. \A k \in Investors : ShareRounded(new[k], total)
      <3>1. WithinPool(held, whole[id])
        BY <2>1 DEF SharesInv
      <3>2. \A k \in Investors : ShareRounded(held[k], total)
        <4>1. CASE whole[id] = total
          BY <3>1, <4>1 DEF WithinPool
        <4>2. CASE whole[id] = 0
          <5> HIDE DEF held
          <5> QED  BY <1>1, <1>5, <3>1, <4>2, EmptyPoolShares
        <4> QED  BY <2>2, <4>1, <4>2
      <3> HIDE DEF position, held
      <3> QED  BY <1>5, <2>3, <3>2
    <2> QED  BY <2>2, <2>5, <2>6 DEF WithinPool
  <1> HIDE DEF new
  <1>8. positions'[id] = new
    BY <1>5, <1>6
  <1>9. \A k \in Ids \ {id} : /\ positions'[k] = positions[k] /\ whole'[k] = whole[k]
                              /\ irregular'[k] = irregular[k]
    BY <1>5, <1>6
  <1> QED  BY <1>7, <1>8, <1>9 DEF SharesInv

\* buy_position moves a position; one the buyer held is lost, not added.
LEMMA BuyShares ==
  ASSUME PoolInv, SharesInv, NEW id \in Ids, NEW buyer \in Investors, NEW seller \in Investors,
         buy_position(buyer, id, seller)
  PROVE  SharesInv'
  <1> DEFINE held == positions[id]
             sold == held[seller]
             mid == [held EXCEPT ![seller] = NoPosition]
             new == [mid EXCEPT ![buyer] = sold]
             total == whole[id]
             Total(p) == SumFunctionOnSet([k \in Investors |-> p[k].contributed], Investors)
  <1>1. /\ positions \in [Ids -> [Investors -> Position]] /\ held \in [Investors -> Position]
        /\ total \in Nat
    BY DEF PoolInv, PoolTypeOK
  <1>2. positions' = [positions EXCEPT ![id] = new] /\ UNCHANGED <<whole, irregular>>
    BY DEF buy_position, careVars
  <1>3. NoPosition \in Position /\ NoPosition.contributed = 0 /\ NoPosition.share_bps = 0
    BY DEF NoPosition, Position
  <1>4. sold \in Position /\ sold.contributed \in Nat
    BY <1>1 DEF Position
  <1>5. mid \in [Investors -> Position] /\ mid[buyer].contributed \in Nat
    BY <1>1, <1>3 DEF Position
  <1>6. Total(mid) = Total(held) - sold.contributed
    <2> DEFINE none == NoPosition
    <2>1. none \in Position /\ none.contributed = 0
      BY <1>3
    <2> HIDE DEF none
    <2>2. /\ Total([held EXCEPT ![seller] = none])
               = Total(held) - held[seller].contributed + none.contributed
          /\ Total(held) \in Nat
      BY <1>1, <2>1, OnePositionChanged
    <2>3. Total(held) - held[seller].contributed + 0 = Total(held) - held[seller].contributed
      BY <1>4, <2>2
    <2> QED  BY <2>1, <2>2, <2>3 DEF none
  <1> HIDE DEF mid
  <1>7. Total(new) = Total(mid) - mid[buyer].contributed + sold.contributed
    BY <1>4, <1>5, OnePositionChanged
  <1>8. ASSUME "record" \notin irregular[id] PROVE WithinPool(new, total)
    <2>1. WithinPool(held, total)
      BY <1>8 DEF SharesInv
    <2>2. Total(held) \in Nat /\ Total(held) <= total
      BY <1>1, <1>4, <2>1, OnePositionChanged DEF WithinPool
    <2>3. Total(new) <= total
      <3> HIDE DEF total, new, held
      <3> QED  BY <1>1, <1>4, <1>5, <1>6, <1>7, <2>2
    <2>4. ShareRounded(NoPosition, total)
      <3> HIDE DEF total
      <3> QED  BY <1>1, <1>3 DEF ShareRounded, BPS_DENOMINATOR
    <2>5. \A k \in Investors : ShareRounded(held[k], total)
      BY <2>1 DEF WithinPool
    <2>6. \A k \in Investors : new[k] \in {NoPosition, held[k], held[seller]}
      BY <1>1 DEF mid
    <2>7. \A k \in Investors : ShareRounded(new[k], total)
      <3> HIDE DEF new, total, held
      <3> QED  BY <2>4, <2>5, <2>6
    <2> QED  BY <2>3, <2>7 DEF WithinPool
  <1> HIDE DEF new
  <1>9. positions'[id] = new /\ \A k \in Ids \ {id} : positions'[k] = positions[k]
    BY <1>1, <1>2
  <1> QED  BY <1>2, <1>8, <1>9 DEF SharesInv

\* Whatever a step of the pool notes of an invoice stays noted.
LEMMA NotesStay ==
  ASSUME PoolInv, PoolStep
  PROVE  \A id \in Ids : irregular[id] \subseteq irregular'[id]
  <1>1. irregular \in [Ids -> SUBSET Irregularities]
    BY DEF PoolInv, PoolTypeOK
  <1>2. CASE UNCHANGED irregular
    BY <1>2
  <1>3. ASSUME NEW id \in Ids, NEW causes, Note(id, causes)
        PROVE  \A k \in Ids : irregular[k] \subseteq irregular'[k]
    BY <1>1, <1>3 DEF Note
  <1>4. CASE RecordNext
    BY <1>3, <1>4 DEF RecordNext, record_position
  <1>5. CASE RepayNext \/ DefaultNext
    BY <1>2, <1>3, <1>5 DEF RepayNext, DefaultNext, repay, mark_default
  <1>6. CASE CapNext \/ OpenNext \/ SettlementNext \/ MarketNext
    BY <1>2, <1>6 DEF CapNext, OpenNext, SettlementNext, MarketNext, set_max_position_bps,
       release_funds, propose_early_settlement, accept_early_settlement,
       cancel_early_settlement, list_position_for_sale, buy_position, careVars
  <1> QED  BY <1>4, <1>5, <1>6 DEF PoolStep

\* No other step of the pool writes a position.
LEMMA SharesStep ==
  ASSUME PoolInv, SharesInv, PoolStep
  PROVE  SharesInv'
  <1>1. CASE UNCHANGED <<positions, whole>>
    BY <1>1, NotesStay, SharesKept
  <1>2. CASE RecordNext
    BY <1>2, RecordShares
  <1>3. CASE MarketNext
    BY <1>1, <1>3, BuyShares DEF MarketNext, list_position_for_sale, careVars
  <1>4. CapNext \/ OpenNext => UNCHANGED <<positions, whole>>
    BY DEF CapNext, OpenNext, set_max_position_bps, release_funds, careVars
  <1>5. RepayNext \/ DefaultNext => UNCHANGED <<positions, whole>>
    BY DEF RepayNext, DefaultNext, repay, mark_default
  <1>6. SettlementNext => UNCHANGED <<positions, whole>>
    BY DEF SettlementNext, propose_early_settlement, accept_early_settlement,
           cancel_early_settlement, careVars
  <1> QED  BY <1>1, <1>2, <1>3, <1>4, <1>5, <1>6 DEF PoolStep

\* Nobody holds a position to begin with.
LEMMA SharesInitInv == PoolInit => SharesInv
  <1> SUFFICES ASSUME PoolInit, NEW id \in Ids PROVE WithinPool(positions[id], whole[id])
    BY DEF SharesInv
  <1> DEFINE f == [i \in Investors |-> positions[id][i].contributed]
  <1>1. whole[id] = 0 /\ \A i \in Investors : positions[id][i] = NoPosition
    BY DEF PoolInit
  <1>2. NoPosition.contributed = 0 /\ NoPosition.share_bps = 0
    BY DEF NoPosition
  <1>3. \A i \in Investors : f[i] = 0
    BY <1>1, <1>2
  <1>4. \A i \in Investors : ShareRounded(positions[id][i], 0)
    BY <1>1, <1>2 DEF ShareRounded, BPS_DENOMINATOR
  <1> HIDE DEF f
  <1>5. SumFunctionOnSet(f, Investors) = 0
    BY <1>3, PoolAssumption, SumZero
  <1> QED  BY <1>1, <1>4, <1>5 DEF WithinPool, f

-----------------------------------------------------------------------------
\* Recorded against one total and within it, the shares of a pool never add up to
\* more than the whole, however positions are recorded, corrected and sold.
THEOREM PoolSharesWithinWhole == PoolSpec => []SharesWithinWhole
  <1>1. PoolInv /\ SharesInv /\ [PoolNext]_allPoolVars => SharesInv'
    <2>1. UNCHANGED <<positions, careVars>> => (SharesInv => SharesInv')
      BY DEF SharesInv, careVars
    <2> QED  BY <2>1, SharesStep DEF PoolNext, allPoolVars, poolVars
  <1>2. PoolSystemInit => SharesInv
    BY SharesInitInv DEF PoolSystemInit
  <1>3. PoolSpec => []SharesInv
    BY <1>1, <1>2, PoolInvariant, PTL DEF PoolSpec
  <1>4. PoolInv /\ SharesInv => SharesWithinWhole
    BY WithinPoolShares
    DEF PoolInv, PoolTypeOK, SharesInv, SharesWithinWhole, TotalShares
  <1> QED  BY <1>3, <1>4, PoolInvariant, PTL

-----------------------------------------------------------------------------
(* Defaults reported to the risk registry.                                  *)

DefaultedOf(sme) ==
    {id \in Ids : invoices[id].sme = sme /\ invoices[id].status = "Defaulted"}

\* There are finitely many ids, so the defaulted ones can be counted.
LEMMA IdsFinite == IsFiniteSet(Ids) /\ \A S \in SUBSET Ids : IsFiniteSet(S) /\ Cardinality(S) \in Nat
  <1>1. IsFiniteSet(Ids)
    BY FS_Interval, NftAssumption DEF Ids
  <1> QED  BY <1>1, FS_Subset, FS_CardinalityType

\* A step that undoes no default and reports none keeps the count covered.
LEMMA DefaultsKept ==
  ASSUME PoolInv, DefaultsReportedOnce, UNCHANGED defaults,
         \A id \in Ids : invoices[id].status = "Defaulted" =>
             invoices'[id].status = "Defaulted" /\ invoices'[id].sme = invoices[id].sme
  PROVE  DefaultsReportedOnce'
  <1> SUFFICES ASSUME NEW sme \in SMEs PROVE defaults'[sme] <= Cardinality(DefaultedOf(sme)')
    BY DEF DefaultsReportedOnce, DefaultedOf
  <1> DEFINE old == DefaultedOf(sme)
             new == DefaultedOf(sme)'
  <1>1. old \in SUBSET new /\ new \in SUBSET Ids
    BY DEF DefaultedOf
  <1> HIDE DEF new
  <1>2. old \in SUBSET Ids /\ defaults[sme] <= Cardinality(old) /\ defaults[sme] \in Nat
    BY DEF DefaultedOf, DefaultsReportedOnce, PoolInv, PoolTypeOK
  <1> HIDE DEF old
  <1>3. Cardinality(old) <= Cardinality(new)
    BY <1>1, IdsFinite, FS_Subset
  <1>4. Cardinality(old) \in Nat /\ Cardinality(new) \in Nat
    BY <1>1, <1>2, IdsFinite
  <1> QED  BY <1>2, <1>3, <1>4 DEF new

\* mark_default makes one more invoice Defaulted and reports it once at most.
LEMMA MarkDefaultReported ==
  ASSUME PoolInv, DefaultsReportedOnce, NEW id \in Ids, NEW token \in Tokens,
         NEW recorded \in BOOLEAN, mark_default(id, token, recorded)
  PROVE  DefaultsReportedOnce'
  <1> DEFINE who == invoices[id].sme
  <1>1. invoices \in [Ids -> Invoice] /\ defaults \in [SMEs -> Nat]
    BY DEF PoolInv, NftInv, NftTypeOK, PoolTypeOK
  <1>2. invoices' = [invoices EXCEPT ![id].status = "Defaulted"] /\ invoices[id].status = "Funded"
    BY DEF mark_default, set_defaulted, Defaultable, HasStatus
  <1>3. \A k \in Ids : /\ invoices'[k].sme = invoices[k].sme
                       /\ invoices'[k].status = IF k = id THEN "Defaulted" ELSE invoices[k].status
    BY <1>1, <1>2 DEF Invoice
  <1>4. \A s \in SMEs : \/ defaults'[s] = defaults[s]
                        \/ s = who /\ defaults'[s] = defaults[s] + 1
    BY <1>1 DEF mark_default
  <1> SUFFICES ASSUME NEW sme \in SMEs PROVE defaults'[sme] <= Cardinality(DefaultedOf(sme)')
    BY DEF DefaultsReportedOnce, DefaultedOf
  <1> DEFINE old == DefaultedOf(sme)
             new == DefaultedOf(sme)'
  <1>5. old \in SUBSET Ids /\ id \notin old
    BY <1>2 DEF DefaultedOf
  <1>6. new = IF sme = who THEN old \cup {id} ELSE old
    <2>1. CASE sme = who
      BY <1>3, <2>1 DEF DefaultedOf
    <2>2. CASE sme # who
      BY <1>3, <2>2 DEF DefaultedOf
    <2> QED  BY <2>1, <2>2
  <1>7. defaults[sme] <= Cardinality(old) /\ defaults[sme] \in Nat
    BY <1>1 DEF DefaultedOf, DefaultsReportedOnce
  <1> HIDE DEF old, new
  <1>8. IsFiniteSet(old) /\ Cardinality(old) \in Nat
    BY <1>5, IdsFinite
  <1>9. Cardinality(old \cup {id}) = Cardinality(old) + 1
    BY <1>5, <1>8, FS_AddElement
  <1> QED  BY <1>4, <1>6, <1>7, <1>8, <1>9 DEF new

\* Defaulted is final, and only mark_default writes to the registry.
LEMMA DefaultsStep ==
  ASSUME PoolInv, DefaultsReportedOnce, [PoolNext]_allPoolVars
  PROVE  DefaultsReportedOnce'
  <1>1. invoices \in [Ids -> Invoice]
    BY DEF PoolInv, NftInv, NftTypeOK
  <1>2. CASE UNCHANGED <<invoices, defaults>>
    BY <1>2, DefaultsKept
  <1>3. ASSUME NEW id \in Ids, invoices[id].status # "Defaulted",
               \A k \in Ids \ {id} : invoices'[k] = invoices[k], UNCHANGED defaults
        PROVE  DefaultsReportedOnce'
    BY <1>3, DefaultsKept
  <1>4. ASSUME NEW id \in Ids, NEW caller, set_repaid(caller, id), UNCHANGED defaults
        PROVE  DefaultsReportedOnce'
    BY <1>1, <1>3, <1>4 DEF set_repaid, HasStatus
  <1>5. CASE RecordNext \/ CapNext \/ MarketNext
    BY <1>2, <1>5 DEF RecordNext, CapNext, MarketNext, record_position,
       set_max_position_bps, list_position_for_sale, buy_position, nftVars
  <1>6. CASE OpenNext
    BY <1>1, <1>3, <1>6 DEF OpenNext, release_funds, set_funded, HasStatus
  <1>7. CASE RepayNext
    BY <1>2, <1>4, <1>7 DEF RepayNext, repay, nftVars
  <1>8. CASE DefaultNext
    BY <1>8, MarkDefaultReported DEF DefaultNext
  <1>9. CASE SettlementNext
    BY <1>2, <1>4, <1>9 DEF SettlementNext, propose_early_settlement, accept_early_settlement,
       AddAcceptance, SettleEarly, cancel_early_settlement, nftVars
  <1>10. CASE SmeNext /\ UNCHANGED poolVars
    <2>1. PICK id \in Ids : ChangesUnfunded(id)
      BY <1>10, SmeChangesUnfunded DEF PoolInv
    <2> QED  BY <1>3, <1>10, <2>1 DEF ChangesUnfunded, poolVars
  <1>11. CASE NftAdminNext /\ UNCHANGED poolVars
    BY <1>1, <1>2, <1>3, <1>11 DEF NftAdminNext, set_defaulted, Defaultable, HasStatus,
       freeze_invoice, unfreeze_invoice, poolVars
  <1>12. CASE ListNext /\ UNCHANGED poolVars
    BY <1>1, <1>3, <1>12 DEF ListNext, set_listed, HasStatus, poolVars
  <1>13. CASE UNCHANGED <<nftVars, poolVars>>
    BY <1>2, <1>13 DEF nftVars, poolVars
  <1> QED
    BY <1>5, <1>6, <1>7, <1>8, <1>9, <1>10, <1>11, <1>12, <1>13
    DEF PoolNext, PoolStep, NftStep, allPoolVars

\* Nobody has been reported when the contracts start.
LEMMA DefaultsInitInv == PoolSystemInit => DefaultsReportedOnce
  <1> SUFFICES ASSUME PoolSystemInit, NEW sme \in SMEs
               PROVE  defaults[sme] <= Cardinality(DefaultedOf(sme))
    BY DEF DefaultsReportedOnce, DefaultedOf
  <1>1. DefaultedOf(sme) \in SUBSET Ids
    BY DEF DefaultedOf
  <1>2. defaults[sme] = 0
    BY DEF PoolSystemInit, PoolInit
  <1>3. Cardinality(DefaultedOf(sme)) \in Nat
    BY <1>1, IdsFinite
  <1> QED  BY <1>2, <1>3

\* An SME is reported to the registry at most once per defaulted invoice.
THEOREM PoolDefaultsReportedOnce == PoolSpec => []DefaultsReportedOnce
  <1>1. PoolInv /\ DefaultsReportedOnce /\ [PoolNext]_allPoolVars => DefaultsReportedOnce'
    BY DefaultsStep
  <1> QED  BY <1>1, DefaultsInitInv, PoolInvariant, PTL DEF PoolSpec

-----------------------------------------------------------------------------
(* The pool's balance: what every token in it is there for.                 *)

\* What all invoices have brought in and not paid out, and what is escrowed.
NetIn(token) == SumFunctionOnSet([id \in Ids |-> net[id][token]], Ids)
Claims(token) == NetIn(token) + EscrowedIn(token)

LedgerTyped ==
    /\ pool_balance \in [Tokens -> Int]
    /\ net \in [Ids -> [Tokens -> Int]]

\* The step moves the balance and the claims on it by the same amount.
Balanced == \A t \in Tokens : pool_balance'[t] - Claims(t)' = pool_balance[t] - Claims(t)

\* What an invoice brought in covers its payout, as long as there was none and
\* nothing irregular was done to it.
Covered(id) ==
    irregular[id] = {} =>
      /\ \A t \in Tokens : net[id][t] >= 0
      /\ pools[id].exists /\ distributions[id] = 0 =>
           net[id][pools[id].token] >= pools[id].repaid_amount

\* Both sums have values.
LEMMA ClaimsTyped ==
  ASSUME PoolTypeOK, LedgerTyped, NEW t \in Tokens
  PROVE  /\ \A id \in Ids : net[id][t] \in Int /\ EscrowOf(id, t) \in Nat
         /\ NetIn(t) \in Int /\ EscrowedIn(t) \in Int /\ Claims(t) \in Int
  <1> DEFINE f == [id \in Ids |-> net[id][t]]
             g == [id \in Ids |-> EscrowOf(id, t)]
  <1>1. \A id \in Ids : net[id][t] \in Int /\ EscrowOf(id, t) \in Nat
    BY DEF PoolTypeOK, LedgerTyped, EscrowOf, Settlement
  <1>2. \A id \in Ids : f[id] \in Int /\ g[id] \in Int
    BY <1>1
  <1> HIDE DEF f, g
  <1>3. SumFunctionOnSet(f, Ids) \in Int /\ SumFunctionOnSet(g, Ids) \in Int
    BY <1>2, IdsFinite, SumType
  <1> QED  BY <1>1, <1>3 DEF NetIn, EscrowedIn, Claims, f, g

\* A step about one invoice changes the claims by what changes for it.
LEMMA ClaimsMove ==
  ASSUME PoolTypeOK, PoolTypeOK', LedgerTyped, LedgerTyped', NEW id \in Ids, NEW t \in Tokens,
         \A k \in Ids \ {id} : net'[k][t] = net[k][t] /\ EscrowOf(k, t)' = EscrowOf(k, t)
  PROVE  Claims(t)' = Claims(t) + (net'[id][t] - net[id][t])
                                + (EscrowOf(id, t)' - EscrowOf(id, t))
  <1> DEFINE f == [k \in Ids |-> net[k][t]]
             g == [k \in Ids |-> net'[k][t]]
             e == [k \in Ids |-> EscrowOf(k, t)]
             h == [k \in Ids |-> EscrowOf(k, t)']
             F == SumFunctionOnSet(f, Ids)
             G == SumFunctionOnSet(g, Ids)
             E == SumFunctionOnSet(e, Ids)
             H == SumFunctionOnSet(h, Ids)
  <1>1. \A k \in Ids : /\ net[k][t] \in Int /\ EscrowOf(k, t) \in Int
                       /\ net'[k][t] \in Int /\ EscrowOf(k, t)' \in Int
    BY DEF PoolTypeOK, LedgerTyped, EscrowOf, Settlement
  <1>2. \A k \in Ids : f[k] \in Int /\ g[k] \in Int /\ e[k] \in Int /\ h[k] \in Int
    BY <1>1
  <1>3. \A k \in Ids \ {id} : g[k] = f[k] /\ h[k] = e[k]
    OBVIOUS
  <1>4. /\ f[id] = net[id][t] /\ g[id] = net'[id][t]
        /\ e[id] = EscrowOf(id, t) /\ h[id] = EscrowOf(id, t)'
    OBVIOUS
  <1>5. Claims(t) = F + E /\ Claims(t)' = G + H
    BY DEF Claims, NetIn, EscrowedIn
  <1> HIDE DEF f, g, e, h
  <1>6. G = F - f[id] + g[id]
    BY <1>2, <1>3, IdsFinite, SumOneChanged
  <1>7. H = E - e[id] + h[id]
    BY <1>2, <1>3, IdsFinite, SumOneChanged
  <1>8. F \in Int /\ E \in Int
    BY <1>2, IdsFinite, SumType
  <1> HIDE DEF F, G, E, H
  <1> QED  BY <1>2, <1>4, <1>5, <1>6, <1>7, <1>8

\* The storage the ledger is about is unchanged.
LEMMA LedgerKept ==
  ASSUME LedgerTyped, UNCHANGED <<pool_balance, net, pools, settlement>>
  PROVE  LedgerTyped' /\ Balanced
  BY DEF LedgerTyped, Balanced, Claims, NetIn, EscrowedIn, EscrowOf

\* The general step: x tokens enter the balance, y of them on the invoice's own
\* account and the rest as its escrow.
LEMMA LedgerMove ==
  ASSUME PoolTypeOK, PoolTypeOK', LedgerTyped, NEW id \in Ids, NEW token \in Tokens,
         NEW x \in Int, NEW y \in Int,
         pool_balance' = [pool_balance EXCEPT ![token] = @ + x],
         net' = [net EXCEPT ![id] = [net[id] EXCEPT ![token] = @ + y]],
         \A k \in Ids \ {id} : pools'[k] = pools[k] /\ settlement'[k] = settlement[k],
         \A t \in Tokens : EscrowOf(id, t)' = EscrowOf(id, t) + (IF t = token THEN x - y ELSE 0)
  PROVE  LedgerTyped' /\ Balanced
  <1>1. /\ pool_balance \in [Tokens -> Int] /\ net \in [Ids -> [Tokens -> Int]]
        /\ net[id] \in [Tokens -> Int]
    BY DEF LedgerTyped
  <1>2. [net[id] EXCEPT ![token] = @ + y] \in [Tokens -> Int]
    BY <1>1
  <1>3. LedgerTyped'
    BY <1>1, <1>2 DEF LedgerTyped
  <1>4. ASSUME NEW t \in Tokens
        PROVE  pool_balance'[t] - Claims(t)' = pool_balance[t] - Claims(t)
    <2>1. \A k \in Ids \ {id} : net'[k][t] = net[k][t] /\ EscrowOf(k, t)' = EscrowOf(k, t)
      BY <1>1, <1>2 DEF EscrowOf
    <2>2. Claims(t)' = Claims(t) + (net'[id][t] - net[id][t])
                                 + (EscrowOf(id, t)' - EscrowOf(id, t))
      BY <1>3, <2>1, ClaimsMove
    <2>3. /\ pool_balance'[t] = pool_balance[t] + (IF t = token THEN x ELSE 0)
          /\ net'[id][t] = net[id][t] + (IF t = token THEN y ELSE 0)
          /\ pool_balance[t] \in Int /\ net[id][t] \in Int
      BY <1>1, <1>2
    <2>4. EscrowOf(id, t) \in Int /\ Claims(t) \in Int
      BY ClaimsTyped
    <2>5. EscrowOf(id, t)' = EscrowOf(id, t) + (IF t = token THEN x - y ELSE 0)
      OBVIOUS
    <2> DEFINE b == pool_balance[t]
               n == net[id][t]
               e == EscrowOf(id, t)
               c == Claims(t)
               dx == IF t = token THEN x ELSE 0
               dy == IF t = token THEN y ELSE 0
    <2>6. /\ dx \in Int /\ dy \in Int /\ b \in Int /\ n \in Int /\ e \in Int /\ c \in Int
          /\ pool_balance'[t] = b + dx /\ net'[id][t] = n + dy
          /\ EscrowOf(id, t)' = e + (dx - dy)
      BY <2>3, <2>4, <2>5
    <2>7. Claims(t)' = c + (net'[id][t] - n) + (EscrowOf(id, t)' - e)
      BY <2>2
    <2> HIDE DEF b, n, e, c, dx, dy
    <2>8. Claims(t)' = c + dx
      BY <2>6, <2>7
    <2>9. pool_balance'[t] - Claims(t)' = b - c
      BY <2>6, <2>8
    <2> QED  BY <2>9 DEF b, c
  <1> QED  BY <1>3, <1>4 DEF Balanced

-----------------------------------------------------------------------------
(* Payouts.                                                                 *)

\* Whatever total is distributed, the positions together get no more than that,
\* when they were recorded regularly.
LEMMA PayoutBound ==
  ASSUME PoolInv, SharesInv, NEW id \in Ids, NEW token \in Tokens, NEW total \in Nat
  PROVE  /\ TotalPayout(id, total, token) \in Nat
         /\ "record" \notin irregular[id] => TotalPayout(id, total, token) <= total
  <1> DEFINE f == [i \in Investors |-> Payout(id, i, total, token)]
             g == [i \in Investors |-> positions[id][i].share_bps]
             P == SumFunctionOnSet(f, Investors)
             S == SumFunctionOnSet(g, Investors)
  <1>1. positions[id] \in [Investors -> Position]
    BY DEF PoolInv, PoolTypeOK
  <1>2. \A i \in Investors : g[i] \in Nat
    BY <1>1 DEF Position
  <1>3. \A i \in Investors : f[i] \in Nat /\ BPS_DENOMINATOR * f[i] <= total * g[i]
    <2> SUFFICES ASSUME NEW i \in Investors
                 PROVE  f[i] \in Nat /\ BPS_DENOMINATOR * f[i] <= total * g[i]
      OBVIOUS
    <2>1. Decimals[token] \in Nat /\ g[i] \in Nat
      BY <1>2, PoolAssumption
    <2>2. f[i] = bps_of_normalized(total, g[i], Decimals[token])
      BY DEF Payout
    <2> HIDE DEF f, g
    <2> QED  BY <2>1, <2>2, ShareRoundsDown
  <1>4. "record" \notin irregular[id] => S <= BPS_DENOMINATOR
    <2>1. whole[id] \in Nat
      BY DEF PoolInv, PoolTypeOK
    <2> QED  BY <1>1, <2>1, WithinPoolShares DEF SharesInv
  <1>5. TotalPayout(id, total, token) = P
    BY DEF TotalPayout
  <1> HIDE DEF f, g
  <1>6. IsFiniteSet(Investors) /\ BPS_DENOMINATOR \in Int
    BY PoolAssumption DEF BPS_DENOMINATOR
  <1>7. P \in Nat /\ S \in Nat
    BY <1>2, <1>3, <1>6, SumNat
  <1>8. BPS_DENOMINATOR * P <= total * S
    <2>1. \A i \in Investors : f[i] \in Int /\ g[i] \in Int
      BY <1>2, <1>3
    <2>2. \A i \in Investors : BPS_DENOMINATOR * f[i] <= total * g[i]
      BY <1>3
    <2>3. total \in Int
      OBVIOUS
    <2> QED  BY <1>6, <2>1, <2>2, <2>3, SumProportion
  <1> HIDE DEF P, S
  <1>9. S <= BPS_DENOMINATOR => total * S <= total * BPS_DENOMINATOR
    <2> SUFFICES ASSUME S <= BPS_DENOMINATOR PROVE total * S <= total * BPS_DENOMINATOR
      OBVIOUS
    <2>1. total * (BPS_DENOMINATOR - S) >= 0
      BY <1>7 DEF BPS_DENOMINATOR
    <2> QED  BY <1>7, <2>1 DEF BPS_DENOMINATOR
  <1>10. "record" \notin irregular[id] => P <= total
    BY <1>4, <1>7, <1>8, <1>9 DEF BPS_DENOMINATOR
  <1> QED  BY <1>5, <1>7, <1>10

\* distribute_yield pays an amount that the total covers, if the shares are regular.
LEMMA DistributePays ==
  ASSUME PoolInv, SharesInv, LedgerTyped, NEW id \in Ids, NEW token \in Tokens,
         NEW total \in Nat, NEW arrived \in Int, NEW released \in Int,
         distribute_yield(id, token, total, arrived, released)
  PROVE  \E paid \in Nat :
           /\ "record" \notin irregular[id] => paid <= total
           /\ pool_balance' = [pool_balance EXCEPT ![token] = @ + (arrived - paid)]
           /\ net' = [net EXCEPT ![id] = [net[id] EXCEPT
                        ![token] = @ + (arrived + released - paid)]]
           /\ distributions' = [distributions EXCEPT ![id] = @ + 1]
  <1> DEFINE paid == TotalPayout(id, total, token)
  <1>1. paid \in Nat /\ ("record" \notin irregular[id] => paid <= total)
    BY PayoutBound
  <1>2. /\ pool_balance' = [pool_balance EXCEPT ![token] = @ + arrived - paid]
        /\ net' = [net EXCEPT ![id] = [net[id] EXCEPT ![token] = @ + arrived + released - paid]]
        /\ distributions' = [distributions EXCEPT ![id] = @ + 1]
    BY DEF distribute_yield, LedgerTyped
  <1> HIDE DEF paid
  <1>3. pool_balance[token] \in Int /\ net[id][token] \in Int
    BY DEF LedgerTyped
  <1>4. /\ pool_balance[token] + arrived - paid = pool_balance[token] + (arrived - paid)
        /\ net[id][token] + arrived + released - paid
             = net[id][token] + (arrived + released - paid)
    BY <1>1, <1>3
  <1>5. pool_balance' = [pool_balance EXCEPT ![token] = @ + (arrived - paid)]
    BY <1>2, <1>4
  <1>6. net' = [net EXCEPT ![id] = [net[id] EXCEPT ![token] = @ + (arrived + released - paid)]]
    BY <1>2, <1>4
  <1> QED  BY <1>1, <1>2, <1>5, <1>6

\* What a transaction about one invoice does to the ledger: x tokens of one kind
\* enter the balance (or leave it) and y of them are booked on the invoice.
Books(id, token, x, y) ==
    /\ pool_balance' = [pool_balance EXCEPT ![token] = @ + x]
    /\ net' = [net EXCEPT ![id] = [net[id] EXCEPT ![token] = @ + y]]
    /\ \A k \in Ids \ {id} : /\ pools'[k] = pools[k]
                             /\ settlement'[k] = settlement[k]
                             /\ distributions'[k] = distributions[k]

\* A booking that moves the escrow by the difference is balanced.
LEMMA BooksBalanced ==
  ASSUME PoolTypeOK, PoolTypeOK', LedgerTyped, NEW id \in Ids, NEW token \in Tokens,
         NEW x \in Int, NEW y \in Int, Books(id, token, x, y),
         \A t \in Tokens : EscrowOf(id, t)' = EscrowOf(id, t) + (IF t = token THEN x - y ELSE 0)
  PROVE  LedgerTyped' /\ Balanced
  <1>1. /\ pool_balance' = [pool_balance EXCEPT ![token] = @ + x]
        /\ net' = [net EXCEPT ![id] = [net[id] EXCEPT ![token] = @ + y]]
        /\ \A k \in Ids \ {id} : pools'[k] = pools[k] /\ settlement'[k] = settlement[k]
    BY DEF Books
  <1>2. \A t \in Tokens : EscrowOf(id, t)' = EscrowOf(id, t) + (IF t = token THEN x - y ELSE 0)
    OBVIOUS
  <1> QED  BY <1>1, <1>2, LedgerMove, Zenon

\* A booking that the invoice can afford keeps every invoice covered.
LEMMA BooksCovered ==
  ASSUME LedgerTyped, \A k \in Ids : Covered(k), NEW id \in Ids, NEW token \in Tokens,
         NEW y \in Int, NEW x \in Int, Books(id, token, x, y),
         \A k \in Ids \ {id} : irregular'[k] = irregular[k],
         irregular'[id] = {} =>
           /\ irregular[id] = {}
           /\ net[id][token] + y >= 0
           /\ distributions'[id] = 0 => /\ pools'[id].token = token
                                        /\ net[id][token] + y >= pools'[id].repaid_amount
  PROVE  \A k \in Ids : Covered(k)'
  <1>1. net \in [Ids -> [Tokens -> Int]] /\ net[id] \in [Tokens -> Int]
    BY DEF LedgerTyped
  <1>2. ASSUME irregular'[id] = {} PROVE Covered(id)'
    <2>1. net'[id][token] = net[id][token] + y
      BY <1>1 DEF Books
    <2>2. \A t \in Tokens \ {token} : net'[id][t] = net[id][t]
      BY <1>1 DEF Books
    <2>3. \A t \in Tokens : net[id][t] >= 0
      BY <1>2 DEF Covered
    <2>4. \A t \in Tokens : net'[id][t] >= 0
      BY <1>2, <2>1, <2>2, <2>3
    <2> QED  BY <1>2, <2>1, <2>4 DEF Covered
  <1>3. ASSUME NEW k \in Ids, k # id PROVE Covered(k)'
    <2>1. /\ net'[k] = net[k] /\ distributions'[k] = distributions[k] /\ pools'[k] = pools[k]
          /\ irregular'[k] = irregular[k]
      BY <1>1, <1>3 DEF Books
    <2> QED  BY <2>1 DEF Covered
  <1> QED  BY <1>2, <1>3 DEF Covered

\* A conversion at a price of at most one USDC credits no more than was sent.
LEMMA ConvertAtMost ==
  ASSUME EnvTypeOK, NEW amount \in Nat, NEW currency \in Currencies, AbovePar(currency) = {}
  PROVE  convert_if_needed(amount, currency) <= amount
  <1>1. CASE currency = POOL_CURRENCY
    BY <1>1 DEF convert_if_needed, convert
  <1>2. CASE currency # POOL_CURRENCY
    <2> DEFINE p == prices[currency].price
               z == amount * p
    <2>1. currency \in Foreign
      BY <1>2 DEF Foreign
    <2>2. p \in Nat /\ p <= 10000000
      BY <1>2, <2>1 DEF EnvTypeOK, PriceData, AbovePar, PRICE_SCALE
    <2>3. convert_if_needed(amount, currency) = z \div 10000000
      BY <1>2 DEF convert_if_needed, convert, PRICE_SCALE
    <2> HIDE DEF p
    <2>4. amount * (10000000 - p) >= 0
      BY <2>2
    <2>5. z \in Nat /\ z <= amount * 10000000
      BY <2>2, <2>4
    <2> HIDE DEF z
    <2>6. z \div 10000000 <= amount
      BY <2>5
    <2> QED  BY <2>3, <2>6
  <1> QED  BY <1>1, <1>2

\* What repay books: the payment, less the payout if it closes the pool.
LEMMA RepayBooks ==
  ASSUME PoolInv, SharesInv, LedgerTyped, NEW id \in Ids, NEW token \in Tokens,
         NEW amount \in RepayAmounts, repay(id, token, amount)
  PROVE  \E effective \in Nat, paid \in Nat :
           /\ amount \in Nat
           /\ effective = convert_if_needed(amount, invoices[id].currency)
           /\ Convertible(invoices[id].currency) /\ invoices[id].currency \in Currencies
           /\ pools'[id].repaid_amount = pools[id].repaid_amount + effective
           /\ pools'[id].token = pools[id].token
           /\ UNCHANGED settlement
           /\ Books(id, token, amount - paid, amount - paid)
           /\ \/ paid = 0 /\ distributions'[id] = distributions[id]
              \/ /\ "record" \notin irregular[id] => paid <= pools'[id].repaid_amount
                 /\ distributions[id] = 0 /\ distributions'[id] = 1
  <1> DEFINE effective == convert_if_needed(amount, invoices[id].currency)
             after == PoolAfter(id, effective)
  <1>1. /\ PoolOpen(id) /\ effective > 0 /\ amount > 0 /\ amount \in Int
        /\ pools' = [pools EXCEPT ![id] = after]
        /\ UNCHANGED settlement /\ Convertible(invoices[id].currency)
    BY PoolAssumption DEF repay
  <1>2. /\ pools \in [Ids -> Pool] /\ distributions \in [Ids -> Nat]
        /\ pool_balance \in [Tokens -> Int] /\ net \in [Ids -> [Tokens -> Int]]
    BY DEF PoolInv, PoolTypeOK, LedgerTyped
  <1>3. invoices[id].currency \in Currencies
    <2>1. invoices[id].status # "Absent"
      BY <1>1 DEF PoolInv, InvoiceInv, PoolAgrees, PoolOpen
    <2> QED  BY <2>1 DEF PoolInv, NftInv, Timeline, TimelineOf
  <1>4. effective \in Nat /\ amount \in Nat
    <2>1. effective \in Int
      BY <1>1, <1>3, ConvertType DEF PoolInv, NftInv, NftTypeOK
    <2> QED  BY <1>1, <2>1
  <1>5. after \in Pool /\ after.token = pools[id].token
    BY <1>1, <1>4, PoolAfterFacts
  <1>6. after.repaid_amount = pools[id].repaid_amount + effective
    <2>1. pools[id] \in Pool
      BY <1>2
    <2> QED  BY <2>1 DEF PoolAfter, Pool
  <1> HIDE DEF after, effective
  <1>7. pools'[id] = after /\ \A k \in Ids \ {id} : pools'[k] = pools[k]
    BY <1>1, <1>2
  <1>8. CASE /\ ~after.is_closed
             /\ pool_balance' = [pool_balance EXCEPT ![token] = @ + amount]
             /\ net' = [net EXCEPT ![id][token] = @ + amount]
             /\ UNCHANGED distributions
    <2>1. amount - 0 = amount
      BY <1>1
    <2>2. net' = [net EXCEPT ![id] = [net[id] EXCEPT ![token] = @ + amount]]
      BY <1>2, <1>8
    <2>3. Books(id, token, amount - 0, amount - 0)
      BY <1>1, <1>7, <1>8, <2>1, <2>2 DEF Books
    <2> QED  BY <1>1, <1>3, <1>4, <1>5, <1>6, <1>7, <1>8, <2>3 DEF effective
  <1>9. CASE /\ distribute_yield(id, token, after.repaid_amount, amount, 0)
             /\ set_repaid(PoolAddr, id)
    <2>1. after.repaid_amount \in Nat
      BY <1>5 DEF Pool
    <2>2. PICK paid \in Nat :
            /\ "record" \notin irregular[id] => paid <= after.repaid_amount
            /\ pool_balance' = [pool_balance EXCEPT ![token] = @ + (amount - paid)]
            /\ net' = [net EXCEPT ![id] = [net[id] EXCEPT ![token] = @ + (amount + 0 - paid)]]
            /\ distributions' = [distributions EXCEPT ![id] = @ + 1]
      BY <1>1, <1>9, <2>1, DistributePays
    <2>3. amount + 0 - paid = amount - paid
      BY <1>1
    <2>4. distributions[id] = 0
      BY <1>9 DEF set_repaid, HasStatus, PoolInv, InvoiceInv, PaidOutAtMostOnce
    <2>5. Books(id, token, amount - paid, amount - paid)
      BY <1>1, <1>2, <1>7, <2>2, <2>3 DEF Books
    <2>6. distributions'[id] = 1
      BY <1>2, <2>2, <2>4
    <2> QED  BY <1>1, <1>3, <1>4, <1>5, <1>6, <1>7, <2>2, <2>4, <2>5, <2>6 DEF effective
  <1> QED  BY <1>8, <1>9 DEF repay, after, effective

\* What mark_default books: the payout of what was repaid, if anything was.
LEMMA DefaultBooks ==
  ASSUME PoolInv, SharesInv, LedgerTyped, NEW id \in Ids, NEW token \in Tokens,
         NEW recorded \in BOOLEAN, mark_default(id, token, recorded)
  PROVE  /\ UNCHANGED <<pools, settlement>>
         /\ distributions[id] = 0
         /\ \/ UNCHANGED <<pool_balance, net, distributions>>
            \/ \E paid \in Nat : /\ "record" \notin irregular[id] => paid <= pools[id].repaid_amount
                                 /\ Books(id, token, 0 - paid, 0 - paid)
                                 /\ distributions'[id] = 1
  <1>1. UNCHANGED <<pools, settlement>>
    BY DEF mark_default
  <1>2. /\ pools \in [Ids -> Pool] /\ distributions \in [Ids -> Nat]
        /\ pools[id].repaid_amount \in Nat
    BY DEF PoolInv, PoolTypeOK, Pool
  <1>3. distributions[id] = 0
    BY DEF mark_default, set_defaulted, HasStatus, Defaultable, PoolInv, InvoiceInv,
           PaidOutAtMostOnce
  <1>4. CASE distribute_yield(id, token, pools[id].repaid_amount, 0, 0)
    <2>1. 0 \in Int
      OBVIOUS
    <2>2. PICK paid \in Nat :
            /\ "record" \notin irregular[id] => paid <= pools[id].repaid_amount
            /\ pool_balance' = [pool_balance EXCEPT ![token] = @ + (0 - paid)]
            /\ net' = [net EXCEPT ![id] = [net[id] EXCEPT ![token] = @ + (0 + 0 - paid)]]
            /\ distributions' = [distributions EXCEPT ![id] = @ + 1]
      <3> DEFINE none == 0
                 repaid == pools[id].repaid_amount
      <3>1. none \in Int /\ repaid \in Nat /\ distribute_yield(id, token, repaid, none, none)
        BY <1>2, <1>4
      <3> HIDE DEF none, repaid
      <3>2. \E paid \in Nat :
              /\ "record" \notin irregular[id] => paid <= repaid
              /\ pool_balance' = [pool_balance EXCEPT ![token] = @ + (none - paid)]
              /\ net' = [net EXCEPT ![id] = [net[id] EXCEPT ![token] = @ + (none + none - paid)]]
              /\ distributions' = [distributions EXCEPT ![id] = @ + 1]
        BY <3>1, DistributePays
      <3> QED  BY <3>2 DEF none, repaid
    <2>3. 0 + 0 - paid = 0 - paid
      OBVIOUS
    <2>4. Books(id, token, 0 - paid, 0 - paid)
      BY <1>1, <1>2, <2>2, <2>3 DEF Books
    <2>5. distributions'[id] = 1
      BY <1>2, <1>3, <2>2
    <2> QED  BY <1>1, <1>3, <2>2, <2>4, <2>5
  <1> QED  BY <1>1, <1>3, <1>4 DEF mark_default

\* What the acceptance that settles a pool books: the escrow becomes the
\* invoice's own, less the payout.
LEMMA SettleBooks ==
  ASSUME PoolInv, SharesInv, LedgerTyped, NEW id \in Ids, NEW i \in Investors,
         MayAccept(i, id), SettleEarly(i, id)
  PROVE  \E paid \in Nat :
           /\ "record" \notin irregular[id] => paid <= settlement[id].amount
           /\ pools[id].token \in Tokens /\ pools'[id].token = pools[id].token
           /\ settlement'[id].amount = 0
           /\ Books(id, pools[id].token, 0 - paid, settlement[id].amount - paid)
           /\ distributions'[id] = 1
  <1> DEFINE amount == settlement[id].amount
             token == pools[id].token
  <1>1. /\ pools \in [Ids -> Pool] /\ distributions \in [Ids -> Nat]
        /\ settlement \in [Ids -> Settlement] /\ amount \in Nat
    BY DEF PoolInv, PoolTypeOK, Settlement
  <1>2. token \in Tokens
    BY DEF MayAccept, PoolOpen, PoolInv, InvoiceInv, PoolAgrees
  <1>3. /\ distribute_yield(id, token, amount, 0, amount)
        /\ set_repaid(PoolAddr, id)
        /\ settlement' = [settlement EXCEPT ![id] = NoSettlement]
        /\ pools' = [pools EXCEPT ![id] =
             [pools[id] EXCEPT !.repaid_amount = amount, !.is_closed = TRUE]]
    BY DEF SettleEarly
  <1>4. distributions[id] = 0
    BY <1>3 DEF set_repaid, HasStatus, PoolInv, InvoiceInv, PaidOutAtMostOnce
  <1>5. pools'[id].token = token
    <2>1. pools[id] \in Pool
      BY <1>1
    <2> QED  BY <1>1, <1>3, <2>1 DEF Pool
  <1>6. \A k \in Ids \ {id} : pools'[k] = pools[k] /\ settlement'[k] = settlement[k]
    BY <1>1, <1>3
  <1>7. settlement'[id].amount = 0
    BY <1>1, <1>3 DEF NoSettlement
  <1>8. PICK paid \in Nat :
          /\ "record" \notin irregular[id] => paid <= amount
          /\ pool_balance' = [pool_balance EXCEPT ![token] = @ + (0 - paid)]
          /\ net' = [net EXCEPT ![id] = [net[id] EXCEPT ![token] = @ + (0 + amount - paid)]]
          /\ distributions' = [distributions EXCEPT ![id] = @ + 1]
    <2> DEFINE none == 0
    <2>1. none \in Int /\ amount \in Int /\ distribute_yield(id, token, amount, none, amount)
      BY <1>1, <1>3
    <2> HIDE DEF none, amount, token
    <2>2. \E paid \in Nat :
            /\ "record" \notin irregular[id] => paid <= amount
            /\ pool_balance' = [pool_balance EXCEPT ![token] = @ + (none - paid)]
            /\ net' = [net EXCEPT ![id] = [net[id] EXCEPT ![token] = @ + (none + amount - paid)]]
            /\ distributions' = [distributions EXCEPT ![id] = @ + 1]
      BY <1>1, <1>2, <2>1, DistributePays
    <2> QED  BY <2>2 DEF none
  <1> HIDE DEF amount, token
  <1>9. 0 + amount - paid = amount - paid
    BY <1>1
  <1>10. Books(id, token, 0 - paid, amount - paid)
    BY <1>1, <1>6, <1>8, <1>9 DEF Books
  <1>11. distributions'[id] = 1
    BY <1>1, <1>4, <1>8
  <1> QED  BY <1>2, <1>5, <1>7, <1>8, <1>10, <1>11 DEF amount, token

-----------------------------------------------------------------------------
(* Every step of the pool balances, and every invoice stays covered.        *)

\* Nothing is booked and no escrow moves.
LEMMA ClaimsKept ==
  ASSUME UNCHANGED net, \A id \in Ids, t \in Tokens : EscrowOf(id, t)' = EscrowOf(id, t)
  PROVE  \A t \in Tokens : Claims(t)' = Claims(t)
  <1> SUFFICES ASSUME NEW t \in Tokens PROVE Claims(t)' = Claims(t)
    OBVIOUS
  <1>1. [id \in Ids |-> EscrowOf(id, t)'] = [id \in Ids |-> EscrowOf(id, t)]
    OBVIOUS
  <1>2. EscrowedIn(t)' = EscrowedIn(t)
    BY <1>1 DEF EscrowedIn
  <1> QED  BY <1>2 DEF Claims, NetIn

\* release_funds opens a pool that has no offer.
LEMMA ReleaseClaims ==
  ASSUME PoolInv, NEW id \in Ids, NEW token \in Tokens, release_funds(id, token)
  PROVE  \A t \in Tokens : Claims(t)' = Claims(t)
  <1>1. pools \in [Ids -> Pool] /\ settlement \in [Ids -> Settlement] /\ UNCHANGED <<net, settlement>>
    BY DEF PoolInv, PoolTypeOK, release_funds
  <1>2. settlement[id].amount = 0
    BY <1>1 DEF PoolInv, InvoiceInv, PoolAgrees, HasSettlement, release_funds, Settlement
  <1>3. \A k \in Ids \ {id} : pools'[k] = pools[k]
    BY <1>1 DEF release_funds
  <1>4. \A k \in Ids, t \in Tokens : EscrowOf(k, t)' = EscrowOf(k, t)
    BY <1>1, <1>2, <1>3 DEF EscrowOf
  <1> QED  BY <1>1, <1>4, ClaimsKept

\* The entry points of early settlement: the offer is escrowed, kept, taken back
\* or paid out.
LEMMA SettlementBalanced ==
  ASSUME PoolInv, PoolInv', SharesInv, LedgerTyped, SettlementNext
  PROVE  LedgerTyped' /\ Balanced
  <1>1. /\ PoolTypeOK /\ PoolTypeOK' /\ pools \in [Ids -> Pool] /\ settlement \in [Ids -> Settlement]
        /\ \A k \in Ids : settlement[k].amount \in Nat
    BY DEF PoolInv, PoolTypeOK, Settlement
  <1>2. net \in [Ids -> [Tokens -> Int]] /\ pool_balance \in [Tokens -> Int]
    BY DEF LedgerTyped
  <1>3. ASSUME NEW id \in Ids, NEW token \in Tokens
        PROVE  net = [net EXCEPT ![id] = [net[id] EXCEPT ![token] = @ + 0]]
    <2>1. net[id] \in [Tokens -> Int] /\ net[id][token] + 0 = net[id][token]
      BY <1>2
    <2>2. [net[id] EXCEPT ![token] = @ + 0] = net[id]
      BY <2>1
    <2> QED  BY <1>2, <2>2
  <1>4. ASSUME NEW id \in Ids, NEW sme \in SMEs, NEW amount \in SettlementAmounts,
               propose_early_settlement(sme, id, amount)
        PROVE  LedgerTyped' /\ Balanced
    <2> DEFINE token == pools[id].token
               zero == 0
    <2>1. token \in Tokens /\ amount \in Int /\ zero \in Int
      BY <1>4, PoolAssumption DEF propose_early_settlement, PoolOpen, PoolInv, InvoiceInv, PoolAgrees
    <2>2. settlement[id].amount = 0
      BY <1>1, <1>4 DEF propose_early_settlement, HasSettlement
    <2>3. /\ UNCHANGED <<pools, net, distributions>>
          /\ settlement'[id].amount = amount
          /\ \A k \in Ids \ {id} : settlement'[k] = settlement[k]
          /\ pool_balance' = [pool_balance EXCEPT ![token] = @ + amount]
      BY <1>1, <1>4 DEF propose_early_settlement, NoSettlement
    <2>4. Books(id, token, amount, zero)
      BY <1>3, <2>1, <2>3 DEF Books
    <2>5. \A t \in Tokens : EscrowOf(id, t)' =
             EscrowOf(id, t) + (IF t = token THEN amount - zero ELSE 0)
      BY <2>1, <2>2, <2>3 DEF EscrowOf
    <2> HIDE DEF zero, token
    <2> QED  BY <1>1, <2>1, <2>4, <2>5, BooksBalanced
  <1>5. ASSUME NEW id \in Ids, NEW sme \in SMEs, cancel_early_settlement(sme, id)
        PROVE  LedgerTyped' /\ Balanced
    <2> DEFINE token == pools[id].token
               zero == 0
               x == 0 - settlement[id].amount
    <2>1. token \in Tokens /\ x \in Int /\ zero \in Int
      BY <1>1, <1>5 DEF cancel_early_settlement, MayCancelSettlement, PoolInv, InvoiceInv, PoolAgrees
    <2>2. /\ UNCHANGED <<pools, net, distributions>>
          /\ settlement'[id].amount = 0
          /\ \A k \in Ids \ {id} : settlement'[k] = settlement[k]
          /\ pool_balance' = [pool_balance EXCEPT ![token] = @ - settlement[id].amount]
      BY <1>1, <1>5 DEF cancel_early_settlement, NoSettlement
    <2>3. pool_balance[token] - settlement[id].amount = pool_balance[token] + x
      BY <1>1, <1>2, <2>1
    <2>4. Books(id, token, x, zero)
      BY <1>3, <2>1, <2>2, <2>3 DEF Books
    <2>5. \A t \in Tokens : EscrowOf(id, t)' = EscrowOf(id, t) + (IF t = token THEN x - zero ELSE 0)
      BY <1>1, <2>1, <2>2 DEF EscrowOf
    <2> HIDE DEF zero, token, x
    <2> QED  BY <1>1, <2>1, <2>4, <2>5, BooksBalanced
  <1>6. ASSUME NEW id \in Ids, NEW i \in Investors, MayAccept(i, id), SettleEarly(i, id)
        PROVE  LedgerTyped' /\ Balanced
    <2> DEFINE token == pools[id].token
               amount == settlement[id].amount
    <2>1. PICK paid \in Nat :
            /\ token \in Tokens /\ pools'[id].token = token
            /\ settlement'[id].amount = 0
            /\ Books(id, token, 0 - paid, amount - paid)
      BY <1>6, SettleBooks
    <2> DEFINE x == 0 - paid
               y == amount - paid
    <2>2. x \in Int /\ y \in Int /\ x - y = 0 - amount /\ amount \in Nat
      BY <1>1, <2>1
    <2>3. ASSUME NEW t \in Tokens
          PROVE  EscrowOf(id, t)' = EscrowOf(id, t) + (IF t = token THEN x - y ELSE 0)
      <3>1. EscrowOf(id, t)' = 0
        BY <2>1 DEF EscrowOf
      <3>2. EscrowOf(id, t) = IF t = token THEN amount ELSE 0
        BY DEF EscrowOf
      <3> HIDE DEF x, y, amount, token
      <3> QED  BY <2>2, <3>1, <3>2
    <2> HIDE DEF x, y
    <2>4. token \in Tokens /\ Books(id, token, x, y)
      BY <2>1 DEF x, y
    <2> HIDE DEF token
    <2> QED  BY <1>1, <2>2, <2>3, <2>4, BooksBalanced
  <1>7. ASSUME NEW id \in Ids, NEW i \in Investors, AddAcceptance(i, id)
        PROVE  LedgerTyped' /\ Balanced
    <2>1. UNCHANGED <<net, pool_balance, pools>>
      BY <1>7 DEF AddAcceptance
    <2>2. \A k \in Ids : settlement'[k].amount = settlement[k].amount
      BY <1>1, <1>7 DEF AddAcceptance, Settlement
    <2>3. \A t \in Tokens : Claims(t)' = Claims(t)
      BY <2>1, <2>2, ClaimsKept DEF EscrowOf
    <2> QED  BY <2>1, <2>3 DEF LedgerTyped, Balanced
  <1> QED
    BY <1>4, <1>5, <1>6, <1>7 DEF SettlementNext, accept_early_settlement

\* Every step of the pool contract: what it adds to the balance is what invoices
\* brought in or what is escrowed.
LEMMA PoolStepBalanced ==
  ASSUME PoolInv, PoolInv', SharesInv, LedgerTyped, PoolStep
  PROVE  LedgerTyped' /\ Balanced
  <1>1. PoolTypeOK /\ PoolTypeOK'
    BY DEF PoolInv
  <1>2. CASE RecordNext \/ CapNext \/ MarketNext
    BY <1>2, LedgerKept DEF RecordNext, CapNext, MarketNext, record_position,
       set_max_position_bps, list_position_for_sale, buy_position
  <1>3. CASE OpenNext
    BY <1>3, ReleaseClaims DEF OpenNext, release_funds, LedgerTyped, Balanced
  <1>4. ASSUME NEW id \in Ids, NEW token \in Tokens, NEW amount \in RepayAmounts,
               repay(id, token, amount)
        PROVE  LedgerTyped' /\ Balanced
    <2>1. PICK paid \in Nat :
            /\ amount \in Nat /\ pools'[id].token = pools[id].token /\ UNCHANGED settlement
            /\ Books(id, token, amount - paid, amount - paid)
      BY <1>4, RepayBooks
    <2> DEFINE x == amount - paid
    <2>2. x \in Int /\ x - x = 0
      BY <2>1
    <2>3. Books(id, token, x, x)
      BY <2>1
    <2> HIDE DEF x
    <2>4. \A t \in Tokens : EscrowOf(id, t) \in Nat /\ EscrowOf(id, t)' = EscrowOf(id, t)
      BY <2>1 DEF EscrowOf, PoolInv, PoolTypeOK, Settlement
    <2>5. \A t \in Tokens : EscrowOf(id, t)' = EscrowOf(id, t) + (IF t = token THEN x - x ELSE 0)
      BY <2>2, <2>4
    <2> QED  BY <1>1, <2>2, <2>3, <2>5, BooksBalanced
  <1>5. ASSUME NEW id \in Ids, NEW token \in Tokens, NEW recorded \in BOOLEAN,
               mark_default(id, token, recorded)
        PROVE  LedgerTyped' /\ Balanced
    <2>1. UNCHANGED <<pools, settlement>>
      BY <1>5, DefaultBooks
    <2>2. CASE UNCHANGED <<pool_balance, net>>
      BY <2>1, <2>2, LedgerKept
    <2>3. ASSUME NEW paid \in Nat, Books(id, token, 0 - paid, 0 - paid)
          PROVE  LedgerTyped' /\ Balanced
      <3> DEFINE x == 0 - paid
      <3>1. x \in Int /\ x - x = 0 /\ Books(id, token, x, x)
        BY <2>3
      <3> HIDE DEF x
      <3>2. \A t \in Tokens : EscrowOf(id, t) \in Nat /\ EscrowOf(id, t)' = EscrowOf(id, t)
        BY <2>1 DEF EscrowOf, PoolInv, PoolTypeOK, Settlement
      <3>3. \A t \in Tokens : EscrowOf(id, t)' = EscrowOf(id, t) + (IF t = token THEN x - x ELSE 0)
        BY <3>1, <3>2
      <3> QED  BY <1>1, <3>1, <3>3, BooksBalanced
    <2> QED  BY <1>5, <2>2, <2>3, DefaultBooks
  <1> QED
    BY <1>2, <1>3, <1>4, <1>5, SettlementBalanced DEF PoolStep, RepayNext, DefaultNext

\* Nothing the coverage of an invoice is about changes, or its pool is opened.
LEMMA CoveredKept ==
  ASSUME LedgerTyped, \A k \in Ids : Covered(k), UNCHANGED <<net, distributions>>,
         \A k \in Ids : irregular'[k] = {} => irregular[k] = {},
         \A k \in Ids : \/ pools'[k] = pools[k]
                        \/ pools'[k].repaid_amount = 0 /\ pools'[k].token \in Tokens
  PROVE  \A k \in Ids : Covered(k)'
  BY DEF Covered

\* Every step of the pool contract pays an invoice's investors no more than the
\* invoice brought in, or is noted as irregular.
LEMMA PoolStepCovered ==
  ASSUME PoolInv, PoolInv', SharesInv, LedgerTyped, \A k \in Ids : Covered(k), PoolStep
  PROVE  \A k \in Ids : Covered(k)'
  <1>1. /\ pools \in [Ids -> Pool] /\ net \in [Ids -> [Tokens -> Int]]
        /\ \A k \in Ids : pools[k].repaid_amount \in Nat
        /\ irregular \in [Ids -> SUBSET Irregularities]
    BY DEF PoolInv, PoolTypeOK, LedgerTyped, Pool
  <1>n. \A k \in Ids : irregular'[k] = {} => irregular[k] = {}
    BY NotesStay
  <1>2. CASE RecordNext \/ CapNext \/ MarketNext
    BY <1>n, <1>2, CoveredKept DEF RecordNext, CapNext, MarketNext, record_position,
       set_max_position_bps, list_position_for_sale, buy_position
  <1>3. CASE OpenNext
    BY <1>1, <1>n, <1>3, CoveredKept DEF OpenNext, release_funds, NoPool
  <1>4. ASSUME NEW id \in Ids, NEW token \in Tokens, NEW amount \in RepayAmounts,
               repay(id, token, amount)
        PROVE  \A k \in Ids : Covered(k)'
    <2>1. PICK effective \in Nat, paid \in Nat :
            /\ amount \in Nat
            /\ effective = convert_if_needed(amount, invoices[id].currency)
            /\ invoices[id].currency \in Currencies
            /\ pools'[id].repaid_amount = pools[id].repaid_amount + effective
            /\ pools'[id].token = pools[id].token
            /\ Books(id, token, amount - paid, amount - paid)
            /\ \/ paid = 0 /\ distributions'[id] = distributions[id]
               \/ /\ "record" \notin irregular[id] => paid <= pools'[id].repaid_amount
                  /\ distributions[id] = 0 /\ distributions'[id] = 1
      BY <1>4, RepayBooks
    <2>2. Note(id, OtherToken(id, token) \cup AbovePar(invoices[id].currency))
      BY <1>4 DEF repay
    <2> DEFINE y == amount - paid
               n == net[id][token]
               r == pools[id].repaid_amount
    <2>3. y \in Int /\ n \in Int /\ r \in Nat /\ Books(id, token, y, y)
      BY <1>1, <2>1
    <2>4. \A k \in Ids \ {id} : irregular'[k] = irregular[k]
      BY <1>1, <2>2 DEF Note
    <2>5. ASSUME irregular'[id] = {}
          PROVE  /\ irregular[id] = {}
                 /\ net[id][token] + y >= 0
                 /\ distributions'[id] = 0 => /\ pools'[id].token = token
                                              /\ net[id][token] + y >= pools'[id].repaid_amount
      <3>1. irregular[id] = {} /\ OtherToken(id, token) = {} /\ AbovePar(invoices[id].currency) = {}
        BY <1>1, <2>2, <2>5 DEF Note
      <3>2. token = pools[id].token
        BY <3>1 DEF OtherToken
      <3>3. effective <= amount
        BY <2>1, <3>1, ConvertAtMost DEF PoolInv, NftInv, NftTypeOK
      <3>4. pools[id].exists /\ amount > 0
        BY <1>4 DEF repay, PoolOpen
      <3>5. n >= 0 /\ (distributions[id] = 0 => n >= r)
        BY <3>1, <3>2, <3>4 DEF Covered
      <3>6. pools'[id].repaid_amount = r + effective
        BY <2>1
      <3> HIDE DEF n, r
      <3>7. n + y >= 0 /\ (distributions'[id] = 0 => n + y >= r + effective)
        BY <2>1, <2>3, <3>1, <3>3, <3>4, <3>5, <3>6
      <3> HIDE DEF y
      <3> QED  BY <2>1, <3>1, <3>2, <3>6, <3>7 DEF n
    <2> HIDE DEF y, n, r
    <2> QED  BY <2>3, <2>4, <2>5, BooksCovered
  <1>5. ASSUME NEW id \in Ids, NEW token \in Tokens, NEW recorded \in BOOLEAN,
               mark_default(id, token, recorded)
        PROVE  \A k \in Ids : Covered(k)'
    <2>1. UNCHANGED <<pools, settlement>> /\ distributions[id] = 0
      BY <1>5, DefaultBooks
    <2>2. CASE UNCHANGED <<pool_balance, net, distributions>>
      BY <1>n, <2>1, <2>2, CoveredKept
    <2>3. ASSUME NEW paid \in Nat, "record" \notin irregular[id] => paid <= pools[id].repaid_amount,
                 Books(id, token, 0 - paid, 0 - paid), distributions'[id] = 1
          PROVE  \A k \in Ids : Covered(k)'
      <3> DEFINE y == 0 - paid
      <3>1. y \in Int /\ Books(id, token, y, y)
        BY <2>3
      <3>2. net[id][token] \in Int /\ pools[id].exists
        BY <1>1, <1>5 DEF mark_default, PoolOpen
      <3>3. distributions'[id] # distributions[id]
        BY <2>1, <2>3
      <3>4. Note(id, OtherToken(id, token))
        BY <1>5, <3>3 DEF mark_default
      <3>5. \A k \in Ids \ {id} : irregular'[k] = irregular[k]
        BY <1>1, <3>4 DEF Note
      <3>6. ASSUME irregular'[id] = {} PROVE irregular[id] = {} /\ net[id][token] + y >= 0
        <4>1. irregular[id] = {} /\ OtherToken(id, token) = {}
          BY <1>1, <3>4, <3>6 DEF Note
        <4>2. token = pools[id].token
          BY <4>1 DEF OtherToken
        <4>3. net[id][token] >= pools[id].repaid_amount
          BY <2>1, <3>2, <4>1, <4>2 DEF Covered
        <4> QED  BY <1>1, <2>3, <3>2, <4>1, <4>3
      <3> HIDE DEF y
      <3> QED  BY <2>3, <3>1, <3>5, <3>6, BooksCovered
    <2> QED  BY <1>5, <2>2, <2>3, DefaultBooks
  <1>6. ASSUME NEW id \in Ids, NEW i \in Investors, MayAccept(i, id), SettleEarly(i, id),
               UNCHANGED irregular
        PROVE  \A k \in Ids : Covered(k)'
    <2> DEFINE token == pools[id].token
               amount == settlement[id].amount
    <2>1. PICK paid \in Nat :
            /\ "record" \notin irregular[id] => paid <= amount
            /\ token \in Tokens
            /\ Books(id, token, 0 - paid, amount - paid) /\ distributions'[id] = 1
      BY <1>6, SettleBooks
    <2>2. amount \in Nat
      BY DEF PoolInv, PoolTypeOK, Settlement
    <2> DEFINE x == 0 - paid
               y == amount - paid
    <2>3. x \in Int /\ y \in Int /\ Books(id, token, x, y)
      BY <2>1, <2>2
    <2>4. irregular'[id] = {} => irregular[id] = {} /\ y >= 0
      BY <1>6, <2>1, <2>2
    <2>5. net[id][token] \in Int /\ (irregular[id] = {} => net[id][token] >= 0)
      BY <1>1, <2>1 DEF Covered
    <2> HIDE DEF x, y, token
    <2>6. irregular'[id] = {} => irregular[id] = {} /\ net[id][token] + y >= 0
      BY <2>3, <2>4, <2>5
    <2> QED  BY <1>6, <2>1, <2>3, <2>6, BooksCovered
  <1>7. CASE SettlementNext
    BY <1>n, <1>6, <1>7, CoveredKept DEF SettlementNext, propose_early_settlement,
       accept_early_settlement, AddAcceptance, cancel_early_settlement, careVars
  <1> QED
    BY <1>2, <1>3, <1>4, <1>5, <1>7 DEF PoolStep, RepayNext, DefaultNext

-----------------------------------------------------------------------------
(* The pool's money, in the system of the two contracts.                    *)

\* The balance is exactly what the invoices brought in and what is escrowed.
LedgerInv ==
    /\ SharesInv /\ LedgerTyped
    /\ \A t \in Tokens : pool_balance[t] = Claims(t)

\* The pool starts with nothing.
LEMMA LedgerInitInv ==
  ASSUME PoolSystemInit
  PROVE  LedgerInv /\ \A id \in Ids : Covered(id)
  <1>1. SharesInv
    BY SharesInitInv DEF PoolSystemInit
  <1>3. LedgerTyped
    BY DEF PoolSystemInit, PoolInit, LedgerTyped
  <1>4. ASSUME NEW t \in Tokens PROVE pool_balance[t] = Claims(t)
    <2> DEFINE f == [id \in Ids |-> net[id][t]]
               g == [id \in Ids |-> EscrowOf(id, t)]
    <2>1. \A id \in Ids : f[id] = 0 /\ g[id] = 0
      BY DEF PoolSystemInit, PoolInit, EscrowOf, NoSettlement
    <2> HIDE DEF f, g
    <2>2. SumFunctionOnSet(f, Ids) = 0 /\ SumFunctionOnSet(g, Ids) = 0
      BY <2>1, IdsFinite, SumZero
    <2>3. pool_balance[t] = 0
      BY DEF PoolSystemInit, PoolInit
    <2> QED  BY <2>2, <2>3 DEF Claims, NetIn, EscrowedIn, f, g
  <1>5. \A id \in Ids : Covered(id)
    BY DEF PoolSystemInit, PoolInit, NoPool, Covered
  <1> QED  BY <1>1, <1>3, <1>4, <1>5 DEF LedgerInv

\* Every step of the two contracts keeps the books exact.
LEMMA LedgerStep ==
  ASSUME PoolInv, LedgerInv, [PoolNext]_allPoolVars
  PROVE  LedgerInv'
  <1>1. PoolInv'
    BY PoolNextInv
  <1>2. CASE PoolStep
    <2>1. SharesInv'
      BY <1>2, SharesStep DEF LedgerInv
    <2>2. LedgerTyped' /\ Balanced
      BY <1>1, <1>2, PoolStepBalanced DEF LedgerInv
    <2>3. ASSUME NEW t \in Tokens PROVE pool_balance'[t] = Claims(t)'
      <3>1. pool_balance[t] = Claims(t) /\ Claims(t) \in Int
        BY ClaimsTyped DEF LedgerInv, PoolInv
      <3>2. pool_balance'[t] \in Int /\ Claims(t)' \in Int
        <4>1. PoolTypeOK'
          BY <1>1 DEF PoolInv
        <4>2. NetIn(t)' \in Int /\ EscrowedIn(t)' \in Int
          <5> DEFINE f == [id \in Ids |-> net'[id][t]]
                     g == [id \in Ids |-> EscrowOf(id, t)']
          <5>1. \A id \in Ids : f[id] \in Int /\ g[id] \in Int
            BY <2>2, <4>1 DEF LedgerTyped, PoolTypeOK, EscrowOf, Settlement
          <5> HIDE DEF f, g
          <5>2. SumFunctionOnSet(f, Ids) \in Int /\ SumFunctionOnSet(g, Ids) \in Int
            BY <5>1, IdsFinite, SumType
          <5> QED  BY <5>2 DEF NetIn, EscrowedIn, f, g
        <4> QED  BY <2>2, <4>2 DEF LedgerTyped, Claims
      <3>3. pool_balance'[t] - Claims(t)' = pool_balance[t] - Claims(t)
        BY <2>2 DEF Balanced
      <3> QED  BY <3>1, <3>2, <3>3
    <2> QED  BY <1>1, <2>1, <2>2, <2>3 DEF LedgerInv
  <1>3. CASE UNCHANGED <<poolVars, pool_balance>>
    <2>1. SharesInv' /\ LedgerTyped'
      BY <1>3 DEF LedgerInv, SharesInv, LedgerTyped, poolVars, careVars
    <2>2. \A t \in Tokens : Claims(t)' = Claims(t)
      BY <1>3, ClaimsKept DEF poolVars, EscrowOf
    <2> QED  BY <1>1, <1>3, <2>1, <2>2 DEF LedgerInv
  <1> QED  BY <1>2, <1>3 DEF PoolNext, allPoolVars

\* The books are exact in every state, whatever tokens and prices there are.
THEOREM PoolLedgerExact == PoolSpec => []LedgerInv
  <1>1. PoolSystemInit => LedgerInv
    BY LedgerInitInv
  <1>2. PoolInv /\ LedgerInv /\ [PoolNext]_allPoolVars => LedgerInv'
    BY LedgerStep
  <1> QED  BY <1>1, <1>2, PoolInvariant, PTL DEF PoolSpec

\* Every invoice stays covered, or is noted as irregular.
LEMMA CoveredStep ==
  ASSUME PoolInv, LedgerInv, \A id \in Ids : Covered(id), [PoolNext]_allPoolVars
  PROVE  \A id \in Ids : Covered(id)'
  <1>1. PoolInv'
    BY PoolNextInv
  <1>2. CASE PoolStep
    BY <1>1, <1>2, PoolStepCovered DEF LedgerInv
  <1>3. CASE UNCHANGED <<poolVars, pool_balance>>
    BY <1>3, CoveredKept DEF LedgerInv, poolVars, careVars
  <1> QED  BY <1>2, <1>3 DEF PoolNext, allPoolVars

\* Every invoice is covered in every state.
LEMMA CoveredInvariant == PoolSpec => [](\A id \in Ids : Covered(id))
  <1>1. PoolSystemInit => \A id \in Ids : Covered(id)
    BY LedgerInitInv
  <1>2. PoolInv /\ LedgerInv /\ (\A id \in Ids : Covered(id)) /\ [PoolNext]_allPoolVars
        => (\A id \in Ids : Covered(id))'
    BY CoveredStep
  <1> QED  BY <1>1, <1>2, PoolInvariant, PoolLedgerExact, PTL DEF PoolSpec

\* distribute_yield pays an invoice's investors with that invoice's own tokens,
\* whatever the prices and tokens, unless the invoice itself was irregular.
THEOREM PoolPaysOnlyWhatCameIn == PoolSpec => []PaysOnlyWhatCameIn
  <1>1. (\A id \in Ids : Covered(id)) => PaysOnlyWhatCameIn
    BY DEF Covered, PaysOnlyWhatCameIn
  <1> QED  BY <1>1, CoveredInvariant, PTL

\* What the invoices brought in falls short by no more than the overdrafts.
LEMMA NetAboveOverdraft ==
  ASSUME PoolInv, LedgerTyped, PaysOnlyWhatCameIn, NEW t \in Tokens
  PROVE  NetIn(t) \in Int /\ Overdrawn(t) \in Nat /\ NetIn(t) + Overdrawn(t) >= 0
  <1> DEFINE f == [id \in Ids |-> net[id][t]]
             g == [id \in Ids |-> OverdraftOf(id, t)]
             F == SumFunctionOnSet(f, Ids)
             G == SumFunctionOnSet(g, Ids)
  <1>1. \A id \in Ids : f[id] \in Int /\ g[id] \in Nat /\ f[id] + g[id] >= 0
    BY DEF PaysOnlyWhatCameIn, LedgerTyped, OverdraftOf
  <1>2. NetIn(t) = F /\ Overdrawn(t) = G
    BY DEF NetIn, Overdrawn
  <1> HIDE DEF f, g
  <1>3. \A id \in Ids : f[id] \in Int /\ g[id] \in Int
    BY <1>1
  <1>4. F \in Int /\ G \in Nat
    BY <1>1, <1>3, IdsFinite, SumType, SumNat
  <1>5. (-1) * F <= 1 * G
    <2> DEFINE a == -1
               b == 1
    <2>1. a \in Int /\ b \in Int /\ \A id \in Ids : a * f[id] <= b * g[id]
      BY <1>1
    <2> HIDE DEF a, b
    <2>2. a * F <= b * G
      BY <1>3, <2>1, IdsFinite, SumProportion
    <2> QED  BY <2>2 DEF a, b
  <1> HIDE DEF F, G
  <1> QED  BY <1>2, <1>4, <1>5

\* The pool can return every escrow at any time, but for what the irregular
\* invoices have overdrawn.
THEOREM PoolEscrowBacked == PoolSpec => []EscrowBacked
  <1>1. PoolInv /\ LedgerInv /\ PaysOnlyWhatCameIn => EscrowBacked
    <2> SUFFICES ASSUME PoolInv, LedgerInv, PaysOnlyWhatCameIn, NEW t \in Tokens
                 PROVE  pool_balance[t] + Overdrawn(t) >= EscrowedIn(t)
      BY DEF EscrowBacked
    <2>1. NetIn(t) \in Int /\ Overdrawn(t) \in Nat /\ NetIn(t) + Overdrawn(t) >= 0
      BY NetAboveOverdraft DEF LedgerInv
    <2>2. EscrowedIn(t) \in Int
      BY ClaimsTyped DEF PoolInv, LedgerInv
    <2>3. pool_balance[t] = NetIn(t) + EscrowedIn(t)
      BY DEF LedgerInv, Claims
    <2> QED  BY <2>1, <2>2, <2>3
  <1> QED  BY <1>1, PoolInvariant, PoolLedgerExact, PoolPaysOnlyWhatCameIn, PTL

-----------------------------------------------------------------------------
(* The NFT contract and the pool implement the abstract lifecycle: every    *)
(* transaction is a step of one invoice's lifecycle or does not concern it. *)

\* The refinement mapping, one invoice at a time.
stageBar == [id \in Ids |-> StageOf(id)]
faceBar == [id \in Ids |-> invoices[id].amount]

LifecycleStep == [Lifecycle!Next]_(Lifecycle!vars)

-----------------------------------------------------------------------------
(* Facts about the mapping.                                                 *)

\* An id with a record has been handed out.
LEMMA MintedBelowNext ==
  ASSUME NftInv, NEW id \in Ids, invoices[id].status # "Absent"
  PROVE  id < next_id
  BY DEF NftInv, NftTypeOK, EnvTypeOK, Timeline, TimelineOf, NoInvoice, Ids

\* A record that is unchanged, of an id that is not being handed out, keeps its
\* stage.
LEMMA StageKept ==
  ASSUME NftInv, NEW i \in Ids, invoices'[i] = invoices[i],
         \/ next_id' = next_id
         \/ next_id' = next_id + 1 /\ i # next_id
  PROVE  StageOf(i)' = StageOf(i)
  BY DEF StageOf, NftInv, NftTypeOK, EnvTypeOK, Ids

\* One invoice moves and the others keep their stage.
LEMMA StageMoves ==
  ASSUME NEW id \in Ids, NEW to, StageOf(id)' = to,
         \A i \in Ids \ {id} : StageOf(i)' = StageOf(i)
  PROVE  stageBar' = [stageBar EXCEPT ![id] = to]
  BY DEF stageBar

\* Nothing the lifecycle sees has changed.
LEMMA Stutter ==
  ASSUME UNCHANGED <<invoices, next_id, distributions>>
  PROVE  LifecycleStep
  <1>1. stageBar' = stageBar /\ faceBar' = faceBar
    BY DEF stageBar, faceBar, StageOf
  <1> QED  BY <1>1 DEF LifecycleStep, Lifecycle!vars, stageBar, faceBar

-----------------------------------------------------------------------------
\* The initial state maps to the initial state.
LEMMA InitRefines == EnvInit /\ NftInit /\ PoolInit => Lifecycle!Init
  <1> SUFFICES ASSUME NftInit, PoolInit PROVE Lifecycle!Init
    OBVIOUS
  <1>1. \A id \in Ids : StageOf(id) = "Unminted" /\ invoices[id].amount = 0
    BY DEF NftInit, StageOf, NoInvoice, Ids
  <1> QED  BY <1>1 DEF Lifecycle!Init, PoolInit

\* A status setter moves one invoice on; what it pays out depends on the step
\* it is part of.
LEMMA SetterMoves ==
  ASSUME NftInv, NEW id \in Ids, NEW to \in InvoiceStatus \ {"Absent"},
         invoices' \in [Ids -> Invoice],
         \A i \in Ids \ {id} : invoices'[i] = invoices[i],
         invoices'[id].status = to, invoices'[id].amount = invoices[id].amount,
         next_id' = next_id
  PROVE  stageBar' = [stageBar EXCEPT ![id] = to] /\ faceBar' = faceBar
  <1>1. \A i \in Ids \ {id} : StageOf(i)' = StageOf(i)
    BY StageKept
  <1>2. StageOf(id)' = to
    BY DEF StageOf
  <1>3. faceBar' = faceBar
    BY DEF faceBar
  <1> QED  BY <1>1, <1>2, <1>3, StageMoves

\* set_listed is List.
LEMMA ListRefines ==
  ASSUME PoolInv, NEW id \in Ids, NEW caller, set_listed(caller, id),
         UNCHANGED distributions
  PROVE  Lifecycle!List(id)
  <1>1. NftInv /\ invoices \in [Ids -> Invoice]
    BY DEF PoolInv, NftInv, NftTypeOK, EnvTypeOK
  <1>2. /\ invoices' \in [Ids -> Invoice]
        /\ \A i \in Ids \ {id} : invoices'[i] = invoices[i]
        /\ invoices'[id].status = "Listed"
        /\ invoices'[id].amount = invoices[id].amount
        /\ next_id' = next_id
    BY <1>1 DEF set_listed, Invoice, InvoiceStatus
  <1>3. stageBar' = [stageBar EXCEPT ![id] = "Listed"] /\ faceBar' = faceBar
    BY <1>1, <1>2, SetterMoves DEF InvoiceStatus
  <1>4. stageBar[id] = "Created"
    BY DEF set_listed, HasStatus, stageBar, StageOf
  <1> QED
    BY <1>3, <1>4 DEF Lifecycle!List, Lifecycle!Move, stageBar, faceBar

\* set_funded is Fund.
LEMMA FundRefines ==
  ASSUME PoolInv, NEW id \in Ids, NEW caller, set_funded(caller, id),
         UNCHANGED distributions
  PROVE  Lifecycle!Fund(id)
  <1>1. NftInv /\ invoices \in [Ids -> Invoice] /\ now \in Nat
    BY DEF PoolInv, NftInv, NftTypeOK, EnvTypeOK
  <1>2. /\ invoices' \in [Ids -> Invoice]
        /\ \A i \in Ids \ {id} : invoices'[i] = invoices[i]
        /\ invoices'[id].status = "Funded"
        /\ invoices'[id].amount = invoices[id].amount
        /\ next_id' = next_id
    <2>1. [invoices[id] EXCEPT !.status = "Funded", !.funded_at = now] \in Invoice
      BY <1>1, StatusType DEF InvoiceStatus
    <2> QED  BY <1>1, <2>1 DEF set_funded, Invoice
  <1>3. stageBar' = [stageBar EXCEPT ![id] = "Funded"] /\ faceBar' = faceBar
    BY <1>1, <1>2, SetterMoves DEF InvoiceStatus
  <1>4. stageBar[id] = "Listed"
    BY DEF set_funded, HasStatus, stageBar, StageOf
  <1> QED
    BY <1>3, <1>4 DEF Lifecycle!Fund, Lifecycle!Move, stageBar, faceBar

\* set_repaid with a payout is Repay, whether repay or accept_early_settlement
\* calls it.
LEMMA RepayRefines ==
  ASSUME PoolInv, NEW id \in Ids, set_repaid(PoolAddr, id),
         distributions' = [distributions EXCEPT ![id] = @ + 1]
  PROVE  Lifecycle!Repay(id)
  <1>1. /\ NftInv
        /\ invoices \in [Ids -> Invoice]
        /\ now \in Nat
        /\ distributions \in [Ids -> Nat]
    BY DEF PoolInv, NftInv, NftTypeOK, EnvTypeOK, PoolTypeOK
  <1>2. /\ invoices' \in [Ids -> Invoice]
        /\ \A i \in Ids \ {id} : invoices'[i] = invoices[i]
        /\ invoices'[id].status = "Repaid"
        /\ invoices'[id].amount = invoices[id].amount
        /\ next_id' = next_id
    <2>1. [invoices[id] EXCEPT !.status = "Repaid", !.repaid_at = now] \in Invoice
      BY <1>1, StatusType DEF InvoiceStatus
    <2>2. invoices' \in [Ids -> Invoice]
      BY <1>1, <2>1 DEF set_repaid
    <2> QED  BY <1>1, <2>2 DEF set_repaid, Invoice
  <1>3. stageBar' = [stageBar EXCEPT ![id] = "Repaid"] /\ faceBar' = faceBar
    BY <1>1, <1>2, SetterMoves DEF InvoiceStatus
  <1>4. stageBar[id] = "Funded"
    BY DEF set_repaid, HasStatus, stageBar, StageOf
  <1>5. distributions[id] = 0
    BY DEF set_repaid, HasStatus, PoolInv, InvoiceInv, PaidOutAtMostOnce
  <1>6. distributions' = [distributions EXCEPT ![id] = 1]
    BY <1>1, <1>5
  <1> QED
    BY <1>3, <1>4, <1>5, <1>6
    DEF Lifecycle!Repay, Lifecycle!Move, Lifecycle!PayOut, stageBar, faceBar

\* set_defaulted is Default, with the payout of mark_default or without.
LEMMA DefaultRefines ==
  ASSUME PoolInv, NEW id \in Ids, set_defaulted(id),
         \/ distributions' = [distributions EXCEPT ![id] = @ + 1]
         \/ UNCHANGED distributions
  PROVE  Lifecycle!Default(id)
  <1>1. /\ NftInv
        /\ invoices \in [Ids -> Invoice]
        /\ distributions \in [Ids -> Nat]
    BY DEF PoolInv, NftInv, NftTypeOK, EnvTypeOK, PoolTypeOK
  <1>2. /\ invoices' \in [Ids -> Invoice]
        /\ \A i \in Ids \ {id} : invoices'[i] = invoices[i]
        /\ invoices'[id].status = "Defaulted"
        /\ invoices'[id].amount = invoices[id].amount
        /\ next_id' = next_id
    BY <1>1 DEF set_defaulted, Invoice, InvoiceStatus
  <1>3. stageBar' = [stageBar EXCEPT ![id] = "Defaulted"] /\ faceBar' = faceBar
    BY <1>1, <1>2, SetterMoves DEF InvoiceStatus
  <1>4. stageBar[id] = "Funded"
    BY DEF set_defaulted, HasStatus, Defaultable, stageBar, StageOf
  <1>5. distributions[id] = 0
    BY DEF set_defaulted, HasStatus, Defaultable, PoolInv, InvoiceInv, PaidOutAtMostOnce
  <1>6. \/ distributions' = [distributions EXCEPT ![id] = 1]
        \/ UNCHANGED distributions
    BY <1>1, <1>5
  <1> QED
    BY <1>3, <1>4, <1>5, <1>6
    DEF Lifecycle!Default, Lifecycle!Move, Lifecycle!PayOut, stageBar, faceBar

-----------------------------------------------------------------------------
(* The SME's entry points.                                                  *)

\* mint_invoice is Mint of the id it hands out.
LEMMA MintRefines ==
  ASSUME PoolInv, UNCHANGED distributions,
         NEW sme \in SMEs, NEW amount \in Amounts, NEW currency \in Currencies,
         NEW due_date \in DueDates, NEW document \in Documents, NEW score \in Scores,
         mint_invoice(sme, amount, currency, due_date, document, score)
  PROVE  \E id \in Ids : Lifecycle!Mint(id)
  <1>1. NftInv /\ invoices \in [Ids -> Invoice] /\ next_id \in Nat \ {0}
    BY DEF PoolInv, NftInv, NftTypeOK, EnvTypeOK
  <1>2. PICK id \in Ids : id = next_id
    BY <1>1, NftAssumption DEF mint_invoice, Ids
  <1>3. invoices[id].status = "Absent"
    BY <1>1, <1>2 DEF NftInv, Timeline, TimelineOf, NoInvoice, Ids
  <1>4. /\ invoices'[id].status = "Created"
        /\ invoices'[id].amount = amount
        /\ \A i \in Ids \ {id} : invoices'[i] = invoices[i]
        /\ next_id' = next_id + 1
    BY <1>1, <1>2 DEF mint_invoice, NoInvoice
  <1>5. amount \in Nat \ {0}
    BY NftAssumption DEF mint_invoice, ValidTerms, require_non_zero_amount
  <1>6. \A i \in Ids \ {id} : StageOf(i)' = StageOf(i)
    BY <1>1, <1>2, <1>4, StageKept
  <1>7. StageOf(id)' = "Created"
    BY <1>4 DEF StageOf
  <1>8. stageBar[id] = "Unminted"
    BY <1>1, <1>2, <1>3 DEF stageBar, StageOf
  <1>9. stageBar' = [stageBar EXCEPT ![id] = "Created"]
    BY <1>6, <1>7, StageMoves
  <1>10. faceBar'[id] \in Nat \ {0} /\ faceBar' = [faceBar EXCEPT ![id] = faceBar'[id]]
    BY <1>4, <1>5 DEF faceBar
  <1> QED
    BY <1>8, <1>9, <1>10
    DEF Lifecycle!Mint, Lifecycle!Move, Lifecycle!ChooseFace, stageBar, faceBar

\* amend_invoice is Amend.
LEMMA AmendRefines ==
  ASSUME PoolInv, UNCHANGED distributions,
         NEW sme \in SMEs, NEW id \in Ids, NEW amount \in Amounts,
         NEW due_date \in DueDates, NEW document \in Documents, NEW score \in Scores,
         amend_invoice(sme, id, amount, due_date, document, score)
  PROVE  Lifecycle!Amend(id)
  <1>1. NftInv /\ invoices \in [Ids -> Invoice]
    BY DEF PoolInv, NftInv, NftTypeOK, EnvTypeOK
  <1>2. /\ invoices[id].status = "Created"
        /\ invoices'[id].status = "Created"
        /\ invoices'[id].amount = amount
        /\ \A i \in Ids \ {id} : invoices'[i] = invoices[i]
        /\ next_id' = next_id
    BY <1>1 DEF amend_invoice, HasStatus, OwnedCreated, Invoice
  <1>3. amount \in Nat \ {0}
    BY NftAssumption DEF amend_invoice, ValidTerms, require_non_zero_amount
  <1>4. \A i \in Ids : StageOf(i)' = StageOf(i)
    BY <1>1, <1>2, StageKept DEF StageOf
  <1>5. stageBar' = stageBar /\ stageBar[id] = "Created"
    BY <1>2, <1>4 DEF stageBar, StageOf
  <1>6. faceBar'[id] \in Nat \ {0} /\ faceBar' = [faceBar EXCEPT ![id] = faceBar'[id]]
    BY <1>2, <1>3 DEF faceBar
  <1> QED
    BY <1>5, <1>6 DEF Lifecycle!Amend, Lifecycle!ChooseFace, stageBar, faceBar

\* withdraw_invoice is Withdraw: the id has been handed out and stays so.
LEMMA WithdrawRefines ==
  ASSUME PoolInv, UNCHANGED distributions,
         NEW sme \in SMEs, NEW id \in Ids, withdraw_invoice(sme, id)
  PROVE  Lifecycle!Withdraw(id)
  <1>1. NftInv /\ invoices \in [Ids -> Invoice]
    BY DEF PoolInv, NftInv, NftTypeOK, EnvTypeOK
  <1>2. /\ invoices[id].status = "Created"
        /\ invoices'[id].status = "Absent"
        /\ invoices'[id].amount = 0
        /\ \A i \in Ids \ {id} : invoices'[i] = invoices[i]
        /\ next_id' = next_id
    BY <1>1 DEF withdraw_invoice, HasStatus, OwnedCreated, NoInvoice
  <1>3. id < next_id
    BY <1>1, <1>2, MintedBelowNext
  <1>4. \A i \in Ids \ {id} : StageOf(i)' = StageOf(i)
    BY <1>1, <1>2, StageKept
  <1>5. StageOf(id)' = "Withdrawn"
    BY <1>2, <1>3 DEF StageOf
  <1>6. stageBar' = [stageBar EXCEPT ![id] = "Withdrawn"] /\ stageBar[id] = "Created"
    BY <1>2, <1>4, <1>5, StageMoves DEF stageBar, StageOf
  <1>7. faceBar' = [faceBar EXCEPT ![id] = 0]
    BY <1>2 DEF faceBar
  <1> QED
    BY <1>6, <1>7 DEF Lifecycle!Withdraw, Lifecycle!Move, stageBar, faceBar

\* commit_metadata_hash is not visible to the lifecycle.
LEMMA CommitRefines ==
  ASSUME PoolInv, UNCHANGED distributions,
         NEW sme \in SMEs, NEW id \in Ids, NEW hash \in Documents,
         commit_metadata_hash(sme, id, hash)
  PROVE  LifecycleStep
  <1>1. invoices \in [Ids -> Invoice]
    BY DEF PoolInv, NftInv, NftTypeOK, EnvTypeOK
  <1>2. \A i \in Ids : /\ invoices'[i].status = invoices[i].status
                       /\ invoices'[i].amount = invoices[i].amount
    BY <1>1 DEF commit_metadata_hash, Invoice
  <1>3. next_id' = next_id
    BY DEF commit_metadata_hash
  <1>4. stageBar' = stageBar /\ faceBar' = faceBar
    BY <1>2, <1>3 DEF stageBar, faceBar, StageOf
  <1> QED  BY <1>4 DEF LifecycleStep, Lifecycle!vars, stageBar, faceBar

\* Every step of the SME is a lifecycle step.
LEMMA SmeRefines ==
  ASSUME PoolInv, UNCHANGED distributions, SmeNext
  PROVE  LifecycleStep
  BY MintRefines, AmendRefines, WithdrawRefines, CommitRefines
  DEF SmeNext, LifecycleStep, Lifecycle!Next

-----------------------------------------------------------------------------
\* Every step of the NFT contract and the environment is a lifecycle step.
LEMMA NftStepRefines ==
  ASSUME PoolInv, NftStep, UNCHANGED distributions
  PROVE  LifecycleStep
  <1>1. CASE SmeNext
    BY <1>1, SmeRefines
  <1>2. CASE NftAdminNext
    <2> PICK id \in Ids : set_defaulted(id) \/ freeze_invoice(id) \/ unfreeze_invoice(id)
      BY <1>2 DEF NftAdminNext
    <2>1. CASE set_defaulted(id)
      BY <2>1, DefaultRefines DEF LifecycleStep, Lifecycle!Next
    <2>2. CASE freeze_invoice(id) \/ unfreeze_invoice(id)
      BY <2>2, Stutter DEF freeze_invoice, unfreeze_invoice
    <2> QED  BY <2>1, <2>2
  <1>3. CASE UNCHANGED nftVars
    BY <1>3, Stutter DEF nftVars
  <1> QED  BY <1>1, <1>2, <1>3 DEF NftStep

\* Every step of the pool contract is a lifecycle step.
LEMMA PoolStepRefines ==
  ASSUME PoolInv, PoolStep
  PROVE  LifecycleStep
  <1>1. CASE RecordNext \/ CapNext \/ MarketNext
    BY <1>1, Stutter DEF RecordNext, CapNext, MarketNext, record_position,
       set_max_position_bps, list_position_for_sale, buy_position, nftVars
  <1>2. CASE OpenNext
    BY <1>2, FundRefines DEF OpenNext, release_funds, LifecycleStep, Lifecycle!Next
  <1>3. ASSUME NEW id \in Ids, NEW token \in Tokens, NEW amount \in RepayAmounts,
               repay(id, token, amount)
        PROVE  LifecycleStep
    <2>1. \/ UNCHANGED <<distributions, nftVars>>
          \/ /\ distributions' = [distributions EXCEPT ![id] = @ + 1]
             /\ set_repaid(PoolAddr, id)
      BY <1>3, DistributeCounts DEF repay
    <2>2. CASE UNCHANGED <<distributions, nftVars>>
      BY <2>2, Stutter DEF nftVars
    <2>3. CASE /\ distributions' = [distributions EXCEPT ![id] = @ + 1]
               /\ set_repaid(PoolAddr, id)
      BY <2>3, RepayRefines DEF LifecycleStep, Lifecycle!Next
    <2> QED  BY <2>1, <2>2, <2>3
  <1>4. ASSUME NEW id \in Ids, NEW token \in Tokens, NEW recorded \in BOOLEAN,
               mark_default(id, token, recorded)
        PROVE  LifecycleStep
    <2>1. \/ distributions' = [distributions EXCEPT ![id] = @ + 1]
          \/ UNCHANGED distributions
      BY <1>4, DistributeCounts DEF mark_default
    <2>2. set_defaulted(id)
      BY <1>4 DEF mark_default
    <2> QED  BY <2>1, <2>2, DefaultRefines DEF LifecycleStep, Lifecycle!Next
  <1>5. ASSUME NEW id \in Ids, NEW i \in Investors, accept_early_settlement(i, id)
        PROVE  LifecycleStep
    <2>1. CASE AddAcceptance(i, id)
      BY <2>1, Stutter DEF AddAcceptance, nftVars
    <2>2. CASE SettleEarly(i, id)
      <3>1. /\ distributions' = [distributions EXCEPT ![id] = @ + 1]
            /\ set_repaid(PoolAddr, id)
        BY <2>2, DistributeCounts DEF SettleEarly
      <3> QED  BY <3>1, RepayRefines DEF LifecycleStep, Lifecycle!Next
    <2> QED  BY <1>5, <2>1, <2>2 DEF accept_early_settlement
  <1>6. ASSUME NEW id \in Ids, NEW sme \in SMEs, NEW amount \in SettlementAmounts,
               propose_early_settlement(sme, id, amount)
        PROVE  LifecycleStep
    BY <1>6, Stutter DEF propose_early_settlement, nftVars
  <1>7. ASSUME NEW id \in Ids, NEW sme \in SMEs, cancel_early_settlement(sme, id)
        PROVE  LifecycleStep
    BY <1>7, Stutter DEF cancel_early_settlement, MayCancelSettlement, nftVars
  <1> QED
    BY <1>1, <1>2, <1>3, <1>4, <1>5, <1>6, <1>7
    DEF PoolStep, RepayNext, DefaultNext, SettlementNext

\* The contracts implement the lifecycle: for every number of invoices,
\* investors and tokens, what an observer of the two contracts sees of an
\* invoice is a behaviour of InvoiceLifecycle.
THEOREM PoolImplementsLifecycle == PoolSpec => LifecycleSpec
  <1>1. PoolInv /\ [PoolNext]_allPoolVars => [Lifecycle!Next]_(Lifecycle!vars)
    <2> SUFFICES ASSUME PoolInv, [PoolNext]_allPoolVars PROVE LifecycleStep
      BY DEF LifecycleStep
    <2>1. CASE PoolStep
      BY <2>1, PoolStepRefines
    <2>2. CASE NftStep /\ UNCHANGED <<poolVars, pool_balance>>
      BY <2>2, NftStepRefines DEF poolVars
    <2>3. CASE ListNext /\ UNCHANGED <<poolVars, pool_balance>>
      BY <2>3, ListRefines DEF ListNext, poolVars, LifecycleStep, Lifecycle!Next
    <2>4. CASE UNCHANGED allPoolVars
      BY <2>4, Stutter DEF allPoolVars, nftVars, poolVars
    <2> QED  BY <2>1, <2>2, <2>3, <2>4 DEF PoolNext
  <1> QED
    BY InitRefines, PoolInvariant, <1>1, PTL DEF PoolSpec, PoolSystemInit, LifecycleSpec, Lifecycle!Spec
=============================================================================

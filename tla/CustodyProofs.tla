--------------------------- MODULE CustodyProofs ---------------------------
(***************************************************************************)
(* The two contracts that hold tokens of their own and audit their admin:  *)
(* the treasury and the risk registry.  First the audit ring they share,   *)
(* then the treasury's timelocks and its withdrawal cap, then the stakes   *)
(* and the cooldown of the registry.                                       *)
(***************************************************************************)
EXTENDS Treasury, RiskRegistry, TimelockProofs, SumProofs

-----------------------------------------------------------------------------
(* Remainders.                                                              *)

\* Quotient and remainder make up the number.
LEMMA ModRange ==
  ASSUME NEW M \in Nat \ {0}, NEW x \in Nat
  PROVE  x % M \in 0..(M - 1) /\ x \div M \in Nat /\ x = M * (x \div M) + (x % M)
  OBVIOUS

\* The remainder is determined by that.
LEMMA ModUnique ==
  ASSUME NEW M \in Nat \ {0}, NEW q \in Int, NEW r \in 0..(M - 1)
  PROVE  (M * q + r) % M = r
  OBVIOUS

\* One subtraction is enough below twice the modulus.
LEMMA ModSmall ==
  ASSUME NEW M \in Nat \ {0}, NEW x \in 0..(2 * M - 1)
  PROVE  x % M = IF x < M THEN x ELSE x - M
  OBVIOUS

\* The remainders of successive numbers.
LEMMA ModNext ==
  ASSUME NEW M \in Nat \ {0}, NEW t \in Nat
  PROVE  (t + 1) % M = ((t % M) + 1) % M
  <1> DEFINE q == t \div M
             r == t % M
             s == r + 1
  <1>1. q \in Nat /\ r \in 0..(M - 1) /\ t = M * q + r
    BY ModRange
  <1> HIDE DEF q, r
  <1>2. CASE r < M - 1
    <2>1. s \in 0..(M - 1) /\ s \in 0..(2 * M - 1) /\ s < M /\ t + 1 = M * q + s
      BY <1>1, <1>2
    <2> HIDE DEF s
    <2>2. (M * q + s) % M = s
      BY <1>1, <2>1, ModUnique
    <2>3. s % M = s
      BY <2>1, ModSmall
    <2> QED  BY <2>1, <2>2, <2>3 DEF r, s
  <1>3. CASE r = M - 1
    <2>1. (M * (q + 1) + 0) % M = 0
      BY <1>1, <1>3, ModUnique
    <2>2. t + 1 = M * (q + 1) + 0
      BY <1>1, <1>3
    <2>3. (r + 1) % M = 0
      BY <1>1, <1>3, ModSmall
    <2> QED  BY <2>1, <2>2, <2>3 DEF r
  <1> QED  BY <1>1, <1>2, <1>3

\* The lesser and the greater of two integers.
LEMMA MinMaxOfTwo ==
  ASSUME NEW x \in Int, NEW y \in Int
  PROVE  /\ Min({x, y}) = IF x <= y THEN x ELSE y
         /\ Max({x, y}) = IF x <= y THEN y ELSE x
  <1>1. \E m \in {x, y} : \A z \in {x, y} : m <= z
    OBVIOUS
  <1>2. Min({x, y}) \in {x, y} /\ \A z \in {x, y} : Min({x, y}) <= z
    BY <1>1 DEF Min
  <1>3. \E m \in {x, y} : \A z \in {x, y} : m >= z
    OBVIOUS
  <1>4. Max({x, y}) \in {x, y} /\ \A z \in {x, y} : Max({x, y}) >= z
    BY <1>3 DEF Max
  <1> QED  BY <1>2, <1>4

-----------------------------------------------------------------------------
(* The audit ring.                                                          *)

\* The slot written `offset` actions before the last, without a remainder.
Back(offset) ==
    IF offset < audit_head THEN audit_head - 1 - offset
    ELSE audit_head + MAX_AUDIT_LOG_SIZE - 1 - offset

\* How many slots back an entry is stored.
Reach == {offset \in Nat : offset < audit_total /\ offset < MAX_AUDIT_LOG_SIZE}

\* Going back from the head, slot after slot, the sequence numbers go down by one;
\* no entry is younger than the last, nor than the ledger.
AuditInv ==
    /\ now \in Nat
    /\ audit_total \in Nat
    /\ audit_head \in Slots
    /\ audit_head = audit_total % MAX_AUDIT_LOG_SIZE
    /\ audit_entry \in [Slots -> [sequence: Int, timestamp: Nat]]
    /\ \A n \in Slots : audit_entry[n].timestamp <= now
    /\ \A offset \in Reach :
          /\ audit_entry[Back(offset)].sequence = audit_total - 1 - offset
          /\ audit_entry[Back(offset)].timestamp <= audit_entry[Back(0)].timestamp

\* The ring starts empty.
LEMMA AuditInitInv == AuditInit => AuditInv
  <1> SUFFICES ASSUME AuditInit PROVE AuditInv
    OBVIOUS
  <1>1. MAX_AUDIT_LOG_SIZE \in Nat \ {0} /\ 0 \in 0..(2 * MAX_AUDIT_LOG_SIZE - 1)
    BY AuditAssumption
  <1>2. 0 % MAX_AUDIT_LOG_SIZE = 0
    BY <1>1, ModSmall
  <1>3. NoEntry \in [sequence: Int, timestamp: Nat] /\ NoEntry.timestamp = 0
    BY DEF NoEntry
  <1>4. /\ audit_entry \in [Slots -> [sequence: Int, timestamp: Nat]]
        /\ \A n \in Slots : audit_entry[n].timestamp = 0
    BY <1>3 DEF AuditInit
  <1>5. 0 \in Slots /\ Reach = {}
    BY <1>1 DEF AuditInit, Slots, Reach
  <1> QED  BY <1>2, <1>4, <1>5 DEF AuditInit, AuditInv

\* A step that records nothing.
LEMMA AuditKept ==
  ASSUME AuditInv, now' \in Nat, now' >= now, UNCHANGED auditVars
  PROVE  AuditInv'
  <1>1. \A n \in Slots : audit_entry[n].timestamp \in Nat /\ audit_entry[n].timestamp <= now'
    BY DEF AuditInv
  <1>2. \A offset \in Reach' :
          /\ audit_entry'[Back(offset)'].sequence = audit_total' - 1 - offset
          /\ audit_entry'[Back(offset)'].timestamp <= audit_entry'[Back(0)'].timestamp
    BY DEF AuditInv, auditVars, Back, Reach
  <1> QED  BY <1>1, <1>2 DEF AuditInv, auditVars

\* append_audit_entry overwrites the oldest entry, if any, and every other is one
\* further back.
LEMMA AuditAppend ==
  ASSUME AuditInv, append_audit_entry, UNCHANGED now
  PROVE  AuditInv'
  <1> DEFINE M == MAX_AUDIT_LOG_SIZE
             entry == [sequence |-> audit_total, timestamp |-> now]
  <1>1. M \in Nat \ {0} /\ audit_total \in Nat /\ now \in Nat /\ audit_head \in 0..(M - 1)
    BY AuditAssumption DEF AuditInv, Slots
  <1>2. /\ audit_entry' = [audit_entry EXCEPT ![audit_head] = entry]
        /\ audit_head' = (audit_head + 1) % M
        /\ audit_total' = audit_total + 1
    BY DEF append_audit_entry, NextHead
  <1>3. audit_head' = (audit_total + 1) % M
    BY <1>1, <1>2, ModNext DEF AuditInv
  <1>4. audit_head' = IF audit_head = M - 1 THEN 0 ELSE audit_head + 1
    <2> DEFINE x == audit_head + 1
    <2>1. x \in 0..(2 * M - 1) /\ audit_head' = x % M
      BY <1>1, <1>2
    <2> HIDE DEF x
    <2>2. audit_head' = IF x < M THEN x ELSE x - M
      BY <1>1, <2>1, ModSmall
    <2> QED  BY <1>1, <2>1, <2>2 DEF x
  <1>5. entry \in [sequence: Int, timestamp: Nat] /\ entry.sequence = audit_total
          /\ entry.timestamp = now
    BY <1>1
  <1> HIDE DEF entry
  <1>6. /\ audit_entry' \in [Slots -> [sequence: Int, timestamp: Nat]]
        /\ audit_entry'[audit_head] = entry
        /\ \A n \in Slots \ {audit_head} : audit_entry'[n] = audit_entry[n]
    BY <1>2, <1>5 DEF AuditInv
  <1>7. \A n \in Slots : audit_entry'[n].timestamp <= now
    BY <1>1, <1>5, <1>6 DEF AuditInv
  <1>8. Back(0)' = audit_head
    BY <1>1, <1>4 DEF Back
  <1>9. ASSUME NEW offset \in Reach'
        PROVE  /\ audit_entry'[Back(offset)'].sequence = audit_total' - 1 - offset
               /\ audit_entry'[Back(offset)'].timestamp <= audit_entry'[Back(0)'].timestamp
    <2>1. offset \in Nat /\ offset <= audit_total /\ offset < M
      BY <1>1, <1>2 DEF Reach
    <2>2. CASE offset = 0
      BY <1>1, <1>2, <1>5, <1>6, <1>8, <2>2
    <2>3. CASE offset # 0
      <3> DEFINE o == offset - 1
      <3>1. o \in Reach /\ o < M - 1
        BY <2>1, <2>3, <1>1 DEF Reach
      <3>2. Back(offset)' = Back(o) /\ Back(o) \in Slots \ {audit_head}
        BY <1>1, <1>4, <2>1, <2>3 DEF Back, Slots
      <3>3. audit_entry'[Back(offset)'] = audit_entry[Back(o)]
        BY <1>6, <3>2
      <3>4. /\ audit_entry[Back(o)].sequence = audit_total - 1 - o
            /\ audit_entry[Back(o)].timestamp <= now
        BY <3>1, <3>2 DEF AuditInv
      <3> QED  BY <1>1, <1>2, <1>5, <1>6, <1>8, <2>1, <3>3, <3>4
    <2> QED  BY <2>2, <2>3
  <1>10. audit_head' \in Slots
    BY <1>1, <1>4 DEF Slots
  <1> QED  BY <1>1, <1>2, <1>3, <1>6, <1>7, <1>9, <1>10 DEF AuditInv

\* get_audit_log stops at what is stored.
LEMMA StoredReach ==
  ASSUME AuditInv
  PROVE  /\ Stored \in 0..MAX_AUDIT_LOG_SIZE
         /\ \A offset \in Nat : offset < Stored <=> offset \in Reach
  <1>1. audit_total \in Nat /\ MAX_AUDIT_LOG_SIZE \in Nat \ {0}
    BY AuditAssumption DEF AuditInv
  <1>2. Stored = IF audit_total <= MAX_AUDIT_LOG_SIZE THEN audit_total ELSE MAX_AUDIT_LOG_SIZE
    BY <1>1, MinMaxOfTwo DEF Stored
  <1> QED  BY <1>1, <1>2 DEF Reach

\* The slot get_audit_log computes is the one the invariant speaks of.
LEMMA PositionIsBack ==
  ASSUME AuditInv, NEW offset \in Reach
  PROVE  PositionOf(offset) = Back(offset) /\ Back(offset) \in Slots
  <1> DEFINE M == MAX_AUDIT_LOG_SIZE
             x == audit_head + M - 1 - offset
  <1>1. M \in Nat \ {0} /\ audit_head \in 0..(M - 1) /\ offset \in 0..(M - 1)
    BY AuditAssumption DEF AuditInv, Slots, Reach
  <1>2. x \in 0..(2 * M - 1)
    BY <1>1
  <1>3. x % M = IF x < M THEN x ELSE x - M
    BY <1>1, <1>2, ModSmall
  <1> QED  BY <1>1, <1>3 DEF PositionOf, Back, Slots

\* What the invariant says of the slots get_audit_log walks.
LEMMA AuditRing == AuditInv => RingHoldsNewest
  <1> SUFFICES ASSUME AuditInv PROVE RingHoldsNewest
    OBVIOUS
  <1>1. ASSUME NEW offset \in 0..(Stored - 1)
        PROVE  /\ audit_entry[PositionOf(offset)].sequence = audit_total - 1 - offset
               /\ audit_entry[PositionOf(offset)].timestamp
                    <= audit_entry[PositionOf(0)].timestamp
    <2>1. offset \in Reach /\ 0 \in Reach
      BY StoredReach
    <2> QED  BY <2>1, PositionIsBack DEF AuditInv
  <1> QED  BY <1>1 DEF RingHoldsNewest, AuditInv

\* The pages tile the stored entries.
LEMMA AuditPages == AuditInv => PagesCoverLog
  <1> SUFFICES ASSUME AuditInv, NEW page_size \in 0..(MaxPageSize + 1),
                      NEW page \in 0..MAX_AUDIT_LOG_SIZE, NEW i \in 1..ClampedSize(page_size)
               PROVE  LET log == get_audit_log(page, page_size)
                          offset == page * ClampedSize(page_size) + i - 1
                      IN  /\ offset < Stored <=> i \in DOMAIN log
                          /\ offset < Stored => log[i].sequence = audit_total - 1 - offset
    BY DEF PagesCoverLog, Pages
  <1> DEFINE size == ClampedSize(page_size)
             skip == page * size
             offset == skip + i - 1
             count == Max({0, Min({size, Stored - skip})})
             log == get_audit_log(page, page_size)
  <1>1. size \in Nat
    <2>1. page_size \in Nat /\ page_size \in Int /\ 1 \in Int
      BY AuditAssumption
    <2>2. Max({page_size, 1}) = IF page_size <= 1 THEN 1 ELSE page_size
      BY <2>1, MinMaxOfTwo, Zenon
    <2>3. Max({page_size, 1}) \in Nat
      BY <2>1, <2>2
    <2> QED  BY <2>3, MinMaxOfTwo, AuditAssumption DEF ClampedSize
  <1>2. skip \in Nat
    BY <1>1, AuditAssumption
  <1>3. log = [k \in 1..count |-> audit_entry[PositionOf(skip + k - 1)]]
    BY DEF get_audit_log
  <1>4. i \in 1..size
    OBVIOUS
  <1>5. Stored \in Nat
    BY StoredReach, AuditAssumption
  <1> SUFFICES /\ offset < Stored <=> i \in DOMAIN log
               /\ offset < Stored => log[i].sequence = audit_total - 1 - offset
    OBVIOUS
  <1> HIDE DEF size, skip, log
  <1>6. count = IF Stored - skip <= 0 THEN 0
                ELSE IF size <= Stored - skip THEN size ELSE Stored - skip
    <2> DEFINE rest == Stored - skip
               least == Min({size, rest})
    <2>1. rest \in Int
      BY <1>2, <1>5
    <2> HIDE DEF rest
    <2>2. least = IF size <= rest THEN size ELSE rest
      BY <1>1, <2>1, MinMaxOfTwo
    <2> HIDE DEF least
    <2>3. least \in Int /\ 0 \in Int
      BY <1>1, <2>1, <2>2
    <2>4. Max({0, least}) = IF 0 <= least THEN least ELSE 0
      BY <2>3, MinMaxOfTwo, Zenon
    <2> QED  BY <1>1, <2>1, <2>2, <2>4 DEF rest, least
  <1> HIDE DEF count
  <1>7. offset < Stored <=> i \in 1..count
    BY <1>1, <1>2, <1>4, <1>5, <1>6
  <1>8. offset \in Nat
    BY <1>2, <1>4
  <1>9. ASSUME offset < Stored PROVE log[i].sequence = audit_total - 1 - offset
    <2>1. log[i] = audit_entry[PositionOf(offset)]
      BY <1>3, <1>7, <1>9
    <2> HIDE DEF offset
    <2>2. offset \in Reach
      BY <1>8, <1>9, StoredReach
    <2> QED  BY <2>1, <2>2, PositionIsBack DEF AuditInv
  <1> QED  BY <1>3, <1>7, <1>9

-----------------------------------------------------------------------------
(* The treasury's timelocks.                                                *)

TimelockInv ==
    /\ UpgradeInv
    /\ cap_changed_at \in Int /\ cap_changed_at <= now
    /\ PendingSince(cap_proposal, cap_announced, cap_changed_at)

\* No proposal is pending when the contract is initialized.
LEMMA TimelockInitInv == TreasuryInit => TimelockInv
  <1> SUFFICES ASSUME TreasuryInit PROVE TimelockInv
    OBVIOUS
  <1>1. now = 0
    BY DEF TreasuryInit, AuditInit
  <1>2. UpgradeInv
    BY <1>1, UpgradeInitInv DEF TreasuryInit
  <1> QED  BY <1>1, <1>2 DEF TreasuryInit, TimelockInv, PendingSince, NoTime

\* Steps that leave both timelocks alone; the clock only moves on, which leaves
\* pending proposals in the past.
LEMMA TimelockKept ==
  ASSUME TimelockInv, UNCHANGED now \/ Advance, UNCHANGED <<capVars, upgradeVars>>
  PROVE  TimelockInv'
  <1>1. now \in Nat /\ now' \in Nat /\ now' >= now
    BY DEF TimelockInv, UpgradeInv, Advance
  <1>2. UpgradeInv'
    BY <1>1, UpgradeKept DEF TimelockInv
  <1> QED  BY <1>1, <1>2 DEF TimelockInv, PendingSince, capVars

\* Proposing dates the proposal now, executing consumes it.
LEMMA TimelockCapChange ==
  ASSUME TimelockInv, CapChangeNext, UNCHANGED now
  PROVE  TimelockInv'
  <1>1. now \in Nat /\ now' \in Nat /\ now' >= now
    BY DEF TimelockInv, UpgradeInv
  <1>2. UNCHANGED upgradeVars
    BY DEF CapChangeNext, propose_withdrawal_cap, execute_withdrawal_cap
  <1>3. UpgradeInv'
    BY <1>1, <1>2, UpgradeKept DEF TimelockInv
  <1>4. ASSUME NEW new_cap \in CapChoices, propose_withdrawal_cap(new_cap)
        PROVE  TimelockInv'
    BY <1>1, <1>3, <1>4 DEF TimelockInv, PendingSince, propose_withdrawal_cap, NewProposal
  <1>5. ASSUME execute_withdrawal_cap PROVE TimelockInv'
    BY <1>1, <1>3, <1>5 DEF TimelockInv, PendingSince, execute_withdrawal_cap, Consumed
  <1> QED  BY <1>4, <1>5 DEF CapChangeNext

\* The same of the upgrade proposal.
LEMMA TimelockUpgrade ==
  ASSUME TimelockInv, TreasuryUpgradeNext, UNCHANGED <<now, capVars>>
  PROVE  TimelockInv'
  <1>1. UpgradeInv'
    BY UpgradeStepInv, TreasuryAssumption DEF TimelockInv, TreasuryUpgradeNext
  <1> QED  BY <1>1 DEF TimelockInv, PendingSince, capVars

\* The other entry points touch neither timelock.
LEMMA OthersKeepTimelocks ==
  ASSUME FeeNext \/ WithdrawNext
  PROVE  UNCHANGED <<capVars, upgradeVars>>
  <1>1. ASSUME NEW bps \in FeeBpsChoices, set_fee_bps(bps)
        PROVE  UNCHANGED <<capVars, upgradeVars>>
    BY <1>1 DEF set_fee_bps
  <1>2. ASSUME NEW token \in FeeTokens, whitelist_token(token)
        PROVE  UNCHANGED <<capVars, upgradeVars>>
    BY <1>2 DEF whitelist_token
  <1>3. ASSUME NEW token \in FeeTokens, NEW amount \in Withdrawals, withdraw(token, amount)
        PROVE  UNCHANGED <<capVars, upgradeVars>>
    BY <1>3 DEF withdraw
  <1>4. ASSUME NEW token \in FeeTokens, emergency_withdraw(token)
        PROVE  UNCHANGED <<capVars, upgradeVars>>
    BY <1>4 DEF emergency_withdraw
  <1>5. QED  BY <1>1, <1>2, <1>3, <1>4 DEF FeeNext, WithdrawNext

\* Every step of the treasury keeps the invariant.
LEMMA TimelockStep ==
  ASSUME TimelockInv, [TreasuryNext]_treasuryVars
  PROVE  TimelockInv'
  <1>1. CASE FeeNext /\ UNCHANGED now
    BY <1>1, OthersKeepTimelocks, TimelockKept
  <1>2. CASE WithdrawNext /\ UNCHANGED now
    BY <1>2, OthersKeepTimelocks, TimelockKept
  <1>3. CASE DepositNext /\ UNCHANGED <<now, auditVars, upgradeVars, feeVars, capVars, epochVars>>
    BY <1>3, TimelockKept
  <1>4. CASE CapChangeNext /\ UNCHANGED now
    BY <1>4, TimelockCapChange
  <1>5. CASE TreasuryUpgradeNext /\ UNCHANGED <<now, feeVars, bookVars, capVars, epochVars>>
    BY <1>5, TimelockUpgrade
  <1>6. CASE Advance /\ UNCHANGED <<auditVars, upgradeVars, feeVars, bookVars, capVars, epochVars>>
    BY <1>6, TimelockKept
  <1>7. CASE UNCHANGED treasuryVars
    BY <1>7, TimelockKept DEF treasuryVars
  <1>8. QED
    BY <1>1, <1>2, <1>3, <1>4, <1>5, <1>6, <1>7 DEF TreasuryNext, View

\* The invariant the two theorems below rest on.
THEOREM TimelockInvariant == TreasurySpec => []TimelockInv
  BY TimelockInitInv, TimelockStep, PTL DEF TreasurySpec

\* A step that changes the cap executes the last announcement, on notice.
LEMMA CapStepAnnounced ==
  ASSUME TimelockInv, [TreasuryNext]_treasuryVars, cap_changes' # cap_changes
  PROVE  OnNotice(withdrawal_cap', cap_announced, cap_changed_at)
  <1>1. execute_withdrawal_cap
    <2>1. ~(FeeNext \/ WithdrawNext)  BY OthersKeepTimelocks DEF capVars
    <2>2. CapChangeNext  BY <2>1 DEF TreasuryNext, View, treasuryVars, capVars
    <2>3. \A new_cap \in CapChoices : ~propose_withdrawal_cap(new_cap)
      BY DEF propose_withdrawal_cap
    <2>4. QED  BY <2>2, <2>3 DEF CapChangeNext
  <1>2. QED
    BY <1>1, ElapsedOnNotice DEF execute_withdrawal_cap, TimelockInv

\* execute_withdrawal_cap changes the cap to the one proposed last, a whole
\* delay after that proposal and once, for every delay, every set of caps and
\* any number of proposals.
THEOREM TreasuryCapAnnounced == TreasurySpec => CapChangesAnnounced
  <1>1. ASSUME TimelockInv, [TreasuryNext]_treasuryVars
        PROVE  [cap_changes' # cap_changes =>
                  OnNotice(withdrawal_cap', cap_announced, cap_changed_at)]_capVars
    BY <1>1, CapStepAnnounced
  <1>2. QED
    BY <1>1, TimelockInvariant, PTL DEF TreasurySpec, CapChangesAnnounced

\* Only the upgrade calls change the code.
LEMMA TreasuryStepAnnounced ==
  ASSUME TimelockInv, [TreasuryNext]_treasuryVars
  PROVE  StepAnnounced
  <1>1. CASE UNCHANGED upgradeVars
    BY <1>1, UnchangedAnnounced
  <1>2. CASE TreasuryUpgradeNext
    BY <1>2, UpgradeStepAnnounced, TreasuryAssumption DEF TimelockInv, TreasuryUpgradeNext
  <1>3. CapChangeNext => UNCHANGED upgradeVars
    BY DEF CapChangeNext, propose_withdrawal_cap, execute_withdrawal_cap
  <1> QED
    BY <1>1, <1>2, <1>3, OthersKeepTimelocks DEF TreasuryNext, View, treasuryVars

\* execute_upgrade replaces the treasury's code by the one proposed last, a whole
\* delay after that proposal and once per proposal.
THEOREM TreasuryUpgradesAnnounced == TreasurySpec => UpgradesAnnounced
  <1>1. TimelockInv /\ [TreasuryNext]_treasuryVars => [StepAnnounced]_upgradeVars
    BY TreasuryStepAnnounced
  <1> QED
    BY <1>1, TimelockInvariant, PTL DEF TreasurySpec, UpgradesAnnounced, StepAnnounced

-----------------------------------------------------------------------------
(* The treasury's audit log, its storage and its withdrawal cap.            *)

\* Every entry point of the treasury records one entry or none.
LEMMA TreasuryAuditStep ==
  ASSUME AuditInv, [TreasuryNext]_treasuryVars
  PROVE  AuditInv'
  <1>1. now \in Nat
    BY DEF AuditInv
  <1>2. CASE append_audit_entry /\ UNCHANGED now
    BY <1>2, AuditAppend
  <1>3. CASE UNCHANGED auditVars /\ (UNCHANGED now \/ Advance)
    <2>1. now' \in Nat /\ now' >= now
      BY <1>1, <1>3 DEF Advance
    <2> QED  BY <1>3, <2>1, AuditKept
  <1>4. FeeNext => append_audit_entry
    BY DEF FeeNext, set_fee_bps, whitelist_token
  <1>5. WithdrawNext => append_audit_entry
    BY DEF WithdrawNext, withdraw, emergency_withdraw
  <1>6. CapChangeNext => append_audit_entry
    BY DEF CapChangeNext, propose_withdrawal_cap, execute_withdrawal_cap
  <1> QED
    BY <1>2, <1>3, <1>4, <1>5, <1>6 DEF TreasuryNext, TreasuryUpgradeNext, View, treasuryVars

\* The ring of the treasury, for every ring size and every number of actions.
THEOREM TreasuryAuditInvariant == TreasurySpec => []AuditInv
  <1>1. TreasuryInit => AuditInv
    BY AuditInitInv DEF TreasuryInit
  <1> QED  BY <1>1, TreasuryAuditStep, PTL DEF TreasurySpec

\* append_audit_entry and the slots get_audit_log computes fit together, before and
\* after the ring wraps.
THEOREM TreasuryRingHoldsNewest == TreasurySpec => []RingHoldsNewest
  BY TreasuryAuditInvariant, AuditRing, PTL

\* get_audit_log yields every stored entry on exactly one page, for every ring
\* size, every largest page and every page size asked for.
THEOREM TreasuryPagesCoverLog == TreasurySpec => []PagesCoverLog
  BY TreasuryAuditInvariant, AuditPages, PTL

Instants == 0..MaxTime

\* The storage of the treasury and the history of the withdrawals, in full.
TreasuryTyped ==
    /\ TreasuryTypeOK
    /\ now \in Instants
    /\ taken \in [Instants -> Nat]

\* A finite set of integers has a greatest element.
LEMMA GreatestExists ==
  ASSUME NEW S, IsFiniteSet(S), S \subseteq Int, S # {}
  PROVE  \E m \in S : \A y \in S : m >= y
  <1> DEFINE Good == {s \in SUBSET S : s # {} => \E m \in s : \A y \in s : m >= y}
  <1>1. {} \in Good
    OBVIOUS
  <1>2. ASSUME NEW s \in SUBSET S, NEW x \in s, s \ {x} \in Good PROVE s \in Good
    <2>1. CASE s \ {x} = {}
      <3>1. \A y \in s : x >= y
        BY <2>1
      <3> QED  BY <3>1
    <2>2. CASE s \ {x} # {}
      <3>1. PICK m \in s \ {x} : \A y \in s \ {x} : m >= y
        BY <1>2, <2>2
      <3>2. CASE m >= x
        <4>1. m \in s /\ \A y \in s : m >= y
          BY <3>1, <3>2
        <4> QED  BY <4>1
      <3>3. CASE ~(m >= x)
        <4>1. x \in Int /\ m \in Int /\ \A y \in s : y \in Int
          BY <3>1
        <4>2. \A y \in s : x >= y
          BY <3>1, <3>3, <4>1
        <4> QED  BY <4>2
      <3> QED  BY <3>2, <3>3
    <2> QED  BY <2>1, <2>2
  <1>3. \A s \in SUBSET S : s # {} /\ (\A x \in s : s \ {x} \in Good) => s \in Good
    BY <1>2
  <1>4. S \in Good
    <2> HIDE DEF Good
    <2>1. \A s \in SUBSET S : s \in Good
      BY <1>1, <1>3, FiniteClosure, Zenon
    <2> QED  BY <2>1
  <1> QED  BY <1>4

\* HighestCap bounds every cap that can be proposed.
LEMMA HighestCapBounds ==
  /\ HighestCap \in Nat
  /\ \A cap \in CapChoices : cap <= HighestCap
  <1> DEFINE S == CapChoices \cup {0}
  <1>1. IsFiniteSet(S) /\ S \subseteq Int /\ S # {}
    BY TreasuryAssumption, FS_AddElement
  <1>2. Max(S) \in S /\ \A y \in S : Max(S) >= y
    <2> HIDE DEF S
    <2> QED  BY <1>1, GreatestExists DEF Max
  <1> QED  BY <1>1, <1>2 DEF HighestCap

\* No cap in force or pending exceeds it.
CapsWithin ==
    /\ withdrawal_cap <= HighestCap
    /\ cap_proposal # NoProposal => cap_proposal.value <= HighestCap

\* The treasury starts empty and uncapped.
LEMMA TreasuryInitTyped == TreasuryInit => TreasuryTyped /\ CapsWithin
  <1> SUFFICES ASSUME TreasuryInit PROVE TreasuryTyped /\ CapsWithin
    OBVIOUS
  <1>1. now = 0 /\ now \in Instants
    BY ClockAssumption DEF TreasuryInit, AuditInit, Instants
  <1>2. TreasuryTypeOK
    BY <1>1 DEF TreasuryInit, TreasuryTypeOK, Uncapped
  <1> QED
    BY <1>1, <1>2, HighestCapBounds
    DEF TreasuryInit, TreasuryTyped, CapsWithin, Uncapped, Instants

\* Setting fees and booking them.
LEMMA FeesTyped ==
  ASSUME TreasuryTyped, CapsWithin, UNCHANGED now,
         FeeNext \/ (DepositNext /\ UNCHANGED <<feeVars, capVars, epochVars>>)
  PROVE  TreasuryTyped' /\ CapsWithin'
  <1>1. ASSUME NEW bps \in FeeBpsChoices, set_fee_bps(bps) PROVE TreasuryTyped' /\ CapsWithin'
    <2>1. bps \in 0..10000
      BY <1>1, TreasuryAssumption DEF set_fee_bps
    <2> QED
      BY <1>1, <2>1 DEF set_fee_bps, TreasuryTyped, TreasuryTypeOK, CapsWithin, bookVars, capVars,
                        epochVars
  <1>2. ASSUME NEW token \in FeeTokens, whitelist_token(token) PROVE TreasuryTyped' /\ CapsWithin'
    BY <1>2 DEF whitelist_token, TreasuryTyped, TreasuryTypeOK, CapsWithin, bookVars, capVars,
                epochVars
  <1>3. ASSUME NEW token \in FeeTokens, NEW amount \in Deposits,
               Transfer(token, amount) \/ UNCHANGED balance
        PROVE  balance' \in [FeeTokens -> Nat]
    BY <1>3, TreasuryAssumption DEF Transfer, TreasuryTyped, TreasuryTypeOK
  <1>4. ASSUME NEW token \in FeeTokens, NEW amount \in Deposits,
               collect_fee(token, amount) \/ UNCHANGED fees_collected
        PROVE  /\ DOMAIN fees_collected' \subseteq FeeTokens
               /\ \A t \in DOMAIN fees_collected' : fees_collected'[t] \in Int
    BY <1>4, TreasuryAssumption DEF collect_fee, CollectedSoFar, TreasuryTyped, TreasuryTypeOK
  <1>5. ASSUME DepositNext, UNCHANGED <<feeVars, capVars, epochVars>>
        PROVE  TreasuryTyped' /\ CapsWithin'
    <2>1. /\ balance' \in [FeeTokens -> Nat]
          /\ DOMAIN fees_collected' \subseteq FeeTokens
          /\ \A t \in DOMAIN fees_collected' : fees_collected'[t] \in Int
      BY <1>3, <1>4, <1>5 DEF DepositNext
    <2> QED
      BY <1>5, <2>1 DEF TreasuryTyped, TreasuryTypeOK, CapsWithin, feeVars, capVars, epochVars
  <1> QED  BY <1>1, <1>2, <1>5 DEF FeeNext

\* Proposing and executing a cap.
LEMMA CapChangeTyped ==
  ASSUME TreasuryTyped, CapsWithin, UNCHANGED now, CapChangeNext
  PROVE  TreasuryTyped' /\ CapsWithin'
  <1>1. now \in Nat /\ UNCHANGED <<feeVars, bookVars, epochVars>>
    BY DEF TreasuryTyped, Instants, CapChangeNext, propose_withdrawal_cap, execute_withdrawal_cap
  <1>2. ASSUME NEW new_cap \in CapChoices, propose_withdrawal_cap(new_cap)
        PROVE  TreasuryTyped' /\ CapsWithin'
    <2>1. new_cap \in Nat /\ new_cap <= HighestCap
      BY <1>2, TreasuryAssumption, HighestCapBounds DEF propose_withdrawal_cap
    <2>2. cap_proposal'.value = new_cap /\ cap_proposal'.at = now /\ UNCHANGED withdrawal_cap
      BY <1>2 DEF propose_withdrawal_cap, NewProposal
    <2> QED
      BY <1>1, <2>1, <2>2 DEF TreasuryTyped, TreasuryTypeOK, CapsWithin, feeVars, bookVars, epochVars
  <1>3. ASSUME execute_withdrawal_cap PROVE TreasuryTyped' /\ CapsWithin'
    <2>1. cap_proposal # NoProposal /\ withdrawal_cap' = cap_proposal.value
            /\ cap_proposal' = NoProposal
      BY <1>3 DEF execute_withdrawal_cap, Elapsed, Consumed
    <2> QED
      BY <1>1, <2>1 DEF TreasuryTyped, TreasuryTypeOK, CapsWithin, feeVars, bookVars, epochVars
  <1> QED  BY <1>2, <1>3 DEF CapChangeNext

\* What the limit compares: nothing is left of an epoch that is over.
LEMMA WithdrawnNat ==
  ASSUME TreasuryTyped
  PROVE  WithdrawnThisEpoch \in Nat /\ WithdrawnThisEpoch \in {0, epoch_withdrawn}
  BY DEF TreasuryTyped, TreasuryTypeOK, WithdrawnThisEpoch

\* A withdrawal does not overdraw the balance, and starts no epoch in the future.
LEMMA WithdrawTyped ==
  ASSUME TreasuryTyped, CapsWithin, UNCHANGED now, WithdrawNext
  PROVE  TreasuryTyped' /\ CapsWithin'
  <1>1. ASSUME NEW token \in FeeTokens, NEW amount \in Withdrawals, withdraw(token, amount)
        PROVE  TreasuryTyped' /\ CapsWithin'
    <2>1. amount \in Nat /\ now \in Instants /\ now \in Nat
      BY <1>1, TreasuryAssumption, ClockAssumption DEF withdraw, TreasuryTyped, Instants
    <2>2. /\ DOMAIN fees_collected' \subseteq FeeTokens
          /\ \A t \in DOMAIN fees_collected' : fees_collected'[t] \in Int
      BY <1>1, <2>1 DEF withdraw, TreasuryTyped, TreasuryTypeOK
    <2>3. balance' \in [FeeTokens -> Nat]
      BY <1>1, <2>1 DEF withdraw, TreasuryTyped, TreasuryTypeOK
    <2>4. epoch_start' \in 0..now
      BY <1>1, <2>1 DEF withdraw, enforce_rate_limit, TreasuryTyped, TreasuryTypeOK
    <2>5. epoch_withdrawn' \in Nat /\ taken' \in [Instants -> Nat]
      <3>1. CASE withdrawal_cap = Uncapped
        BY <1>1, <3>1 DEF withdraw, record_withdrawal, TreasuryTyped, TreasuryTypeOK
      <3>2. CASE withdrawal_cap # Uncapped
        <4>1. /\ epoch_withdrawn' = WithdrawnThisEpoch + amount
              /\ taken' = [taken EXCEPT ![now] = taken[now] + amount]
          BY <1>1, <3>2 DEF withdraw, record_withdrawal
        <4>2. taken \in [Instants -> Nat] /\ taken[now] \in Nat
          BY <2>1 DEF TreasuryTyped
        <4> QED  BY <2>1, <4>1, <4>2, WithdrawnNat
      <3> QED  BY <3>1, <3>2
    <2> QED
      BY <1>1, <2>2, <2>3, <2>4, <2>5
      DEF withdraw, TreasuryTyped, TreasuryTypeOK, CapsWithin, feeVars, capVars
  <1>2. ASSUME NEW token \in FeeTokens, emergency_withdraw(token)
        PROVE  TreasuryTyped' /\ CapsWithin'
    BY <1>2 DEF emergency_withdraw, TreasuryTyped, TreasuryTypeOK, CapsWithin, feeVars, capVars,
                epochVars
  <1> QED  BY <1>1, <1>2 DEF WithdrawNext

\* Steps that touch nothing but the clock, the code and the audit log.
LEMMA TreasuryClockTyped ==
  ASSUME TreasuryTyped, CapsWithin, UNCHANGED now \/ Advance,
         UNCHANGED <<feeVars, bookVars, capVars, epochVars>>
  PROVE  TreasuryTyped' /\ CapsWithin'
  <1>1. now \in Nat /\ now' \in Instants /\ now' \in Nat /\ now' >= now
    BY ClockAssumption DEF TreasuryTyped, Instants, Advance
  <1>2. UNCHANGED <<protocol_fee_bps, token_whitelisted, fees_collected, balance, withdrawal_cap,
                    cap_proposal, epoch_start, epoch_withdrawn, taken>>
    BY DEF feeVars, bookVars, capVars, epochVars
  <1> QED  BY <1>1, <1>2 DEF TreasuryTyped, TreasuryTypeOK, CapsWithin

\* Every step of the treasury keeps its storage well formed.
LEMMA TreasuryTypedStep ==
  ASSUME TreasuryTyped, CapsWithin, [TreasuryNext]_treasuryVars
  PROVE  TreasuryTyped' /\ CapsWithin'
  BY FeesTyped, CapChangeTyped, WithdrawTyped, TreasuryClockTyped
  DEF TreasuryNext, View, treasuryVars

\* Withdrawals from an instant on, in the epoch's length before it, and in one
\* window.
Since(a) == {t \in Instants : t >= a}
Before(a) == {t \in Instants : a - EPOCH_DURATION < t /\ t < a}
Window(start) == {t \in Instants : t \in start..(start + EPOCH_DURATION - 1)}

TakenOver(f, S) == SumFunctionOnSet(f, S)

\* A cap bounds what was taken since the epoch started, and in the epoch's length
\* before that; nothing is dated after the ledger or after the epoch.
EpochsWithin ==
    /\ epoch_withdrawn <= HighestCap
    /\ \A t \in Instants : t > now \/ t >= epoch_start + EPOCH_DURATION => taken[t] = 0
    /\ TakenOver(taken, Since(epoch_start)) <= epoch_withdrawn
    /\ TakenOver(taken, Before(epoch_start)) <= HighestCap
    /\ \A start \in Instants : TakenOver(taken, Window(start)) <= 2 * HighestCap

\* Sums over instants.
LEMMA TakenSums ==
  ASSUME NEW f \in [Instants -> Nat], NEW S \in SUBSET Instants
  PROVE  /\ IsFiniteSet(S)
         /\ \A t \in S : f[t] \in Int
         /\ TakenOver(f, S) \in Nat
         /\ \A R \in SUBSET S : TakenOver(f, R) <= TakenOver(f, S)
  <1>1. IsFiniteSet(Instants)
    <2>1. 0 \in Int /\ MaxTime \in Int
      BY ClockAssumption
    <2> QED  BY <2>1, FS_Interval DEF Instants
  <1>2. IsFiniteSet(S)
    BY <1>1, FS_Subset
  <1>3. \A t \in S : f[t] \in Nat
    OBVIOUS
  <1>4. TakenOver(f, S) \in Nat
    BY <1>2, <1>3, SumNat DEF TakenOver
  <1>5. \A R \in SUBSET S : TakenOver(f, R) <= TakenOver(f, S)
    BY <1>2, <1>3, SumPart DEF TakenOver
  <1> QED  BY <1>2, <1>3, <1>4, <1>5

\* A window that begins less than an epoch before an instant lies in the two parts
\* around it.
LEMMA WindowSplit ==
  ASSUME NEW f \in [Instants -> Nat], NEW a \in Int, NEW start \in Int, start > a - EPOCH_DURATION
  PROVE  TakenOver(f, Window(start)) <= TakenOver(f, Before(a)) + TakenOver(f, Since(a))
  <1> DEFINE P == Before(a)
             Q == Since(a)
             W == Window(start)
  <1>1. P \in SUBSET Instants /\ Q \in SUBSET Instants /\ P \cup Q \in SUBSET Instants
    BY DEF Before, Since
  <1>2. W \in SUBSET (P \cup Q)
    BY TreasuryAssumption, ClockAssumption DEF Window, Before, Since, Instants
  <1>3. P \cap Q = {}
    BY ClockAssumption DEF Before, Since, Instants
  <1> HIDE DEF P, Q, W
  <1>4. TakenOver(f, P \cup Q) = TakenOver(f, P) + TakenOver(f, Q)
    <2>1. IsFiniteSet(P) /\ IsFiniteSet(Q) /\ \A t \in P \cup Q : f[t] \in Int
      BY <1>1, TakenSums
    <2> QED  BY <1>3, <2>1, SumDisjoint DEF TakenOver
  <1>5. TakenOver(f, W) <= TakenOver(f, P \cup Q)
    BY <1>1, <1>2, TakenSums
  <1> QED  BY <1>4, <1>5 DEF P, Q, W

\* The history starts empty.
LEMMA EpochsInit == TreasuryInit => EpochsWithin
  <1> SUFFICES ASSUME TreasuryInit PROVE EpochsWithin
    OBVIOUS
  <1>1. TreasuryTyped /\ \A t \in Instants : taken[t] = 0
    BY TreasuryInitTyped DEF TreasuryInit, Instants
  <1>2. ASSUME NEW S \in SUBSET Instants PROVE TakenOver(taken, S) = 0
    <2>1. IsFiniteSet(S) /\ \A t \in S : taken[t] = 0
      BY <1>1, TakenSums DEF TreasuryTyped
    <2> QED  BY <2>1, SumZero DEF TakenOver
  <1>3. \A a \in Int : Since(a) \in SUBSET Instants /\ Before(a) \in SUBSET Instants
                         /\ Window(a) \in SUBSET Instants
    BY DEF Since, Before, Window
  <1>4. epoch_start \in Int /\ \A start \in Instants : start \in Int
    BY ClockAssumption DEF TreasuryInit, AuditInit, Instants
  <1>5. epoch_withdrawn = 0 /\ HighestCap \in Nat
    BY HighestCapBounds DEF TreasuryInit
  <1> QED  BY <1>1, <1>2, <1>3, <1>4, <1>5 DEF EpochsWithin

\* A step that takes nothing under a cap leaves the sums alone.
LEMMA EpochsKept ==
  ASSUME TreasuryTyped, EpochsWithin, UNCHANGED epochVars, now' \in Nat, now' >= now
  PROVE  EpochsWithin'
  <1>1. now \in Nat /\ \A t \in Instants : t \in Nat
    BY ClockAssumption DEF TreasuryTyped, Instants
  <1>2. UNCHANGED <<epoch_start, epoch_withdrawn, taken>>
    BY DEF epochVars
  <1>3. \A t \in Instants : t > now' \/ t >= epoch_start' + EPOCH_DURATION => taken'[t] = 0
    BY <1>1, <1>2 DEF EpochsWithin
  <1> QED  BY <1>2, <1>3 DEF EpochsWithin, TakenOver

\* A withdrawal under a cap, in the running epoch or as the first of a new one.
LEMMA EpochsWithdraw ==
  ASSUME TreasuryTyped, CapsWithin, EpochsWithin, TreasuryTyped', UNCHANGED now,
         NEW amount \in Nat, withdrawal_cap # Uncapped,
         enforce_rate_limit(amount), record_withdrawal(amount)
  PROVE  EpochsWithin'
  <1> DEFINE E == EPOCH_DURATION
  <1>1. /\ E \in Nat \ {0} /\ now \in Nat /\ now \in Instants
        /\ epoch_start \in 0..now /\ epoch_withdrawn \in Nat /\ HighestCap \in Nat
        /\ withdrawal_cap \in Nat /\ withdrawal_cap <= HighestCap
        /\ \A t \in Instants : t \in Nat
    BY TreasuryAssumption, ClockAssumption, HighestCapBounds
    DEF TreasuryTyped, TreasuryTypeOK, CapsWithin, Instants
  <1>2. /\ WithdrawnThisEpoch + amount <= withdrawal_cap
        /\ epoch_start' = IF now - epoch_start >= E THEN now ELSE epoch_start
        /\ epoch_withdrawn' = WithdrawnThisEpoch + amount
        /\ WithdrawnThisEpoch = IF now - epoch_start >= E THEN 0 ELSE epoch_withdrawn
    BY DEF enforce_rate_limit, record_withdrawal, NewEpoch, WithdrawnThisEpoch
  <1>3. /\ taken \in [Instants -> Nat] /\ taken' \in [Instants -> Nat]
        /\ taken'[now] = taken[now] + amount
        /\ \A t \in Instants \ {now} : taken'[t] = taken[t]
    BY <1>1 DEF record_withdrawal, TreasuryTyped
  <1> DEFINE e == epoch_start'
  <1>4. /\ e \in Nat /\ e <= now /\ e \in Int /\ epoch_start \in Int
        /\ epoch_withdrawn' \in Nat /\ epoch_withdrawn' <= HighestCap
    BY <1>1, <1>2
  <1>5. \A t \in Instants : t > now' \/ t >= epoch_start' + E => taken'[t] = 0
    <2> SUFFICES ASSUME NEW t \in Instants, t > now \/ t >= epoch_start' + E
                 PROVE  taken'[t] = 0
      OBVIOUS
    <2>1. t # now /\ taken[t] = 0
      BY <1>1, <1>2, <1>4 DEF EpochsWithin
    <2> QED  BY <1>3, <2>1
  <1>6. ASSUME NEW S \in SUBSET Instants, now \notin S PROVE TakenOver(taken', S) = TakenOver(taken, S)
    <2>1. IsFiniteSet(S) /\ \A t \in S : taken[t] \in Int /\ taken'[t] = taken[t]
      BY <1>3, <1>6, TakenSums
    <2>2. SumFunctionOnSet(taken', S) = SumFunctionOnSet(taken, S)
      BY <2>1, SumAgree
    <2> QED  BY <2>2 DEF TakenOver
  <1>7. ASSUME NEW S \in SUBSET Instants, now \in S PROVE TakenOver(taken', S) = TakenOver(taken, S) + amount
    <2>1. /\ IsFiniteSet(S) /\ \A t \in S : taken[t] \in Int /\ taken'[t] \in Int
          /\ \A t \in S \ {now} : taken'[t] = taken[t]
      BY <1>3, TakenSums
    <2>2. SumFunctionOnSet(taken', S) = SumFunctionOnSet(taken, S) - taken[now] + taken'[now]
      BY <1>7, <2>1, SumOneChanged
    <2>3. SumFunctionOnSet(taken, S) \in Int
      BY <1>3, TakenSums DEF TakenOver
    <2> QED  BY <1>1, <1>3, <2>2, <2>3 DEF TakenOver
  <1>8. \A a \in Int : Since(a) \in SUBSET Instants /\ Before(a) \in SUBSET Instants
                         /\ Window(a) \in SUBSET Instants
    BY DEF Since, Before, Window
  <1> HIDE DEF e
  <1>9. TakenOver(taken', Since(e)) <= epoch_withdrawn'
    <2>1. now \in Since(e)
      BY <1>1, <1>4 DEF Since
    <2>2. TakenOver(taken', Since(e)) = TakenOver(taken, Since(e)) + amount
      BY <1>4, <1>7, <1>8, <2>1
    <2>3. CASE now - epoch_start >= E
      <3> DEFINE S == Since(e)
      <3>1. S \in SUBSET Instants /\ \A t \in S : taken[t] = 0
        <4>1. e = now /\ now >= epoch_start + E
          BY <1>1, <1>2, <2>3 DEF e
        <4> QED  BY <1>1, <4>1 DEF Since, EpochsWithin
      <3>2. TakenOver(taken, S) = 0
        <4> HIDE DEF S
        <4>1. IsFiniteSet(S)
          BY <1>3, <3>1, TakenSums
        <4> QED  BY <3>1, <4>1, SumZero DEF TakenOver
      <3> QED  BY <1>1, <1>2, <2>2, <2>3, <3>2
    <2>4. CASE ~(now - epoch_start >= E)
      <3>1. e = epoch_start /\ epoch_withdrawn' = epoch_withdrawn + amount
        BY <1>2, <2>4 DEF e
      <3>2. TakenOver(taken, Since(epoch_start)) \in Nat
        BY <1>3, <1>4, <1>8, TakenSums
      <3> QED  BY <1>1, <2>2, <3>1, <3>2 DEF EpochsWithin
    <2> QED  BY <2>3, <2>4
  <1>10. TakenOver(taken', Before(e)) <= HighestCap
    <2>1. now \notin Before(e)
      <3>1. ~(now < e)
        BY <1>1, <1>4
      <3> QED  BY <3>1 DEF Before
    <2>2. TakenOver(taken', Before(e)) = TakenOver(taken, Before(e))
      BY <1>4, <1>6, <1>8, <2>1
    <2>3. CASE now - epoch_start >= E
      <3>1. Before(e) \in SUBSET Since(epoch_start)
        <4>1. e = now /\ now - E >= epoch_start
          BY <1>1, <1>2, <2>3 DEF e
        <4>2. ASSUME NEW t \in Instants, e - E < t PROVE t >= epoch_start
          BY <1>1, <1>4, <4>1, <4>2
        <4> QED  BY <4>2 DEF Before, Since
      <3>2. TakenOver(taken, Before(e)) <= TakenOver(taken, Since(epoch_start))
        BY <1>3, <1>4, <1>8, <3>1, TakenSums
      <3>3. TakenOver(taken, Before(e)) \in Nat /\ TakenOver(taken, Since(epoch_start)) \in Nat
        BY <1>3, <1>4, <1>8, TakenSums
      <3> QED  BY <1>1, <2>2, <3>2, <3>3 DEF EpochsWithin
    <2>4. CASE ~(now - epoch_start >= E)
      BY <1>2, <2>2, <2>4 DEF EpochsWithin, e
    <2> QED  BY <2>3, <2>4
  <1>11. ASSUME NEW start \in Instants PROVE TakenOver(taken', Window(start)) <= 2 * HighestCap
    <2>1. CASE now \notin Window(start)
      <3>1. TakenOver(taken', Window(start)) = TakenOver(taken, Window(start))
        BY <1>1, <1>6, <1>8, <2>1
      <3> QED  BY <3>1 DEF EpochsWithin
    <2>2. CASE now \in Window(start)
      <3>1. start > e - E /\ start \in Int /\ e \in Int
        <4>1. now <= start + E - 1 /\ start \in Nat
          BY <1>1, <2>2 DEF Window
        <4> QED  BY <1>1, <1>4, <4>1
      <3>2. TakenOver(taken', Window(start))
              <= TakenOver(taken', Before(e)) + TakenOver(taken', Since(e))
        BY <1>3, <3>1, WindowSplit
      <3>3. /\ TakenOver(taken', Before(e)) \in Nat /\ TakenOver(taken', Since(e)) \in Nat
            /\ TakenOver(taken', Window(start)) \in Nat
        BY <1>3, <1>8, <3>1, TakenSums
      <3> QED  BY <1>1, <1>4, <1>9, <1>10, <3>2, <3>3
    <2> QED  BY <2>1, <2>2
  <1> QED  BY <1>4, <1>5, <1>9, <1>10, <1>11 DEF EpochsWithin, e
\* Every step of the treasury keeps the sums within the caps.
LEMMA EpochsStep ==
  ASSUME TreasuryTyped, CapsWithin, EpochsWithin, TreasuryTyped', [TreasuryNext]_treasuryVars
  PROVE  EpochsWithin'
  <1>1. now \in Nat
    BY ClockAssumption DEF TreasuryTyped, Instants
  <1>2. CASE UNCHANGED epochVars /\ (UNCHANGED now \/ Advance)
    <2>1. now' \in Nat /\ now' >= now
      BY <1>1, <1>2 DEF Advance
    <2> QED  BY <1>2, <2>1, EpochsKept
  <1>3. ASSUME NEW token \in FeeTokens, NEW amount \in Withdrawals, withdraw(token, amount),
               UNCHANGED now
        PROVE  EpochsWithin'
    <2>1. amount \in Nat /\ enforce_rate_limit(amount) /\ record_withdrawal(amount)
      BY <1>3, TreasuryAssumption DEF withdraw
    <2>2. CASE withdrawal_cap = Uncapped
      <3>1. UNCHANGED epochVars
        BY <2>1, <2>2 DEF enforce_rate_limit, record_withdrawal, epochVars
      <3> QED  BY <1>1, <1>3, <3>1, EpochsKept
    <2>3. CASE withdrawal_cap # Uncapped
      BY <1>3, <2>1, <2>3, EpochsWithdraw
    <2> QED  BY <2>2, <2>3
  <1>4. FeeNext \/ CapChangeNext => UNCHANGED epochVars
    BY DEF FeeNext, CapChangeNext, set_fee_bps, whitelist_token, propose_withdrawal_cap,
           execute_withdrawal_cap
  <1>5. \A token \in FeeTokens : emergency_withdraw(token) => UNCHANGED epochVars
    BY DEF emergency_withdraw
  <1>6. CASE WithdrawNext /\ UNCHANGED now
    BY <1>2, <1>3, <1>5, <1>6 DEF WithdrawNext
  <1> QED
    BY <1>2, <1>4, <1>6 DEF TreasuryNext, View, treasuryVars

\* The invariant the next two theorems rest on.
THEOREM TreasuryInvariant == TreasurySpec => [](TreasuryTyped /\ CapsWithin /\ EpochsWithin)
  <1>1. TreasuryInit => TreasuryTyped /\ CapsWithin /\ EpochsWithin
    BY TreasuryInitTyped, EpochsInit
  <1>2. TreasuryTyped /\ CapsWithin /\ EpochsWithin /\ [TreasuryNext]_treasuryVars
          => (TreasuryTyped /\ CapsWithin /\ EpochsWithin)'
    BY TreasuryTypedStep, EpochsStep
  <1> QED  BY <1>1, <1>2, PTL DEF TreasurySpec

\* The treasury's storage stays well formed: withdraw overdraws no balance and no
\* epoch or proposal is dated in the future.
THEOREM TreasuryTypeCorrect == TreasurySpec => []TreasuryTypeOK
  <1>1. TreasuryTyped => TreasuryTypeOK
    BY DEF TreasuryTyped
  <1> QED  BY <1>1, TreasuryInvariant, PTL

\* enforce_rate_limit keeps the withdrawals of any window of an epoch's length
\* within twice the highest cap, for every epoch length, every set of caps and every
\* sequence of withdrawals, resets and changes of the cap.
THEOREM TreasuryWindowWithinTwoCaps == TreasurySpec => []WindowWithinTwoCaps
  <1>1. EpochsWithin => WindowWithinTwoCaps
    BY DEF EpochsWithin, WindowWithinTwoCaps, TakenIn, TakenOver, Window, Instants
  <1> QED  BY <1>1, TreasuryInvariant, PTL

-----------------------------------------------------------------------------
(* The risk registry.                                                       *)

ProfileRecord ==
    [exists: BOOLEAN, verifier: Verifiers \cup {NoVerifier}, risk_score: 0..100, total_invoices: Nat,
     defaults: Nat, compliance_attested: BOOLEAN, credit_limit: Int]

\* The storage of the registry and the histories, in full.
RegistryTyped ==
    /\ RegistryTypeOK
    /\ now \in Nat
    /\ slash_percentage \in Nat
    /\ slashed \in Nat
    /\ profile \in [Profiles -> ProfileRecord]
    /\ last_update \in [Verifiers -> [Debtors -> Nat \cup {Missing}]]
    /\ score_updates \in [Verifiers -> [Debtors -> Nat]]

\* Each update but the first waited a whole interval for the one before it, so
\* the last of n updates cannot be earlier than n - 1 intervals.
Cooled(v, d) ==
    IF last_update[v][d] = Missing THEN score_updates[v][d] = 0
    ELSE /\ last_update[v][d] <= now
         /\ score_updates[v][d] * MIN_SCORE_UPDATE_INTERVAL
              <= last_update[v][d] + MIN_SCORE_UPDATE_INTERVAL

DebtorsCooled == \A v \in Verifiers, d \in Debtors : Cooled(v, d)

RegistryInv == RegistryTyped /\ StakesBacked /\ DebtorsCooled

\* record_default slashes at most the stake that is left, unless the percentage
\* exceeds the whole.
LEMMA SlashWithinStake ==
  ASSUME RegistryTyped, NEW v \in Verifiers
  PROVE  /\ SlashOf(v) \in Nat
         /\ slash_percentage <= 10000 => SlashOf(v) <= stake[v]
  <1>1. stake[v] \in Int /\ (slash_percentage <= 10000 => stake[v] >= 0)
    BY DEF RegistryTyped, RegistryTypeOK
  <1>2. CASE stake[v] <= 0
    BY <1>1, <1>2 DEF SlashOf
  <1>3. CASE stake[v] > 0
    <2> DEFINE s == stake[v]
               p == slash_percentage
               x == s * p
    <2>1. s \in Nat /\ p \in Nat /\ SlashOf(v) = x \div 10000
      BY <1>1, <1>3 DEF RegistryTyped, SlashOf
    <2> HIDE DEF s, p
    <2>2. x \in Nat /\ (p <= 10000 => x <= s * 10000)
      BY <2>1
    <2> HIDE DEF x
    <2>3. SlashOf(v) \in Nat /\ (p <= 10000 => SlashOf(v) <= s)
      BY <2>1, <2>2
    <2> QED  BY <2>3 DEF s, p
  <1> QED  BY <1>1, <1>2, <1>3

\* A reputation that is taken down by ten stays within 0..100.
LEMMA ReputationStays ==
  ASSUME RegistryTyped, NEW v \in Verifiers
  PROVE  ReputationAfter(v) \in 0..100
  <1> DEFINE r == (IF reputation[v] = Missing THEN 100 ELSE reputation[v]) - 10
  <1>1. r \in -10..90
    BY DEF RegistryTyped, RegistryTypeOK, Missing
  <1>2. \E m \in {0, r} : \A y \in {0, r} : m >= y
    BY <1>1
  <1>3. ReputationAfter(v) = Max({0, r})
    BY DEF ReputationAfter
  <1> HIDE DEF r
  <1> QED  BY <1>1, <1>2, <1>3 DEF Max

\* The registry starts without verifiers, profiles and scores.
LEMMA RegistryInitInv == RegistryInit => RegistryInv
  <1> SUFFICES ASSUME RegistryInit PROVE RegistryInv
    OBVIOUS
  <1>1. now = 0 /\ now \in Nat
    BY DEF RegistryInit, AuditInit
  <1>2. NoProfile \in ProfileRecord /\ ~NoProfile.exists
    BY DEF NoProfile, ProfileRecord
  <1>3. profile \in [Profiles -> ProfileRecord] /\ \A s \in Profiles : ~profile[s].exists
    BY <1>2 DEF RegistryInit
  <1>4. RegistryTyped
    BY <1>1, <1>3, RegistryAssumption
    DEF RegistryInit, RegistryTyped, RegistryTypeOK, Missing
  <1>5. TotalReturnable = 0
    <2> DEFINE f == [v \in Verifiers |-> Returnable(stake[v])]
    <2>1. IsFiniteSet(Verifiers) /\ \A v \in Verifiers : f[v] = 0
      BY RegistryAssumption DEF RegistryInit, Returnable
    <2> HIDE DEF f
    <2>2. SumFunctionOnSet(f, Verifiers) = 0
      BY <2>1, SumZero
    <2> QED  BY <2>2 DEF TotalReturnable, f
  <1>6. StakesBacked
    BY <1>5 DEF StakesBacked, RegistryInit
  <1>7. DebtorsCooled
    BY DEF RegistryInit, DebtorsCooled, Cooled, Missing
  <1> QED  BY <1>4, <1>6, <1>7 DEF RegistryInv

\* A step changes the stake of one verifier: what is left to show is that the
\* balance follows.
LEMMA StakeOf ==
  ASSUME RegistryTyped, RegistryTyped', StakesBacked, NEW v \in Verifiers,
         \A u \in Verifiers \ {v} : stake'[u] = stake[u],
         held' - slashed'
           >= held - slashed - Returnable(stake[v]) + Returnable(stake'[v])
  PROVE  StakesBacked'
  <1> DEFINE f == [u \in Verifiers |-> Returnable(stake[u])]
             g == [u \in Verifiers |-> Returnable(stake'[u])]
  <1>1. held \in Nat /\ slashed \in Nat /\ held' \in Nat /\ slashed' \in Nat
    BY DEF RegistryTyped, RegistryTypeOK
  <1>2. /\ \A u \in Verifiers : f[u] \in Int /\ g[u] \in Int
        /\ \A u \in Verifiers \ {v} : g[u] = f[u]
    BY DEF RegistryTyped, RegistryTypeOK, Returnable
  <1>3. f[v] = Returnable(stake[v]) /\ g[v] = Returnable(stake'[v])
    OBVIOUS
  <1>4. TotalReturnable = SumFunctionOnSet(f, Verifiers)
    BY DEF TotalReturnable
  <1>5. TotalReturnable' = SumFunctionOnSet(g, Verifiers)
    BY DEF TotalReturnable
  <1> HIDE DEF f, g
  <1>6. IsFiniteSet(Verifiers)
    BY RegistryAssumption
  <1>7. SumFunctionOnSet(g, Verifiers) = SumFunctionOnSet(f, Verifiers) - f[v] + g[v]
    BY <1>2, <1>6, SumOneChanged
  <1>8. SumFunctionOnSet(f, Verifiers) \in Int
    BY <1>2, <1>6, SumType
  <1> QED  BY <1>1, <1>2, <1>3, <1>4, <1>5, <1>7, <1>8 DEF StakesBacked

\* The admin's calls leave the debtors alone.
LEMMA TransferAdminInv ==
  ASSUME RegistryInv, NEW caller, NEW new_admin \in RegistryAdmins,
         transfer_admin(caller, new_admin), UNCHANGED <<now, debtorVars>>
  PROVE  RegistryInv'
  BY DEF RegistryInv, RegistryTyped, RegistryTypeOK, StakesBacked, TotalReturnable, DebtorsCooled,
         Cooled, transfer_admin, verifierVars, debtorVars

\* The new stake comes in and replaces the one on record.
LEMMA AddVerifierInv ==
  ASSUME RegistryInv, NEW caller, NEW v \in Verifiers, NEW amount \in Stakes,
         add_verifier(caller, v, amount), UNCHANGED <<now, debtorVars>>
  PROVE  RegistryInv'
  <1>1. amount \in Nat /\ held \in Nat /\ slashed \in Nat /\ stake[v] \in Int
    BY RegistryAssumption DEF RegistryInv, RegistryTyped, RegistryTypeOK
  <1>2. RegistryTyped'
    BY <1>1 DEF RegistryInv, RegistryTyped, RegistryTypeOK, add_verifier, debtorVars
  <1>3. StakesBacked'
    <2>1. /\ \A u \in Verifiers \ {v} : stake'[u] = stake[u]
          /\ stake'[v] = amount /\ held' = held + amount /\ slashed' = slashed
      BY DEF RegistryInv, add_verifier, RegistryTyped, RegistryTypeOK
    <2>2. held' - slashed'
            >= held - slashed - Returnable(stake[v]) + Returnable(stake'[v])
      BY <1>1, <2>1 DEF Returnable
    <2> QED  BY <1>2, <2>1, <2>2, StakeOf DEF RegistryInv
  <1>4. DebtorsCooled'
    BY DEF RegistryInv, DebtorsCooled, Cooled, debtorVars
  <1> QED  BY <1>2, <1>3, <1>4 DEF RegistryInv

\* What is left of the stake is paid back.
LEMMA RemoveVerifierInv ==
  ASSUME RegistryInv, NEW caller, NEW v \in Verifiers,
         remove_verifier(caller, v), UNCHANGED <<now, debtorVars>>
  PROVE  RegistryInv'
  <1>1. held \in Nat /\ slashed \in Nat /\ stake[v] \in Int
    BY DEF RegistryInv, RegistryTyped, RegistryTypeOK
  <1>2. RegistryTyped'
    BY <1>1 DEF RegistryInv, RegistryTyped, RegistryTypeOK, remove_verifier, DropStake, Returnable,
                debtorVars
  <1>3. StakesBacked'
    <2>1. /\ \A u \in Verifiers \ {v} : stake'[u] = stake[u]
          /\ stake'[v] = 0 /\ held' = held - Returnable(stake[v]) /\ slashed' = slashed
      BY DEF RegistryInv, remove_verifier, DropStake, RegistryTyped, RegistryTypeOK
    <2>2. held' - slashed'
            >= held - slashed - Returnable(stake[v]) + Returnable(stake'[v])
      BY <1>1, <2>1 DEF Returnable
    <2> QED  BY <1>2, <2>1, <2>2, StakeOf DEF RegistryInv
  <1>4. DebtorsCooled'
    BY DEF RegistryInv, DebtorsCooled, Cooled, debtorVars
  <1> QED  BY <1>2, <1>3, <1>4 DEF RegistryInv

\* Slashing lowers the stake on record and leaves the tokens where they are.
LEMMA RecordDefaultInv ==
  ASSUME RegistryInv, NEW caller, NEW sme \in Profiles,
         record_default(caller, sme), UNCHANGED <<now, debtorVars>>
  PROVE  RegistryInv'
  <1> DEFINE v == profile[sme].verifier
  <1>1. v \in Verifiers /\ held \in Nat /\ slashed \in Nat /\ stake[v] \in Int
    BY DEF RegistryInv, RegistryTyped, RegistryTypeOK, record_default
  <1>2. /\ SlashOf(v) \in Nat /\ (slash_percentage <= 10000 => SlashOf(v) <= stake[v])
        /\ ReputationAfter(v) \in 0..100
    BY <1>1, SlashWithinStake, ReputationStays DEF RegistryInv
  <1>3. /\ stake' = [stake EXCEPT ![v] = stake[v] - SlashOf(v)]
        /\ slashed' = slashed + Returnable(stake[v]) - Returnable(stake[v] - SlashOf(v))
        /\ held' = held /\ slash_percentage' = slash_percentage
        /\ reputation' = [reputation EXCEPT ![v] = ReputationAfter(v)]
        /\ UNCHANGED <<registry_admin, is_verifier>>
    BY DEF record_default, RegistryInv, RegistryTyped, RegistryTypeOK
  <1>4. /\ profile' \in [Profiles -> ProfileRecord]
        /\ \A s \in Profiles : profile'[s].exists => profile'[s].verifier \in Verifiers
    <2> DEFINE p == [profile[sme] EXCEPT !.defaults = @ + 1]
    <2>1. profile[sme] \in ProfileRecord /\ profile[sme].defaults + 1 \in Nat
      BY DEF RegistryInv, RegistryTyped, ProfileRecord
    <2>2. p \in ProfileRecord /\ p.verifier = v
      BY <2>1 DEF ProfileRecord
    <2>3. profile' = [profile EXCEPT ![sme] = p]
      BY DEF record_default, RegistryInv, RegistryTyped
    <2> HIDE DEF p, v
    <2> QED  BY <1>1, <2>2, <2>3 DEF RegistryInv, RegistryTyped, RegistryTypeOK
  <1> HIDE DEF v
  <1>5. RegistryTyped'
    <2>1. /\ stake' \in [Verifiers -> Int] /\ slashed' \in Nat /\ held' \in Nat
          /\ slash_percentage' \in Nat
          /\ slash_percentage' <= 10000 => \A u \in Verifiers : stake'[u] >= 0
      BY <1>1, <1>2, <1>3 DEF RegistryInv, RegistryTyped, RegistryTypeOK, Returnable
    <2>2. reputation' \in [Verifiers -> 0..100 \cup {Missing}]
      <3>1. reputation \in [Verifiers -> 0..100 \cup {Missing}]
        BY DEF RegistryInv, RegistryTyped, RegistryTypeOK
      <3>2. ReputationAfter(v) \in 0..100 \cup {Missing}
        BY <1>2
      <3> QED  BY <1>3, <3>1, <3>2
    <2>3. \A s \in Profiles : profile'[s].risk_score \in 0..100
      BY <1>4 DEF ProfileRecord
    <2> QED  BY <1>3, <1>4, <2>1, <2>2, <2>3 DEF RegistryInv, RegistryTyped, RegistryTypeOK, debtorVars
  <1>6. StakesBacked'
    <2>1. /\ \A u \in Verifiers \ {v} : stake'[u] = stake[u]
          /\ stake'[v] = stake[v] - SlashOf(v)
      BY <1>1, <1>3 DEF RegistryInv, RegistryTyped, RegistryTypeOK
    <2>2. held' - slashed'
            >= held - slashed - Returnable(stake[v]) + Returnable(stake'[v])
      BY <1>1, <1>2, <1>3, <2>1 DEF Returnable
    <2> QED  BY <1>1, <1>5, <2>1, <2>2, StakeOf DEF RegistryInv
  <1>7. DebtorsCooled'
    BY DEF RegistryInv, DebtorsCooled, Cooled, debtorVars
  <1> QED  BY <1>5, <1>6, <1>7 DEF RegistryInv

\* Registering and scoring writes one well-formed profile.
LEMMA ProfileInv ==
  ASSUME RegistryInv, ProfileNext,
         UNCHANGED <<now, registry_admin, verifierVars, debtorVars>>
  PROVE  RegistryInv'
  <1>1. PICK sme \in Profiles :
          \/ \E v \in Verifiers, score \in RiskScores :
                \/ \E attested \in BOOLEAN : register_sme(v, sme, score, attested)
                \/ update_sme_score(v, sme, score)
          \/ \E v \in Verifiers, limit \in Limits : set_credit_limit(v, sme, limit)
          \/ \E caller \in Verifiers \cup {InvoiceNftAddr} : increment_invoice_count(caller, sme)
    BY DEF ProfileNext
  <1>2. PICK p \in ProfileRecord : /\ profile' = [profile EXCEPT ![sme] = p]
                                   /\ p.exists => p.verifier \in Verifiers
    <2>1. profile \in [Profiles -> ProfileRecord] /\ profile[sme] \in ProfileRecord
      BY DEF RegistryInv, RegistryTyped
    <2>2. profile[sme].exists => profile[sme].verifier \in Verifiers
      BY DEF RegistryInv, RegistryTyped, RegistryTypeOK
    <2>3. ASSUME NEW v \in Verifiers, NEW score \in RiskScores, NEW attested \in BOOLEAN,
                 register_sme(v, sme, score, attested)
          PROVE  \E p \in ProfileRecord : /\ profile' = [profile EXCEPT ![sme] = p]
                                          /\ p.exists => p.verifier \in Verifiers
      <3> DEFINE p == [exists |-> TRUE, verifier |-> v, risk_score |-> score, total_invoices |-> 0,
                       defaults |-> 0, compliance_attested |-> attested, credit_limit |-> 0]
      <3>1. score \in 0..100
        BY <2>3, RegistryAssumption DEF register_sme
      <3>2. p \in ProfileRecord /\ p.verifier = v
        BY <3>1 DEF ProfileRecord
      <3>3. profile' = [profile EXCEPT ![sme] = p]
        BY <2>3 DEF register_sme
      <3> QED  BY <3>2, <3>3
    <2>4. ASSUME NEW v \in Verifiers, NEW score \in RiskScores, update_sme_score(v, sme, score)
          PROVE  \E p \in ProfileRecord : /\ profile' = [profile EXCEPT ![sme] = p]
                                          /\ p.exists => p.verifier \in Verifiers
      <3> DEFINE p == [profile[sme] EXCEPT !.risk_score = score]
      <3>1. score \in 0..100
        BY <2>4, RegistryAssumption DEF update_sme_score
      <3>2. p \in ProfileRecord /\ (p.exists => p.verifier \in Verifiers)
        BY <2>1, <2>2, <3>1 DEF ProfileRecord
      <3>3. profile' = [profile EXCEPT ![sme] = p]
        BY <2>4, <2>1 DEF update_sme_score
      <3> QED  BY <3>2, <3>3
    <2>5. ASSUME NEW v \in Verifiers, NEW limit \in Limits, set_credit_limit(v, sme, limit)
          PROVE  \E p \in ProfileRecord : /\ profile' = [profile EXCEPT ![sme] = p]
                                          /\ p.exists => p.verifier \in Verifiers
      <3> DEFINE p == [profile[sme] EXCEPT !.credit_limit = limit]
      <3>1. limit \in Int
        BY RegistryAssumption
      <3>2. p \in ProfileRecord /\ (p.exists => p.verifier \in Verifiers)
        BY <2>1, <2>2, <3>1 DEF ProfileRecord
      <3>3. profile' = [profile EXCEPT ![sme] = p]
        BY <2>5, <2>1 DEF set_credit_limit
      <3> QED  BY <3>2, <3>3
    <2>6. ASSUME NEW caller, increment_invoice_count(caller, sme)
          PROVE  \E p \in ProfileRecord : /\ profile' = [profile EXCEPT ![sme] = p]
                                          /\ p.exists => p.verifier \in Verifiers
      <3> DEFINE p == [profile[sme] EXCEPT !.total_invoices = @ + 1]
      <3>0. profile[sme].total_invoices + 1 \in Nat
        BY <2>1 DEF ProfileRecord
      <3>1. p \in ProfileRecord /\ (p.exists => p.verifier \in Verifiers)
        BY <2>1, <2>2, <3>0 DEF ProfileRecord
      <3>2. profile' = [profile EXCEPT ![sme] = p]
        BY <2>6, <2>1 DEF increment_invoice_count
      <3> QED  BY <3>1, <3>2
    <2> QED  BY <1>1, <2>3, <2>4, <2>5, <2>6
  <1>3. profile' \in [Profiles -> ProfileRecord]
    BY <1>2 DEF RegistryInv, RegistryTyped
  <1>4. ASSUME NEW s \in Profiles, profile'[s].exists
        PROVE  profile'[s].verifier \in Verifiers /\ profile'[s].risk_score \in 0..100
    <2>1. CASE s = sme
      BY <1>2, <1>4, <2>1 DEF RegistryInv, RegistryTyped, ProfileRecord
    <2>2. CASE s # sme
      BY <1>2, <1>4, <2>2 DEF RegistryInv, RegistryTyped, RegistryTypeOK
    <2> QED  BY <2>1, <2>2
  <1>5. RegistryTyped'
    BY <1>3, <1>4 DEF RegistryInv, RegistryTyped, RegistryTypeOK, verifierVars, debtorVars
  <1>6. StakesBacked' /\ DebtorsCooled'
    BY DEF RegistryInv, StakesBacked, TotalReturnable, DebtorsCooled, Cooled, verifierVars, debtorVars
  <1> QED  BY <1>5, <1>6 DEF RegistryInv

\* An update of a score counts once and is dated now, a whole interval after the
\* one before it.
LEMMA DebtorInv ==
  ASSUME RegistryInv, NEW v \in Verifiers, NEW d \in Debtors, NEW score \in RiskScores,
         set_debtor_score(v, d, score), UNCHANGED <<now, registry_admin, verifierVars, profile>>
  PROVE  RegistryInv'
  <1> DEFINE I == MIN_SCORE_UPDATE_INTERVAL
             n == score_updates[v][d]
             t == last_update[v][d]
  <1>1. I \in Nat /\ n \in Nat /\ t \in Nat \cup {Missing} /\ now \in Nat
    BY RegistryAssumption DEF RegistryInv, RegistryTyped
  <1>2. /\ last_update' = [last_update EXCEPT ![v][d] = now]
        /\ score_updates' = [score_updates EXCEPT ![v][d] = n + 1]
        /\ t = Missing \/ now >= t + I
    BY DEF set_debtor_score, CooledDown, RegistryInv, RegistryTyped
  <1>3. RegistryTyped'
    BY <1>1, <1>2 DEF RegistryInv, RegistryTyped, RegistryTypeOK, verifierVars
  <1>4. StakesBacked'
    BY DEF RegistryInv, StakesBacked, TotalReturnable, verifierVars
  <1>5. (n + 1) * I <= now + I
    <2>1. CASE t = Missing
      <3>1. n = 0
        BY <2>1 DEF RegistryInv, DebtorsCooled, Cooled
      <3> QED  BY <1>1, <3>1
    <2>2. CASE t # Missing
      <3>1. n * I <= t + I /\ t \in Nat
        BY <1>1, <2>2 DEF RegistryInv, DebtorsCooled, Cooled
      <3>2. (n + 1) * I = n * I + I
        BY <1>1
      <3>3. n * I \in Nat
        BY <1>1
      <3> DEFINE nI == n * I
      <3> HIDE DEF nI, n, t, I
      <3> QED  BY <1>1, <1>2, <2>2, <3>1, <3>2, <3>3 DEF nI
    <2> QED  BY <2>1, <2>2
  <1>6. ASSUME NEW u \in Verifiers, NEW e \in Debtors PROVE Cooled(u, e)'
    <2>1. CASE u = v /\ e = d
      <3>1. last_update'[u][e] = now /\ score_updates'[u][e] = n + 1 /\ now # Missing
        BY <1>1, <1>2, <2>1 DEF RegistryInv, RegistryTyped, Missing
      <3> HIDE DEF n
      <3> QED  BY <1>1, <1>5, <3>1 DEF Cooled
    <2>2. CASE ~(u = v /\ e = d)
      <3>1. last_update'[u][e] = last_update[u][e] /\ score_updates'[u][e] = score_updates[u][e]
        BY <1>2, <2>2 DEF RegistryInv, RegistryTyped
      <3> QED  BY <3>1 DEF Cooled, RegistryInv, DebtorsCooled
    <2> QED  BY <2>1, <2>2
  <1> QED  BY <1>3, <1>4, <1>6 DEF RegistryInv, DebtorsCooled

\* The clock only moves on.
LEMMA RegistryClockInv ==
  ASSUME RegistryInv, now' \in Nat, now' >= now,
         UNCHANGED <<registry_admin, verifierVars, profile, debtorVars>>
  PROVE  RegistryInv'
  <1>1. RegistryTyped' /\ StakesBacked'
    BY DEF RegistryInv, RegistryTyped, RegistryTypeOK, StakesBacked, TotalReturnable, verifierVars,
           debtorVars
  <1>2. ASSUME NEW v \in Verifiers, NEW d \in Debtors PROVE Cooled(v, d)'
    <2>1. Cooled(v, d) /\ now \in Nat /\ last_update[v][d] \in Int
      BY DEF RegistryInv, DebtorsCooled, RegistryTyped, Missing
    <2>2. UNCHANGED <<last_update, score_updates>>
      BY DEF debtorVars
    <2> QED  BY <2>1, <2>2 DEF Cooled
  <1> QED  BY <1>1, <1>2 DEF RegistryInv, DebtorsCooled

\* Every step of the registry keeps the invariant.
LEMMA RegistryStep ==
  ASSUME RegistryInv, [RegistryNext]_registryVars
  PROVE  RegistryInv'
  <1>1. now \in Nat
    BY DEF RegistryInv, RegistryTyped
  <1>2. CASE RegistryAdminNext /\ UNCHANGED <<now, upgradeVars, debtorVars>>
    BY <1>2, TransferAdminInv, AddVerifierInv, RemoveVerifierInv, RecordDefaultInv
    DEF RegistryAdminNext
  <1>3. CASE ProfileNext /\ UNCHANGED <<now, auditVars, upgradeVars, registry_admin,
                                        verifierVars, debtorVars>>
    BY <1>3, ProfileInv
  <1>4. CASE DebtorNext /\ UNCHANGED <<now, auditVars, upgradeVars, registry_admin,
                                       verifierVars, profile>>
    BY <1>4, DebtorInv DEF DebtorNext
  <1>5. CASE RegistryUpgradeNext /\ UNCHANGED <<now, registry_admin, verifierVars, profile,
                                                debtorVars>>
    BY <1>1, <1>5, RegistryClockInv
  <1>6. CASE Advance /\ UNCHANGED <<auditVars, upgradeVars, registry_admin, verifierVars,
                                    profile, debtorVars>>
    BY <1>1, <1>6, RegistryClockInv DEF Advance
  <1>7. CASE UNCHANGED registryVars
    BY <1>1, <1>7, RegistryClockInv DEF registryVars
  <1> QED
    BY <1>2, <1>3, <1>4, <1>5, <1>6, <1>7 DEF RegistryNext, View

\* The invariant the next four theorems rest on.
THEOREM RegistryInvariant == RegistrySpec => []RegistryInv
  BY RegistryInitInv, RegistryStep, PTL DEF RegistrySpec

\* The registry's storage stays well formed: a reputation that record_default
\* lowers stays within 0..100, and no stake is slashed below zero by a percentage
\* of at most the whole.
THEOREM RegistryTypeCorrect == RegistrySpec => []RegistryTypeOK
  <1>1. RegistryInv => RegistryTypeOK
    BY DEF RegistryInv, RegistryTyped
  <1> QED  BY <1>1, RegistryInvariant, PTL

\* remove_verifier can always return what is left of a stake: for any number of
\* verifiers, added and slashed in any order and by any percentage, the contract
\* holds all of it.
THEOREM RegistryStakesBacked == RegistrySpec => []StakesBacked
  <1>1. RegistryInv => StakesBacked
    BY DEF RegistryInv
  <1> QED  BY <1>1, RegistryInvariant, PTL

\* set_debtor_score lets a verifier rate a debtor at most once per interval, for
\* every interval, whatever happens to the verifier in between.
THEOREM RegistryScoresCooledDown == RegistrySpec => []ScoresCooledDown
  <1>1. ASSUME RegistryInv, NEW v \in Verifiers, NEW d \in Debtors
        PROVE  score_updates[v][d] * MIN_SCORE_UPDATE_INTERVAL
                 <= now + MIN_SCORE_UPDATE_INTERVAL
    <2> DEFINE x == score_updates[v][d] * MIN_SCORE_UPDATE_INTERVAL
    <2>1. /\ now \in Nat /\ MIN_SCORE_UPDATE_INTERVAL \in Nat
          /\ score_updates[v][d] \in Nat /\ last_update[v][d] \in Int
      BY <1>1, RegistryAssumption DEF RegistryInv, RegistryTyped, Missing
    <2>2. Cooled(v, d)
      BY <1>1 DEF RegistryInv, DebtorsCooled
    <2>3. CASE last_update[v][d] = Missing
      BY <2>1, <2>2, <2>3 DEF Cooled
    <2>4. CASE last_update[v][d] # Missing
      <3>1. last_update[v][d] <= now /\ x <= last_update[v][d] + MIN_SCORE_UPDATE_INTERVAL
        BY <2>2, <2>4 DEF Cooled
      <3>2. x \in Int
        BY <2>1
      <3> HIDE DEF x
      <3>3. x <= now + MIN_SCORE_UPDATE_INTERVAL
        BY <2>1, <3>1, <3>2
      <3> QED  BY <3>3 DEF x
    <2> QED  BY <2>3, <2>4
  <1>2. RegistryInv => ScoresCooledDown
    BY <1>1 DEF ScoresCooledDown
  <1> QED  BY <1>2, RegistryInvariant, PTL

\* What CountsNeverReset says of one step.
CountsGrow ==
    \A s \in Profiles :
        /\ profile'[s].defaults >= profile[s].defaults
        /\ profile'[s].total_invoices >= profile[s].total_invoices

\* A profile that does not exist has counted nothing, so registering it resets
\* nothing.
NothingCounted ==
    \A s \in Profiles : ~profile[s].exists => profile[s].defaults = 0 /\ profile[s].total_invoices = 0

\* Each entry point that writes a profile raises a count, keeps both, or writes a
\* profile that had none.
LEMMA CountStep ==
  ASSUME RegistryInv, NothingCounted, [RegistryNext]_registryVars
  PROVE  CountsGrow /\ NothingCounted'
  <1>1. /\ profile \in [Profiles -> ProfileRecord]
        /\ \A s \in Profiles : profile[s].defaults \in Nat /\ profile[s].total_invoices \in Nat
    BY DEF RegistryInv, RegistryTyped, ProfileRecord
  <1>2. CASE UNCHANGED profile
    BY <1>1, <1>2 DEF CountsGrow, NothingCounted
  <1>3. ASSUME NEW caller, NEW sme \in Profiles, record_default(caller, sme)
        PROVE  CountsGrow /\ NothingCounted'
    BY <1>1, <1>3 DEF CountsGrow, NothingCounted, record_default
  <1>4. ASSUME NEW sme \in Profiles, NEW v, NEW score, NEW attested,
               register_sme(v, sme, score, attested)
        PROVE  CountsGrow /\ NothingCounted'
    BY <1>1, <1>4 DEF CountsGrow, NothingCounted, register_sme, Registrable
  <1>5. ASSUME NEW sme \in Profiles, NEW v, NEW score, update_sme_score(v, sme, score)
        PROVE  CountsGrow /\ NothingCounted'
    BY <1>1, <1>5 DEF CountsGrow, NothingCounted, update_sme_score
  <1>6. ASSUME NEW sme \in Profiles, NEW v, NEW limit, set_credit_limit(v, sme, limit)
        PROVE  CountsGrow /\ NothingCounted'
    BY <1>1, <1>6 DEF CountsGrow, NothingCounted, set_credit_limit
  <1>7. ASSUME NEW sme \in Profiles, NEW caller, increment_invoice_count(caller, sme)
        PROVE  CountsGrow /\ NothingCounted'
    BY <1>1, <1>7 DEF CountsGrow, NothingCounted, increment_invoice_count
  <1>8. CASE RegistryAdminNext
    BY <1>2, <1>3, <1>8 DEF RegistryAdminNext, transfer_admin, add_verifier, remove_verifier
  <1>9. CASE ProfileNext
    BY <1>4, <1>5, <1>6, <1>7, <1>9 DEF ProfileNext
  <1> QED
    BY <1>2, <1>8, <1>9 DEF RegistryNext, View, registryVars

\* No entry point forgets an SME's defaults or invoices; register_sme in
\* particular never replaces a profile.
THEOREM RegistryCountsKept == RegistrySpec => CountsNeverReset
  <1>1. RegistryInit => NothingCounted
    BY DEF RegistryInit, NothingCounted, NoProfile
  <1>2. RegistryInv /\ NothingCounted /\ [RegistryNext]_registryVars => NothingCounted'
    BY CountStep
  <1>3. RegistrySpec => []NothingCounted
    BY <1>1, <1>2, RegistryInvariant, PTL DEF RegistrySpec
  <1>4. RegistryInv /\ NothingCounted /\ [RegistryNext]_registryVars => [CountsGrow]_profile
    BY CountStep
  <1> QED
    BY <1>3, <1>4, RegistryInvariant, PTL DEF RegistrySpec, CountsNeverReset, CountsGrow

\* The registry's upgrades follow the timelock.
LEMMA RegistryUpgradeStep ==
  ASSUME UpgradeInv, [RegistryNext]_registryVars
  PROVE  UpgradeInv' /\ StepAnnounced
  <1>1. now \in Nat
    BY DEF UpgradeInv
  <1>2. CASE UNCHANGED upgradeVars /\ (UNCHANGED now \/ Advance)
    <2>1. now' \in Nat /\ now' >= now
      BY <1>1, <1>2 DEF Advance
    <2> QED  BY <1>2, <2>1, UpgradeKept, UnchangedAnnounced
  <1>3. CASE RegistryUpgradeNext /\ UNCHANGED now
    <2>1. "risk_registry" \in Upgradable /\ Upgrade("risk_registry")
      BY <1>3, RegistryAssumption DEF RegistryUpgradeNext
    <2> QED  BY <1>3, <2>1, UpgradeStepInv, UpgradeStepAnnounced
  <1> QED
    BY <1>2, <1>3 DEF RegistryNext, View, registryVars

\* execute_upgrade replaces the registry's code by the one proposed last, a whole
\* delay after that proposal and once per proposal.
THEOREM RegistryUpgradesAnnounced == RegistrySpec => UpgradesAnnounced
  <1>1. RegistryInit => UpgradeInv
    BY UpgradeInitInv DEF RegistryInit, AuditInit
  <1>2. UpgradeInv /\ [RegistryNext]_registryVars => UpgradeInv' /\ [StepAnnounced]_upgradeVars
    BY RegistryUpgradeStep
  <1> QED
    BY <1>1, <1>2, PTL DEF RegistrySpec, UpgradesAnnounced, StepAnnounced

\* Every entry point of the registry records one entry or none.
LEMMA RegistryAuditStep ==
  ASSUME AuditInv, [RegistryNext]_registryVars
  PROVE  AuditInv'
  <1>1. now \in Nat
    BY DEF AuditInv
  <1>2. CASE append_audit_entry /\ UNCHANGED now
    BY <1>2, AuditAppend
  <1>3. CASE UNCHANGED auditVars /\ (UNCHANGED now \/ Advance)
    <2>1. now' \in Nat /\ now' >= now
      BY <1>1, <1>3 DEF Advance
    <2> QED  BY <1>3, <2>1, AuditKept
  <1>4. RegistryAdminNext => append_audit_entry
    BY DEF RegistryAdminNext, transfer_admin, add_verifier, remove_verifier, record_default
  <1> QED
    BY <1>2, <1>3, <1>4 DEF RegistryNext, RegistryUpgradeNext, View, registryVars

\* The registry's audit log is read back as it was written, page after page.
THEOREM RegistryAuditCorrect == RegistrySpec => [](RingHoldsNewest /\ PagesCoverLog)
  <1>1. RegistryInit => AuditInv
    BY AuditInitInv DEF RegistryInit
  <1>2. RegistrySpec => []AuditInv
    BY <1>1, RegistryAuditStep, PTL DEF RegistrySpec
  <1> QED  BY <1>2, AuditRing, AuditPages, PTL
=============================================================================

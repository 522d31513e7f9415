# Kora invoice finance: TLA+ models, checks and proofs

Kora is a set of Soroban (Stellar) contracts in which an SME mints an invoice as an
NFT, sells it at a discount on a marketplace, and repays the investors through a
financing pool. This directory models the contracts under `src/contracts/`, checks
them with TLC on small instances and proves the central properties with TLAPS for
every value of the parameters.

Every entry point is one action. A Soroban transaction is atomic: an entry point that
returns an error, or whose cross-contract call does, leaves no trace. An action
therefore holds the whole entry point *with* the calls it makes into the other
contracts, and its guard is the conjunction of all their checks. Concurrency is the
order of transactions and the passing of ledger time between them.

## 1. The system

| Component | State | Operations | Interacts with |
|---|---|---|---|
| `invoice_nft` | `Invoice(id)`, `NextId`, `OutstandingExposure(sme)`, `InvoiceFrozen(id)`, `MigrationVersion`, currency allowlist, pending upgrade | mint, amend, withdraw, commit hash; `set_listed`, `set_funded`, `set_repaid`, `set_defaulted`; freeze; migrate; allowlist; timelocked upgrade | called by marketplace and pool; reads the pause (access control) and the credit limit (risk registry) |
| `marketplace` | `Listing(id)`, `Contribution(id, investor)`, `RefundClaimed`, cancellation flags, fees, token whitelist, pending upgrade | list, fund, cancel (one or two steps), claim refund, configuration, timelocked upgrade | calls `set_listed`, `release_funds`, `collect_fee`; moves investors' tokens to pool and treasury |
| `financing_pool` | `Pool(id)`, `Positions(id)`, `SaleOffer`, `EarlySettlement(id)`, `AggregateFunded(token)`, one token balance for everybody, pending upgrade | `release_funds`, `record_position`, `repay`, `mark_default`, early settlement, secondary market, timelocked upgrade | calls `set_funded`, `set_repaid`, `set_defaulted`, `record_default`; reads the oracle |
| `treasury` | collected fees, withdrawal cap and epoch, pending cap and upgrade, audit log | collect, withdraw, drain, timelocked cap and upgrade | called by the marketplace |
| `access_control` | admin, roles, pause flag, multisig, proposals, parameters, audit log | direct admin calls; propose, approve, execute; parameter votes; timelocked upgrade | its pause flag is read by the three core contracts |
| `risk_registry` | verifiers with stake and reputation, SME profiles, debtor scores, audit log | stake, slash, register, score, count, cooldown | called by invoice NFT and pool |
| `price_oracle` | prices per currency | set, get (with a staleness bound), convert | called by `repay` |
| `shared` | types, validation, arithmetic, audit entry, reentrancy guard | pure operations | used by all |

What is hard here, and what therefore the properties are about:

* *Two contracts that must agree.* An invoice's status lives in the NFT contract, its
  money in the pool, its sale in the marketplace. The admin may default an invoice on
  the NFT contract behind the pool's back; `release_funds` may be called before the
  marketplace has collected the asking price.
* *One balance for many claims.* Contributions awaiting a refund, settlement escrows
  and repayments of all invoices share the pool's balance per token.
* *Paying out once.* Repayment, default and early settlement each distribute to the
  positions and can be interleaved with partial payments and position sales.
* *Deadlines and timelocks.* Funding against refund at the deadline, late penalty,
  epoch reset of the withdrawal cap, proposals executed early, late or twice.
* *Stale values.* Shares counted when an investor accepts and traded afterwards;
  approvals given under a signer list that has since been replaced.
* *Prices.* A repayment in another currency is credited at the oracle's price of that
  moment, which changes and goes stale between two partial repayments.
* *Two schemas at once.* After an upgrade of the NFT contract's code the records of the
  old code are unreadable until `migrate` has rewritten them, and users may call in
  between.
* *Rounding.* Basis-point shares and fees, tokens of more or fewer decimals than seven.
* *Wrapping.* The audit ring and its paged reader.

## 2. Modules

| Module | Models | Notes |
|---|---|---|
| `KoraShared` | `shared/src/{types,validation}.rs` | the ledger's timestamp (one clock for every contract), status and tier types, `bps_of`, decimal normalisation |
| `PriceOracle` | `price_oracle` | `set_price`, staleness, `convert` |
| `KoraEnvironment` | what the core contracts read of the others | clock, pause flag, credit limits, prices; all change at any time |
| `InvoiceNft` | `invoice_nft` | extends `KoraEnvironment` |
| `FinancingPool` | `financing_pool` | extends `InvoiceNft`: each action contains the NFT call |
| `Marketplace` | `marketplace` | extends `FinancingPool`: `fund_invoice` contains `release_funds` and `collect_fee` |
| `KoraProtocol` | the three together | `Spec`, `FairSpec` and the properties across contracts |
| `InvoiceLifecycle` | abstract specification | stage, face value and payouts of an invoice |
| `AuditLog` | the audit ring of three contracts | |
| `Timelock` | the upgrade timelock of six contracts | one copy of the state per contract |
| `Treasury`, `AccessControl`, `RiskRegistry` | the three contracts | each extends `AuditLog` and `Timelock` |
| `CoreMaintenance` | `migrate`, the currency allowlist, the upgrades of the three core contracts | extends `InvoiceNft` and `Timelock`: the NFT contract's entry points on records of two schemas |
| `MCFinancingPool`, `MCKoraProtocol`, `MCAccessControl`, `MCCoreMaintenance` | | definitions the `.cfg` files use |
| `InvoiceNftProofs`, `FinancingPoolProofs`, `KoraProofs`, `TimelockProofs`, `CustodyProofs`, `AccessControlProofs`, `CoreMaintenanceProofs` | | theorems, see section 4 |
| `SumProofs` | | lemmas about sums over finite sets, used by the proofs about money |

Variables keep the names of the storage keys (`invoices[id]` is `Invoice(id)`), actions
the names of the entry points. `PROJECT.json` maps every definition to its lines.
Definitions whose name begins with `Mut` are deliberate errors: putting one in the
place of its original must break the property named beside it in `PROJECT.json`, which
shows that the property depends on that piece of code.

Abstractions and assumptions:

* Wiring (`initialize`, `set_authorized_callers`, `set_risk_registry`) has happened and
  one address is admin of the core contracts; callers that a contract would refuse are
  present where the refusal is the point (`NftNext`, `AdminNext`, thresholds, fees and
  amounts out of range).
* Documents, hashes and addresses are members of small sets; the length checks on them
  are left out. An audit entry keeps its sequence number and timestamp, not its text.
* `ReentrancyGuard` and `RepaymentLock` are set and removed within a transaction and
  rolled back with a failed one, so no transaction ever meets them set.
* Three things that every call accepts let an invoice pay out more than it brought in: a
  position recorded against another total than the first, or beyond it
  (`record_position` checks each position alone against the total the call names); a
  repayment or payout in another token than the pool's; and a repayment at a price above
  par (`repay` credits another currency in converted units and pays out the same number in
  units of the token it received). The actions take all three, as the code does. The
  history variable `irregular` notes which of them happened to an invoice, and the
  properties about money say what holds then: an invoice without irregularity never takes
  what is not its own, and the claims of everybody else lose no more than `Overdrawn`, the
  sum of what irregular invoices took beyond their own. See section 6.
* The risk registry's answer to `mark_default`'s `record_default` is a free choice
  (`recorded`): the call is a best effort and its result is ignored.
* `CoreMaintenance` starts with the code of schema 1, which the repository no longer
  holds. It is taken to have today's entry points without the metadata hash. Code is
  identified with the schema it reads and writes, and only the new code is proposed.
* A read of a record in the other schema panics and so undoes its transaction
  (`docs/MIGRATIONS.md:117`): the entry point is not enabled.
* `claim_refund` moves tokens out of the pool's address, and the token asks for that
  address's authorization. No entry point of the pool gives it, so on a ledger
  `PoolAuthorizes` is `FALSE` and the call is never enabled: run `refund_blocked`. The other
  runs set it to `TRUE`, as the repository's tests do by mocking every authorization, to
  see whether the refund path is right otherwise; the theorems hold for both.
* The slash percentage is chosen when the registry is initialized, and not checked by
  `initialize`: `SlashPercentages` may exceed 10_000. A stake on record is then slashed
  below zero, see section 6.
* `FromV1` copies the eleven fields the model keeps of an invoice. The id, the debtor's
  hash, the numeric score (kept as its tier) and the notes are data no entry point reads.
* `list_invoice` takes any compliant seller (attested by the risk registry at some time
  before), and `release_funds` any caller that signs
  for itself, because the code compares neither with anything.
* The pause flag in `KoraEnvironment` changes at any time: whether the admin or an
  executed multisig action changed it makes no difference to the contracts that read it.
* Apart from the change of schema, an upgrade is assumed to keep the behaviour modelled.
* History variables (`net`, `distributions`, `whole`, `irregular`, `announced`, `upgrades`,
  `upgraded_at`, `cap_announced`, `cap_changes`, `cap_changed_at`, `taken`, `score_updates`,
  `slashed`, and `voted_at`, `quorum`, `executions` of a ballot) record what happened; no guard reads them.

## 3. Runs

All passing runs also check deadlock. In the treasury, access-control and registry
modules read-only calls are steps of their own (`View`), so that reaching the bound on
audited actions is not mistaken for a deadlock.

| Run | Instance | Shows |
|---|---|---|
| `pool_two` | 2 invoices in EUR, 2 tokens, 1 investor, prices 0.8 and 1.2, stale after 1, repayments in either token, a settlement offer, constraint `Calm` | `PaysOnlyWhatCameIn`, `EscrowBacked`, `DefaultsReportedOnce`: the shared balances |
| `kora` | 1 listing, 2 investors, a token of 9 decimals, penalty 10 %, two repayments, a settlement offer, position sales, pause and freezing, fees out of range to refuse; fair | `TypeOK`, `ListingsAgreeWithInvoices`, `RefundExcludesFunding`, `ConfirmedIsClosed`, `PoolsAgreeWithInvoices`, `PaidOutOnce`, `SharesWithinWhole`, `LifecycleSpec`, `FeeAtRate`, and the liveness property `EscrowEventuallyReleased` |
| `kora_two` | 2 listings in one token of 6 decimals, a tier fee set between contributions, constraint `Calm` | `FundingAccounted`, `RefundsBacked` across listings, `FeeAtRate` |
| `maintenance` | 2 invoices, 2 valid scores of different tiers, a score of 101 and a negative face value to refuse, delay 1, 4 instants: minted before, during and after the upgrade; constraint `Calm` | `NftTypeOK`, `Timeline`, `TermsFixedOnceListed`, `ReadableOutsideWindow`, `MigrationKeepsInvoices`, `UpgradesAnnounced` for the three core contracts |
| `treasury` | epoch and timelock of 2, 5 instants, two codes and two caps to propose, an amount above `MAX_AMOUNT` to refuse, ring of 3 with pages of 1 and 2, 6 audited actions | `TreasuryTypeOK`, `WindowWithinTwoCaps`, `RingHoldsNewest`, `PagesCoverLog`, `CapChangesAnnounced`, `UpgradesAnnounced` |
| `access` | 3 addresses, 2 overlapping signer lists with every threshold, one action and one parameter proposal, all kinds of action | `AccessTypeOK`, `ExecutedByQuorum`, `ExecutedOnce`, `ParametersVoted`, `RoleFollowsAdmin` |
| `registry` | 2 admins, 2 verifiers, 1 SME, 1 debtor, stakes below and above the minimum, slash percentages of 5_000, 10_000 and 15_000 | `RegistryTypeOK`, `StakesBacked`, `ScoresCooledDown`, `CountsNeverReset` |
| `pool_pause`, `pool_consent`, `access_delay`, `migrate_blocked`, `refund_blocked` | | violated: see section 6 |

Bounds. `MaxInvoices`, `MaxTime`, `MaxAggregate`, `MaxAudited`,
`MaxBalance`, `MaxProposals`, `MaxCount` and `MaxHeld` cap what would grow for ever.
Time 2 with a due date and a deadline at 1 gives every comparison its three cases
(before, at, after). Two invoices are enough for one to spend what belongs to the other;
two investors for a position to be sold, overwritten and counted twice (three in
`pool_consent`). The ring wraps twice. Amounts are the smallest at which shares, penalty
and fee round: TLC computes with 32-bit integers, the code with checked 128-bit ones, so
overflow of `i128` (an error that rolls the transaction back) is not explored. `Calm`
(one per MC module) leaves the pause, freezing, hashes and sale offers out of the runs
with two invoices; `kora` has them. In `pool_two` it also opens the pools in the order of
their ids and offers the first invoice only for settlement. In `kora_two` it lists the invoices
in the order of their ids and cancels the first only, so that the second stands for the
bystander whose money is at stake, and sets the tier fee only after a first
contribution. In `maintenance` it leaves out pause and freezing, uses the allowlist before
the first mint only, and the timelock of one contract at a time: the three
read nothing of each other. A due date of 2 with the upgrade possible from 1 on lets an
invoice be minted on either side of it.
`pool_two` permutes its two tokens (`TokenSymmetry`): they have the same decimals, no
constant names one, and the run checks invariants only.

What the bounds leave to the theorems: shares that round (in `kora` an investor holds the
whole or nothing) and a reputation that reaches zero (eleven defaults).

Fairness (`Fairness` in `KoraProtocol`, used by `kora` and `refund_blocked`): ledgers keep closing (weak
fairness of `Tick`); an investor whose claim is admissible submits it (weak fairness of
`claim_refund`, per investor and invoice); an SME takes its escrow back when it may
(weak fairness of `cancel_early_settlement`). The two calls are their owners' to make
and neither the pause nor the admin can disable them. `refund_blocked` is violated with this
fairness: the investor keeps calling, time passes, and the call is refused each time.
No fairness is assumed of the admin, of funding, repayment or acceptance. The clock
stops at `MaxTime`, after every deadline.

## 4. Proofs

Checked by TLAPS for every value of the constants allowed by the named `ASSUME`s: types
of the parameters, a penalty within 0..10_000, `None` not a token, and finite sets where
something is added up over them (investors, verifiers, withdrawal caps). That is, for any
number of invoices, SMEs, investors and tokens, any decimals, prices, amounts and dates,
any slash percentage, any ring size, any signer lists and thresholds. No theorem has a
hypothesis beyond the specification. Every property that a passing run checks, except the
liveness property, is also stated by a theorem.

* `InvoiceNftProofs` — `NftTypeCorrect`, `NftTimeline`, `NftTermsFixed` for `NftSpec`, in
  which any address calls the transitions. The invariant is `NftInv == NftTypeOK /\
  Timeline`: the order of the timestamps needs that ids at or past `NextId` have no
  record, or minting could overwrite one.

* `FinancingPoolProofs`, the control — `PoolTypeCorrect`, `PoolAgreement`,
  `PoolPaidOutOnce`. That a pool pays out once is not inductive: nothing in the pool's
  own record stops a second distribution after a default, because the pool stays open. It
  is the invoice's status that stops it. `PoolInv` therefore joins, per invoice,
  `PoolAgrees` (the pool exists exactly for Funded, Repaid and Defaulted invoices, is
  closed for Repaid ones and never for Funded ones, owes the face value and at most one penalty) with the
  payout count, and `NftInv`. `PoolDefaultsReportedOnce` counts the reports against
  the defaulted invoices of an SME. `PoolImplementsLifecycle`: every action of pool and NFT
  contract is a step of `InvoiceLifecycle` or leaves its variables alone; `PoolInv`
  supplies the abstract guards, e.g. that a distribution comes with a final status.

* `FinancingPoolProofs`, the money — `PoolSharesWithinWhole` from `SharesInv`: as long as
  no irregular position was recorded, each share is at most its contribution over
  `whole[id]` rounded down, and the contributions add up to at most `whole[id]`.
  `PoolLedgerExact` says, for any tokens and prices, that the pool's balance of a token is
  what the invoices brought in and not yet got back plus what is escrowed (`LedgerInv`):
  no action creates or loses a token. `PoolPaysOnlyWhatCameIn` needs in addition
  `Covered(id)`: an unpaid pool whose invoice is not irregular holds at least its
  `repaid_amount` in its own token. With `LedgerInv` this gives `PoolEscrowBacked`: the
  balance is the sum over the invoices plus the escrows, regular invoices contribute
  nothing negative, and what the irregular ones contribute below zero is `Overdrawn`.

* `KoraProofs`, the control — `KoraInv` adds, per listing, `ListingAgrees`,
  `ClaimedIsClosed` and `ConfirmedClosed`. Steps of the other two contracts are handled
  once, through `ListingSafe`: they neither list nor unlist an invoice, nor change a
  listed amount, nor turn the clock back. Then `KoraListingsAgree`,
  `KoraRefundExcludesFunding`, `KoraConfirmedIsClosed`, `KoraPaidOutOnce` and
  `KoraImplementsLifecycle` follow.

* `KoraProofs`, the money — `BooksInv` is inductive next to `KoraInv`. Per token it says
  that what was funded is fees plus contributions and, as `Held(t)`, that the pool's
  balance is what its invoices hold, escrows and the contributions not refunded. `Untouched`
  (nobody has contributed to an invoice that is not listed) lets a new listing start at
  zero. From it `KoraTypeCorrect`, `KoraFundingAccounted`, `KoraLedgerExact`,
  `KoraPaysOnlyWhatCameIn` and `KoraRefundsBacked` follow: with every regular invoice
  covered, what `Held` leaves is, but for `Overdrawn`, at least the contributions that can
  be claimed back. `KoraFeeAtRate` is about one contribution: the fee is the rate's part
  of the amount at the moment, and what scaling to seven decimals and back rounds away is
  bounded from both sides.

* `KoraProofs`, what carries over and what liveness rests on — a call of the marketplace
  lists an invoice, opens its pool or leaves the other two contracts alone
  (`MarketplaceCalls`), so `KoraSharesWithinWhole`, `KoraDefaultsReportedOnce` and
  `KoraTermsFixed` hold of the composed `Spec` as well.
  `KoraRefundStays`: a refund that is due stays due, and in the pool, until it was
  claimed; it says nothing of the authorization the claim needs (`refund_blocked`).
  `KoraEscrowReturnable`: a pending offer can be cancelled and its escrow is
  there. Both but for `Overdrawn`. The second is the safety half of
  `EscrowEventuallyReleased`: what is left to that is the fairness of the SME's call.

* `SumProofs` — what the above needs of sums over finite sets: changing one summand,
  comparing two sums, splitting a set. The library's induction theorems are of no use
  here, so the induction is over sets: a family of subsets that contains the empty set and
  is closed under adding an element contains every finite set (`FiniteClosure`, by a
  smallest counterexample), and likewise for the naturals (`NaturalClosure`), with which
  the recursive function `PowerOfTen` is unfolded.

* `TimelockProofs` — the lemmas about the timelock for a set of contracts. `UpgradeInv`
  says a pending proposal is the last announcement, value and time, and was made no
  earlier than the last change: a new proposal starts the delay again, and executing
  consumes the proposal. What follows for one step is `OnNotice`.

* `CustodyProofs` — treasury, risk registry and the audit log they share.
  `TreasuryCapAnnounced` and `TreasuryUpgradesAnnounced` from the timelock lemmas and the same
  argument for the withdrawal cap. `TreasuryRingHoldsNewest` and `TreasuryPagesCoverLog`
  for every ring and page size: `AuditInv` walks back from the head, slot after slot, and
  finds the sequence numbers going down by one. `TreasuryWindowWithinTwoCaps`:
  `EpochsWithin` bounds what was taken since the epoch started by the epoch's counter and
  what was taken in the epoch's length before it by the highest cap; a window of that
  length meets no more than those two. `RegistryStakesBacked` for any slash
  percentage, about what `remove_verifier` would return, `RegistryScoresCooledDown`
  (`DebtorsCooled`: the updates so far fit in the time up to the last one),
  `RegistryCountsKept` (a missing profile has counted nothing, so registering it resets
  nothing), and the type, timelock and audit theorems of both contracts.

* `AccessControlProofs` — `AccessExecutedByQuorum`, `AccessExecutedOnce`,
  `AccessParametersVoted`, `AccessRoleFollowsAdmin`, `AccessUpgradesAnnounced` and the types.
  The threshold is compared with the length of the list of approvals, so `GoodBallot`
  says that nobody is on it twice. `ParametersVoted` needs that the next id has no
  proposal, or a proposal could overwrite the one that a parameter came from.

* `CoreMaintenanceProofs` — `MaintenanceReadable`, `MigrationKeeps`,
  `MaintenanceTimeline`, `CoreUpgradesAnnounced`, for any number of invoices. `SchemaInv`
  adds to `NftInv` that a schema is noted exactly where a record is, so that the ids the
  loop of `migrate` does not visit have none; that the old code wrote neither the new
  schema nor a hash, so that rewriting loses nothing; and that the old code never runs
  after `MigrationVersion` is 2.

Only model-checked: `EscrowEventuallyReleased`, because liveness under fairness is outside
the prover's reach, and the five properties that are violated.
The proofs, like the model, use unbounded integers: a computation that overflows `i128`
is an error in the code and rolls its transaction back, which they do not cover.

## 5. Not modelled

* The wiring calls of `invoice_nft` (`set_authorized_callers`, `set_risk_registry`) after
  the start, and the consolidation of old configuration keys in the marketplace's
  `load_config`, which only moves values.
* `RiskRegistry` and `AccessControl` in the place of `KoraEnvironment`. The core contracts
  read two values of them at the time of a call, and the environment already changes
  both at any time; the composition would only take behaviours away. What a composition
  could show about credit limits does not hold: see `get_outstanding_exposure` below.
* Errors, events, TTL extension of storage, the reentrancy guard (see section 2),
  authorization trees other than that of `claim_refund`, and the token contracts beyond their balances.
* The integration tests, deployment scripts and front-end material.

## 6. Where documents and code differ

Five disagreements each have a run whose property states the documented behaviour and
is violated by the code's:

| Run | Says | Does |
|---|---|---|
| `pool_pause` | `docs/SECURITY.md:18`, `docs/access-control.md:250`: repayment is exempt from the pause | the repayment that closes a pool calls `set_repaid`, which checks the pause |
| `pool_consent` | `financing_pool/src/lib.rs:471`: settles once investors of 100 % of the shares accepted | a share accepted by its holder counts again when its buyer accepts |
| `access_delay` | `access_control/src/lib.rs:13`: delay from reaching quorum | the delay runs from the creation of the proposal |
| `migrate_blocked` | `invoice_nft/src/lib.rs:199`: records minted after the upgrade are skipped; `test_migrate_preserves_existing_invoices` (`:1581`) expects `migrate` to succeed after a mint | every record is read as `InvoiceV1`, which panics on a record of the current schema: one mint between upgrade and `migrate` blocks it while that invoice exists, and the old invoices stay unreadable. `docs/MIGRATIONS.md:116` asks the operator to avoid this; nothing enforces it, and a fresh deployment starts at version 1 (`:140`), so it is in that window from its first mint |
| `refund_blocked` | `docs/SECURITY.md:70`: investors must be able to claim refunds on expired listings; `docs/ARCHITECTURE.md:218` has the pool authorize the transfer | the marketplace debits the pool's address (`marketplace/src/lib.rs:630`) in a call chain the pool is not part of, and no entry point of the pool authorizes it: `claim_refund` is always refused. The tests mock every authorization |

Others were met while modelling. The actions follow the code, no run is spent on them:

* `get_outstanding_exposure` (`invoice_nft/src/lib.rs:621`) is said to be the outstanding
  face value; minting never raises it, so the credit limit compares the new amount only.
* `commit_metadata_hash` (`:558`) is said to bind the referenced document;
  `amend_invoice` changes the document and keeps the hash.
* `is_closed` is "true once fully repaid or defaulted" (`docs/financing-pool.md:45`);
  `mark_default` leaves the pool open. `PoolsAgreeWithInvoices` takes no side: it asks for
  a closed pool once Repaid, and allows either for Defaulted.
* `record_position` bounds each position by the total the call names, and nothing
  compares it with the other positions or with the total of an earlier call: the shares
  of a pool can exceed the whole, and its payout what the invoice brought in.
* An early settlement should return the principal (`financing_pool/src/lib.rs:474`); the
  bound reads `total_funded`, which stays 0. Three thirds add up to 9_999, so an offer
  all three accept stays pending (`:533`).
* `get_aggregate_funded` (`:856`) is said to cover open pools; closed pools still take
  records, and payouts are deducted in the token of the payment.
* `repay`'s token "must match pool's token" (`docs/IMPROVEMENTS.md:257`); nothing
  compares them.
* `Funded` means the asking price was collected (`shared/src/types.rs:13`); only the
  NFT status is checked by `release_funds`.
* `cancel_listing` is for unfunded listings (`marketplace/src/lib.rs:415`); it does not
  look at the funding.
* `withdraw` is "subject to the rolling 24 h withdrawal cap" (`treasury/src/lib.rs:150`);
  the counter starts afresh with each epoch, so two caps fit around a boundary.
  `WindowWithinTwoCaps` shows that no more do.
* `emergency_withdraw` is under the cap (`treasury/src/lib.rs:201`); it does not consult
  it.
* A price is "`base` units per 1 unit of `quote`" (`price_oracle/src/lib.rs:35`);
  `convert` multiplies an amount of the base currency by it, which is right for units of
  quote per unit of base. `repay` converts the payment and then distributes the converted
  number in the payment's own token: above par it pays out more than came in, of the
  balance it holds for others. Without a fresh price a foreign invoice cannot be repaid.
* `is_currency_allowed` (`invoice_nft/src/lib.rs:731`) reports an allowlist that minting
  does not consult: `require_allowed_currency` (`:771`) has no caller.
* The marketplace's pause check is said to be skipped because `initialize` does not write
  the address (`marketplace/src/lib.rs:765`); it does, and the check is made.
* Exactly one admin (`docs/access-control.md:238`); a transfer by the multisig leaves
  the old admin's role. Once a multisig exists, actions must go through it
  (`access_control/src/lib.rs:238`); direct calls remain.
  A list that names one signer twice passes the check of the threshold (`:250`), which
  can then never be met.
* `remove_verifier` returns the stake (`risk_registry/src/lib.rs:141`); a verifier added
  twice gets back the second stake only. `initialize` (`:56`) takes any slash percentage:
  above 10_000 the first default turns the verifier's stake on record negative (`:345`),
  and `remove_verifier` then returns nothing.

## 7. Plan

Done: the core (NFT, pool, marketplace, oracle, composition, abstract lifecycle), the
three administrative contracts, upgrade and migration, and a theorem for every checked
property other than liveness, for the composed protocol where it is about the core.
Next, in this order:

1. That an invoice with a pool has an SME of its own (not `None`) as part of `NftInv`, so
   that `KoraEscrowReturnable` names a caller that exists.
2. A bound on `Overdrawn` in terms of the highest price and the recorded shares: how much
   an irregular invoice can cost the others.
3. `UpgradesAnnounced` for the composed core, by adding `Timelock` to `KoraProtocol`.

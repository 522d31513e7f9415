----------------------------- MODULE KoraShared -----------------------------
(***************************************************************************)
(* What every Kora contract shares: the arithmetic and the enumerations of *)
(* contracts/shared, and the timestamp of the ledger a call is included    *)
(* in.  Amounts are i128 in the code and every product is a checked one:   *)
(* an overflow is an error, and an error rolls the whole transaction back. *)
(* Here amounts are mathematical integers.                                 *)
(***************************************************************************)
EXTENDS Integers

CONSTANT MaxTime  \* bound: the last ledger timestamp

ASSUME ClockAssumption == MaxTime \in Nat

VARIABLE now      \* env.ledger().timestamp()

\* A timestamp that a record may hold; NoTime where the code has None.
NoTime == -1
Timestamp == Nat \cup {NoTime}

\* Ledgers close one after the other: the timestamp never goes back.
Advance == now < MaxTime /\ now' = now + 1

BPS_DENOMINATOR == 10000
STANDARD_DECIMALS == 7

\* The lifecycle of an invoice.  "Absent" stands for an id with no record in
\* storage: never minted, or withdrawn by its SME.
InvoiceStatus ==
    {"Absent", "Created", "Listed", "Funded", "Repaid", "Defaulted"}

RiskTier == {"AAA", "AA", "A", "B", "C"}

from_score(score) ==
    CASE score \in 0..20  -> "AAA"
      [] score \in 21..40 -> "AA"
      [] score \in 41..60 -> "A"
      [] score \in 61..80 -> "B"
      [] OTHER            -> "C"

MutBpsOfRoundsUp(amount, bps) ==
    (amount * bps + BPS_DENOMINATOR - 1) \div BPS_DENOMINATOR

\* amount * bps / 10_000, rounded towards zero; amount is never negative.
bps_of(amount, bps) == (amount * bps) \div BPS_DENOMINATOR

PowerOfTen[k \in Nat] == IF k = 0 THEN 1 ELSE 10 * PowerOfTen[k - 1]

\* Scaling a token amount to seven decimals and back.  A token with more than
\* seven decimals loses its low digits on the way in.
normalize_amount(amount, decimals) ==
    IF decimals <= STANDARD_DECIMALS
    THEN amount * PowerOfTen[STANDARD_DECIMALS - decimals]
    ELSE amount \div PowerOfTen[decimals - STANDARD_DECIMALS]

MutDenormalizeRoundsUp(amount, decimals) ==
    IF decimals <= STANDARD_DECIMALS
    THEN (amount + PowerOfTen[STANDARD_DECIMALS - decimals] - 1)
           \div PowerOfTen[STANDARD_DECIMALS - decimals]
    ELSE amount * PowerOfTen[decimals - STANDARD_DECIMALS]

denormalize_amount(amount, decimals) ==
    IF decimals <= STANDARD_DECIMALS
    THEN amount \div PowerOfTen[STANDARD_DECIMALS - decimals]
    ELSE amount * PowerOfTen[decimals - STANDARD_DECIMALS]

bps_of_normalized(amount, bps, decimals) ==
    denormalize_amount(bps_of(normalize_amount(amount, decimals), bps), decimals)
=============================================================================

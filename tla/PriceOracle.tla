---------------------------- MODULE PriceOracle ----------------------------
(***************************************************************************)
(* The price oracle: the admin submits the price of a currency pair, and a *)
(* price older than MAX_STALENESS_SECS is refused.  The pool asks for one  *)
(* kind of pair only, from an invoice's currency to USDC, so a price is    *)
(* kept here under the currency it converts from.                          *)
(***************************************************************************)
EXTENDS KoraShared

CONSTANTS
    Currencies,         \* currency symbols
    Prices,             \* prices the admin may submit, scaled by 10^7
    MAX_STALENESS_SECS  \* 3_600 seconds in the code

ASSUME OracleAssumption ==
    /\ Prices \subseteq Int
    /\ MAX_STALENESS_SECS \in Nat

VARIABLE prices         \* Price(currency, USDC)

PRICE_SCALE == 10000000
POOL_CURRENCY == "USDC"

\* The currencies that have to be converted.
Foreign == Currencies \ {POOL_CURRENCY}

PriceData == [price: Nat, timestamp: Timestamp]
NoPrice == [price |-> 0, timestamp |-> NoTime]

OracleInit == prices = [c \in Foreign |-> NoPrice]

set_price(base, price) ==
    /\ price > 0
    /\ prices' = [prices EXCEPT ![base] = [price |-> price, timestamp |-> now]]

\* Whether get_price answers: there is a price and it is not stale.
get_price(base) ==
    /\ prices[base] # NoPrice
    /\ now - prices[base].timestamp <= MAX_STALENESS_SECS

\* Whether convert answers.  It also refuses what converts to nothing.
Convertible(from) == from # POOL_CURRENCY => get_price(from)

MutConvert(amount, from) ==
    IF from = POOL_CURRENCY THEN amount
    ELSE (amount * PRICE_SCALE) \div prices[from].price

convert(amount, from) ==
    IF from = POOL_CURRENCY THEN amount
    ELSE (amount * prices[from].price) \div PRICE_SCALE
=============================================================================

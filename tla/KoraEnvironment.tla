-------------------------- MODULE KoraEnvironment --------------------------
(***************************************************************************)
(* What the invoice NFT, the financing pool and the marketplace read of    *)
(* the rest of the system at the time of a call: the ledger's timestamp,   *)
(* the access-control contract's pause flag, the risk registry's credit    *)
(* limits and the oracle's prices.  All of it may change between any two   *)
(* calls.                                                                  *)
(***************************************************************************)
EXTENDS PriceOracle

CONSTANTS
    SMEs,          \* addresses that mint invoices
    CreditLimits   \* credit limits the risk registry may hold; 0 is "no limit"

ASSUME EnvAssumption ==
    /\ CreditLimits \subseteq Nat
    /\ 0 \in CreditLimits

VARIABLES
    paused,        \* the access-control contract's pause flag
    credit_limit   \* the risk registry's credit limit of each SME

envVars == <<now, paused, credit_limit, prices>>

EnvInit ==
    /\ now = 0
    /\ paused = FALSE
    /\ credit_limit = [s \in SMEs |-> 0]
    /\ OracleInit

Tick == Advance /\ UNCHANGED <<paused, credit_limit, prices>>

pause ==
    /\ paused' = TRUE
    /\ UNCHANGED <<now, credit_limit, prices>>

unpause ==
    /\ paused' = FALSE
    /\ UNCHANGED <<now, credit_limit, prices>>

set_credit_limit(sme, limit) ==
    /\ credit_limit' = [credit_limit EXCEPT ![sme] = limit]
    /\ UNCHANGED <<now, paused, prices>>

OracleNext ==
    /\ \E base \in Foreign, price \in Prices : set_price(base, price)
    /\ UNCHANGED <<now, paused, credit_limit>>

Environment ==
    \/ Tick
    \/ pause
    \/ unpause
    \/ \E sme \in SMEs, limit \in CreditLimits : set_credit_limit(sme, limit)
    \/ OracleNext

\* What the contracts read is well formed.
EnvTypeOK ==
    /\ now \in Nat
    /\ paused \in BOOLEAN
    /\ credit_limit \in [SMEs -> Nat]
    /\ prices \in [Foreign -> PriceData]
=============================================================================

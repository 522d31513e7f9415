SPECIFICATION PoolSpec
CONSTANTS
    MaxInvoices = 1
    MaxTime = 2
    SMEs = {s1}
    Amounts = {20000}
    DueDates = {1}
    Currencies = {"USDC"}
    Scores = {20}
    Documents = {d1}
    CreditLimits = {0}
    None = None
    Investors = {a, b}
    Tokens = {usdc}
    Decimals <- MCDecimals
    Prices = {}
    MAX_STALENESS_SECS = 1
    LatePenaltyBps = 1000
    MaxPositionChoices = {5000}
    Contributions = {2}
    TotalPools = {4}
    RepayAmounts = {10000, 12000}
    SettlementAmounts = {15000}
    MaxAggregate = 4
INVARIANT
    RepayNeverBlocked

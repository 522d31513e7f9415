SPECIFICATION PoolSpec
CONSTANTS
    MaxInvoices = 2
    MaxTime = 2
    SMEs = {s1}
    Amounts = {200}
    DueDates = {1}
    Currencies = {"EUR"}
    Scores = {20}
    Documents = {d1}
    CreditLimits = {0}
    None = None
    Investors = {a}
    Tokens = {usdc, eurc}
    Decimals <- MCDecimals
    Prices = {8000000, 12000000}
    MAX_STALENESS_SECS = 1
    LatePenaltyBps = 0
    MaxPositionChoices = {10000}
    Contributions = {4}
    TotalPools = {4}
    RepayAmounts = {170}
    SettlementAmounts = {150}
    MaxAggregate = 8
CONSTRAINT Calm
SYMMETRY TokenSymmetry
INVARIANTS
    PaysOnlyWhatCameIn
    EscrowBacked
    DefaultsReportedOnce

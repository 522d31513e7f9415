SPECIFICATION Spec
CONSTANTS
    MaxInvoices = 2
    MaxTime = 2
    SMEs = {s1}
    Amounts = {9000}
    DueDates = {1}
    Currencies = {"USDC"}
    Scores = {20}
    Documents = {d1}
    CreditLimits = {0}
    None = None
    Investors = {a}
    Tokens = {"usdc6"}
    Decimals <- MCDecimals
    Prices = {}
    MAX_STALENESS_SECS = 1
    LatePenaltyBps = 0
    MaxPositionChoices = {10000}
    Contributions = {4}
    TotalPools = {4}
    RepayAmounts = {9000}
    SettlementAmounts = {}
    MaxAggregate = 8
    Admin = admin
    Sellers = {s1}
    Referrers = {v1}
    AskingPrices = {8002}
    Deadlines = {1}
    FundAmounts = {4001}
    FeeChoices = {33, 10001}
    TierFeeChoices = {75}
    ReferrerSplits = {}
    TreasuryTokens = {"usdc6"}
    PoolAuthorizes = TRUE
CONSTRAINT Calm
INVARIANTS
    FundingAccounted
    RefundsBacked
PROPERTIES
    FeeAtRate

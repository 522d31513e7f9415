SPECIFICATION FairSpec
CONSTANTS
    MaxInvoices = 1
    MaxTime = 2
    SMEs = {s1}
    Amounts = {90000}
    DueDates = {1}
    Currencies = {"USDC"}
    Scores = {20}
    Documents = {d1}
    CreditLimits = {0}
    None = None
    Investors = {a}
    Tokens = {"usdc6"}
    Decimals <- MCDecimals
    Prices = {}
    MAX_STALENESS_SECS = 1
    LatePenaltyBps = 0
    MaxPositionChoices = {10000}
    Contributions = {}
    TotalPools = {}
    RepayAmounts = {}
    SettlementAmounts = {}
    MaxAggregate = 0
    Admin = admin
    Sellers = {s1}
    Referrers = {}
    AskingPrices = {80000}
    Deadlines = {1}
    FundAmounts = {40000}
    FeeChoices = {33}
    TierFeeChoices = {}
    ReferrerSplits = {}
    TreasuryTokens = {"usdc6"}
    PoolAuthorizes = FALSE
PROPERTY
    RefundEventually

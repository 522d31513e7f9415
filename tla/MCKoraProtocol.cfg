SPECIFICATION FairSpec
CONSTANTS
    MaxInvoices = 1
    MaxTime = 2
    SMEs = {s1}
    Amounts = {90000}
    DueDates = {1}
    Currencies = {"USDC"}
    Scores = {20}
    Documents = {d1}
    CreditLimits = {0}
    None = None
    Investors = {a, b}
    Tokens = {"eurc9"}
    Decimals <- MCDecimals
    Prices = {}
    MAX_STALENESS_SECS = 1
    LatePenaltyBps = 1000
    MaxPositionChoices = {10000}
    Contributions = {4}
    TotalPools = {4}
    RepayAmounts = {50000}
    SettlementAmounts = {36000}
    MaxAggregate = 4
    Admin = admin
    Sellers = {s1}
    Referrers = {s1}
    AskingPrices = {80002}
    Deadlines = {1}
    FundAmounts = {40001}
    FeeChoices = {33, 10001}
    TierFeeChoices = {}
    ReferrerSplits = {0, 10001}
    TreasuryTokens = {"eurc9"}
    PoolAuthorizes = TRUE
INVARIANTS
    TypeOK
    ListingsAgreeWithInvoices
    RefundExcludesFunding
    ConfirmedIsClosed
    PoolsAgreeWithInvoices
    PaidOutOnce
    SharesWithinWhole
PROPERTIES
    LifecycleSpec
    FeeAtRate
    EscrowEventuallyReleased

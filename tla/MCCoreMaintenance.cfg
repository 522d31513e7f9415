SPECIFICATION MaintenanceSpec
CONSTANTS
    MaxInvoices = 2
    MaxTime = 3
    SMEs = {s1}
    Amounts <- MCAmounts
    DueDates = {2}
    Currencies = {"USDC"}
    Scores = {20, 50, 101}
    Documents = {d1}
    CreditLimits = {0}
    None = None
    Prices = {}
    MAX_STALENESS_SECS = 1
    Upgradable = {"invoice_nft", "financing_pool", "marketplace"}
    UPGRADE_TIMELOCK_DELAY = 1
    Hashes = {2}
    InitialHash = 1
CONSTRAINT Calm
INVARIANTS
    NftTypeOK
    Timeline
    ReadableOutsideWindow
PROPERTIES
    TermsFixedOnceListed
    MigrationKeepsInvoices
    UpgradesAnnounced

SPECIFICATION TreasurySpec
CONSTANTS
    MAX_AUDIT_LOG_SIZE = 3
    MaxPageSize = 2
    MaxAudited = 6
    MaxTime = 4
    Upgradable = {"treasury"}
    UPGRADE_TIMELOCK_DELAY = 2
    Hashes = {h2, h3}
    InitialHash = h1
    FeeTokens = {usdc}
    Deposits = {4}
    Withdrawals = {1, 2, 3}
    MAX_AMOUNT = 2
    CapChoices = {0, 2}
    FeeBpsChoices = {50, 10001}
    EPOCH_DURATION = 2
    MaxBalance = 4
INVARIANTS
    TreasuryTypeOK
    WindowWithinTwoCaps
    RingHoldsNewest
    PagesCoverLog
PROPERTIES
    CapChangesAnnounced
    UpgradesAnnounced

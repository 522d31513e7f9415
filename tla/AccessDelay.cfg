SPECIFICATION AccessSpec
CONSTANTS
    a = a
    b = b
    c = c
    MAX_AUDIT_LOG_SIZE = 1
    MaxPageSize = 1
    MaxAudited = 4
    MaxTime = 3
    Upgradable = {"access_control"}
    UPGRADE_TIMELOCK_DELAY = 2
    Hashes = {}
    InitialHash = h1
    Addresses <- MCAddresses
    Deployer = a
    SignerLists <- MCSignerLists
    ActionKinds = {}
    ParameterKeys = {"FeeBps"}
    ParameterValues = {100}
    PROPOSAL_TTL_LEDGERS = 1
    MaxProposals = 1
PROPERTIES
    DelayedFromQuorum

SPECIFICATION AccessSpec
CONSTANTS
    a = a
    b = b
    c = c
    MAX_AUDIT_LOG_SIZE = 1
    MaxPageSize = 1
    MaxAudited = 3
    MaxTime = 2
    Upgradable = {"access_control"}
    UPGRADE_TIMELOCK_DELAY = 2
    Hashes = {h2}
    InitialHash = h1
    Addresses <- MCAddresses
    Deployer = a
    SignerLists <- MCSignerLists
    ActionKinds = {"Pause", "Unpause", "GrantRole", "RevokeRole", "TransferAdmin"}
    ParameterKeys = {"MaxRiskScore"}
    ParameterValues = {100, 101}
    PROPOSAL_TTL_LEDGERS = 1
    MaxProposals = 1
INVARIANTS
    AccessTypeOK
    ExecutedByQuorum
    ExecutedOnce
    ParametersVoted
PROPERTIES
    RoleFollowsAdmin

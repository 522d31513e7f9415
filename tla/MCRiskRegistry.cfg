SPECIFICATION RegistrySpec
CONSTANTS
    MAX_AUDIT_LOG_SIZE = 1
    MaxPageSize = 1
    MaxAudited = 5
    MaxTime = 2
    Upgradable = {"risk_registry"}
    UPGRADE_TIMELOCK_DELAY = 2
    Hashes = {h2}
    InitialHash = h1
    RegistryAdmins = {ra, rb}
    FirstAdmin = ra
    Verifiers = {v1, v2}
    Profiles = {s1}
    Debtors = {d1}
    RiskScores = {50}
    Limits = {0}
    Stakes = {1, 3}
    MinimumStake = 2
    SlashPercentages = {5000, 10000, 15000}
    MIN_SCORE_UPDATE_INTERVAL = 2
    MaxCount = 2
    MaxHeld = 9
INVARIANTS
    RegistryTypeOK
    StakesBacked
    ScoresCooledDown
PROPERTIES
    CountsNeverReset

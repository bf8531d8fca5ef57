INIT MCInit
NEXT MCNext
CONSTANTS
    LotSize = 100
    MaxSafe = 100000
    Openable <- MCOpenable
    FillPrices = {0, 1, 2, 3}
    Pieces <- MCPieces
    LadderMarkets <- MCLadderMarkets
    LadderSpots = {1, 5, 9}
    KillTolerance = 1
    Step = 2
    MaxRung = 2
    NoLadder = NoLadder
    config <- MCConfig
    contractsById <- MCContracts
    Candidates <- MCCandidates
    Worlds <- MCWorlds
    PriorSamples <- MCPriorSamples
    MaxCycle = 3
    MaxEntries = 3
    NoWorld = NoWorld
    Quantity = 2
    LimitPrice = 2
    LotPrices = {1, 2, 3}
    PriceScale = 2
    RawPrices = {3, 4, 5}
    BrokerIds = {1, 2}
    MaxLines = 5
    NoAudit = NoAudit
    PageLimit = 2
    PageCap = 3
    MaxOrders = 3
    MaxInstant = 2
    AttemptCap = 1
    NoReader = NoReader
    Capital = 3
    Openings = {2, 3, 4}
    NoAccount = NoAccount
    MaxDeviations = 2
    NoDrill = NoDrill
    RawConfigs <- MCRawConfigs
    AlertSla = 15
    Launch = 1
    Horizon = 24
    NoDay = NoDay
    Manifests <- MCManifests
    RuntimeLocks <- MCLocks
    HostNames = {"ALPACA_DEV_KEY_ID", "CLAUDE_CODE_OAUTH_TOKEN"}
    MaxChanges = 1
    NoLaunch = NoLaunch
INVARIANTS CloseCostBounded BudgetsHold ReadersAgree EvidenceIsJudged ReadsAreTrue ProvenanceIsTrue
    ArmsOnlyWhenProven TimersFit ChildIsPinned
CHECK_DEADLOCK FALSE

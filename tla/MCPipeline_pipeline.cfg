\* uploads, bundles, ingestion, retrieval and Gate A
CONSTANTS
    k1 = k1
    k2 = k2
    Uploads = {u1, u2, u3}
    DayOld = 2
    MaxEntries = 2
    MaxFileCount = 2
    MaxTotalBytes = 4
    MaxFileBytes = 1
    MaxDepth = 1
    MaxTextLines = 6
    Window = 2
    MaxPaths = 3
    MaxText = 6
    MaxWindow = 4
    MaxDocs = 3
    MaxHops = 4
    Commits = {k1, k2}
    Limits <- MCLimits
    Corpus <- MCCorpus
    NoText = NoText
    NotServed = NotServed
    Configs <- MCConfigs
    SafeDeployment <- MCSafe
    DevProviders = {"hashing"}
    Pool <- MCPool
    Lookahead = 2
    TopKs = {2, 3}
    PacketTopKs = {2}
    MaxChanges = 1
    Tasks = {"t1", "t2", "t3"}
    Controls = {"c"}
    SuccessMin = 2
    WinMargin = 1
    HumanGap = 1
    RegressionsMax = 1
    MaxParts = 3
    MaxMapping = 4
    MaxEvents = 4
    Repetitions = 2
    Timelines <- MCTimelines
    FirstDay = 3
    LastDay = 6
    D0Budget = 1
    CycleBudget <- MCCycleBudget
    AbsoluteBudget = 2
    MaxSlips = 1
SPECIFICATION PipelineSpec
INVARIANTS
    BundlesAreFaithful
    IndexIsFaithful
    RetrievalIsSound
    AccessIsContained
    VerdictIsEarned
    CampaignWasFair
PROPERTIES
    StagingIsSafe
CHECK_DEADLOCK FALSE

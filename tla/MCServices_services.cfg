\* accounts, remote code, runtime tools, agent answers, evaluations and packages
CONSTANTS
    Users = {u1, u2}
    Root = u1
    Workspaces = {w1, w2}
    Home = w1
    Projects = {q1, q2}
    First = q1
    Callers = {c1, c2}
    Processes = {p1, p2}
    MaxTokens = 1
    DevAuth = TRUE
    Wants <- MCWants
    Commits = {k1, k2}
    NoCommit = NoCommit
    Branches = {b1, b2}
    NoBranch = NoBranch
    MaxSnapshots = 2
    MaxProposals = 1
    CodeCallers = {c1, c2}
    MaxReadLines = 2
    MaxScannedFiles = 2
    MaxScannedBytes = 3
    MaxLines = 5
    GlobChars = {"a", "_", "*", "?"}
    PathChars = {"a", "_"}
    MaxGlob = 3
    MaxFiles = 3
    MaxRows = 2
    Scores = {0, 1, 2}
    Sources = {"a", "b"}
    Filed = {"a"}
    FileText <- MCFileText
    MaxPacks = 1
    MaxGraphs = 1
    NoHit = NoHit
    LongSnippet = 3
    ShortSnippet = 1
    AnswerSnippets = 2
    MaxCaveats = 2
    RefLimit = 2
    MaxEntries = 3
    MaxChars = 9
    Repos = {"a", "b"}
    Whole <- MCWhole
    Questions <- MCQuestions
    MaxQuestions = 2
    MaxEvals = 1
    MaxManifest = 4
    MaxBatch = 3
    CharLimits = {1, 2}
    SkillTitles = {"plain", "line"}
    ResourceNames = {"plain", "home path"}
    Comments = {"fine"}
    Private = {"home path"}
    Barred = {"barred"}
    Redacted = "redacted"
    Covered = {"a", "b"}
    Pins <- MCPins
    RoutePaths = {1, 2, 3, 4, 5, 6}
    GroupOf <- MCGroupOf
    KindsOf <- MCKindsOf
    ManifestLimit = 5
    FileLimit = 3
    RouteLimit = 1
    SectionLimit = 2
    RowLimit = 6
    SnapshotFileLimit = 2
    MarkerLimit = 1
    MaxSkillExports = 2
SYMMETRY ServicesSymmetry
CONSTRAINT AccountsBound
SPECIFICATION ServicesSpec
INVARIANTS
    CodeAnswers
    ReadsAreExact
    EvidenceHolds
    AnswersAreGrounded
    EvalsArePrivate
    EvalsAreHonest
PROPERTIES
    AccountsAreGoverned
    SkillPackagesAreSound
CHECK_DEADLOCK FALSE

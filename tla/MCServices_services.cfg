SPECIFICATION ServicesSpec
CONSTANTS
    Users = {lead, ann, ben}
    Reader = lead
    Letters = {m1, m2}
    LockAttempts = 2
    NoUser = NoUser
    ann = ann
    cli = cli
    d1 = d1
    Members = {ann, cli}
    BoardEditors = {lead, ann}
    Lead = lead
    NoOne = NoOne
    Host <- HostOf
    BoardDispatches = {d1}
    WorkerOf <- WorkerFor
    MaxItems = 2
    MaxBoardEdits = 3
    Processes = {w1, w2}
    Nobody = Nobody
    MaxPrompts = 2
    Calls = {c1, c2}
    Closer = closer
    NoCall = NoCall
    MaxMcpRetries = 1
    Tools = {t1, t2, t3}
    plugin = plugin
    mcp = mcp
    Scopes = {plugin, mcp}
    Priority <- Precedence
    NoTool = NoTool
    Signatures = {read, write}
    Readable = {read}
    Permits = 1
    MaxStreamRetries = 1
    MaxWait = 1
    RepeatLimit = 2
    MaxTurnCalls = 2
    MaxTurns = 2
    MaxChanges = 1
    Agents = {x, y}
    Teamed = {x}
    Boarded = {x, y}
    MaxRuns = 2
    MaxRounds = 1
    MaxDepth = 4
    MaxIterations = 3
    MaxQuietCalls = 2
    QuietMode = "default"
    Results <- ResultIds
    Size <- ResultSizes
    Single = 5
    Aggregate = 4
    KeepRecent = 4
    KeepMax = 5
    MinKeep = 3
    MinPrefix = 2
    MaxFailures = 1
    MaxCompactions = 1
    MaxMessages = 4
    MaxResumes = 2
    Sessions = {1, 2}
    Settles = TRUE
    MaxLoad = 2
    HookAgents = {lead, sub}
    PreHooks <- BeforeCall
    PostHooks <- AfterCall
    OnceHooks = {"greet"}
    RejectHooks = {"guard"}
    AsyncHooks = {"notify"}
    MaxHookCalls <- CallsOf
    ToolNames = {"r", "w", "u"}
    SafeNames = {"r"}
    NoSuchTool = {"u"}
    MaxRecoveries = 1
    MaxUnknown = 2
    MaxAnswers = 3
    MaxBatch = 2
    MaxShifts = 1
    Trees = {"a", "w"}
    Ephemeral = {"a"}
    NoTree = "none"
    MaxCommits = 1
    MaxStarts = 2
    RemoteRequests = {1, 2, 3}
    RemoteSessions = {1, 2}
    Poller = poll
    Completions = {c}
    NoRunner = none
    MaxEdits = 2
    MaxTurnsAsked = 3
    MaxFinds = 1
    Paths = {f}
    Editors = {a, b}
    MaxWrites = 3
    MaxTracked = 2
    MAX_SNAPSHOTS = 2
    Chats = {"p", "q"}
    ExtractEvery = 2
    MaxSaid = 5
    Talks = {"p", "q"}
    Memories = {"m", "n"}
    MaxSends = 3
    Leads = {lead}
    NoLead = NoLead
    Slugs <- TeamSlugs
    Mates = {ann}
    MaxTeams = 2
    MaxDeaths = 2
    Servers <- TwoServers
    Installers = {i1, i2}
    Loaders = {lead}
    NoVersion = NoVersion
    Old = old
VIEW Moving
INVARIANTS
    ServicesTypeOK
    TeamsConsistent
    AgentsAccounted
    ToolsGuarded
    ContextWhole
    
    
PROPERTIES
    StepsAllowed
    EverythingSettles
CHECK_DEADLOCK FALSE

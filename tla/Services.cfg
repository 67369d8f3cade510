\* The Core's services and the host's tools, one at a time.  Where two of a kind meet,
\* requests, devices, terminals, they are x1 and x2.
SPECIFICATION ServicesSpec
VIEW PartView
SYMMETRY PairSymmetry
CONSTANTS
    \* notifications
    Phones = {x1, x2}
    Tokens = {t1}
    Nobody = Nobody
    Events = {"unlock"}
    QueueCapacity = 1
    MaxAttempts = 2
    \* the budget warning
    Refreshes = {x1, x2}
    MaxMonth = 2
    MaxBlind = 1
    \* unlock requests
    Askers = {x1, x2}
    Requests = {x1, x2}
    Nothing = Nothing
    \* the rate limiter
    Sources = {x1, x2}
    Keyholders = {x1, x2}
    TrackedKeys = 1
    Window = 1
    LockWindow = 2
    PerWindow = 3
    MaxFailures = 2
    InFlight = 2
    FreeGuesses = 1
    MaxDelay = 2
    MaxDoublings = 16
    Memory = 2
    Slots = 2
    MaxPassed = 3
    MaxNow = 2
    \* the lot ledger and the paper trader
    Coins = {x1, x2}
    MaxLots = 2
    MaxAmount = 2
    MaxTokens = 2
    MaxFees = 1
    MaxStamp = 1
    Watchlist = {x1, x2}
    Profiles = {"p", "q"}
    MaxOpen = 1
    FailureCap = 2
    Tolerance = 1
    NoMint = NoMint
    MaxTrips = 2
    MaxCosts = 1
    MaxClock = 1
    MaxPauses = 2
    MaxStarts = 3
    \* the release mirror
    Docs <- ReleaseDocs
    VersionOf <- ReleaseVersion
    CodeOf <- ReleaseCode
    ProtocolOf <- ReleaseProtocol
    Major <- ReleaseMajor
    Minor <- ReleaseMinor
    Floor = 1
    NoDoc = NoDoc
    RecentPatches = 1
    RecentMinors = 2
    RecentMajors = 2
    ClientProtocol = 1
    \* the router
    ChatRequests = {x1, x2}
    Asks <- SomeAsks
    Candidates = {"claude-cli", "ollama", "anthropic-api"}
    OllamaRemote = TRUE
    Pairs <- SomePairs
    StartPolicy <- SomePolicy
    Catalog <- SomeCatalog
    Routings <- SomeRoutings
    NoModel = NoModel
    CooldownFor <- SomeCooldowns
    MaxInstant = 1
    MaxTurns = 1
    \* the subscription workers
    Prompts = {x1, x2}
    RunSlots = 2
    ResearchSlots = 1
    ReadLimit = 1
    ProbeLimit = 1
    RunLimit = 1
    ResearchLimit = 2
    ReplyMargin = 1
    CodexFailures = {"PlanLimit"}
    \* the agent's actions
    Proposals = {x1, x2}
    Approvals = {x1, x2}
    Gadgets = {"ios", "macos"}
    Deeds <- SomeDeeds
    Inodes = {"i"}
    MaxPending = 1
    \* the console
    Releases = {r1}
    Roots = {"Overview", "Update", "Health"}
    Feeds = {"Models"}
    MaxChanges = 1
    \* replacing the tools
    MaxKills = 2
    MaxRuns = 3
    \* persona and laya
    Terminals = {x1, x2}
    Personas = {x1, x2}
    NoPersona = NoPersona
    MaxCommands = 3
    MaxDeaths = 1
    \* the window's session and the provider accounts
    CallIds = {x1, x2}
    BrokerIds = {b1, b2}
    UiIdle = 1
    BrokerIdle = 2
    MaxBundle = 2
    MaxEnds = 1
    Consoles = {x1, x2}
    Clients = {"claude", "codex"}
    Builds = {"1"}
    MaxCuts = 1
    \* updates of Core
    CoreReleases = {1, 2, 3}
    SchemaOf <- ReleaseSchema
    KeepReleases = 1
INVARIANTS
    MutationsAreKept
    PairIsWhole
    OutcomeIsTrue
    TokenHeldOnce
    BudgetWarnedOnce
    UnlockDecidedOnce
    GuessingIsLimited
    LedgerConserves
    PaperBookIsSound
    SessionIsSound
    AccountsAreSound
    RunsAreContained
    ActionsAreContained
PROPERTIES
    MirrorIsTrue
    RoutingIsObeyed
    UpdatesAreSafe
CHECK_DEADLOCK FALSE

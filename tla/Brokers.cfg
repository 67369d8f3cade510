\* The coding broker and the IBKR broker, one at a time.
SPECIFICATION BrokersSpec
CONSTANTS
    \* the coding broker
    Sessions = {s1}
    Reservations = {v1, v2}
    Runs = {r1, r2}
    s1 = s1
    r1 = r1
    r2 = r2
    v1 = v1
    v2 = v2
    NoRun = NoRun
    RunSlots = 2
    MaxFaults = 0
    \* the IBKR broker
    Reads = {b1, b2}
    Keeper = Keeper
    NoRead = NoRead
    AccountsGap = 2
    QueueLimit = 1
    Backoff = 1
    MintCooldown = 2
    RefreshMargin = 1
    TokenLife = 2
    MintLimit = 1
    MaxMints = 2
SYMMETRY BrokerSymmetry
PROPERTIES
    ImplementsLedger
    SessionIsShared

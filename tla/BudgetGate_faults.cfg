\* Two calls of different size, or one beside a metered chat, under every fault.
SPECIFICATION ScopedSpec
CONSTANTS
    a = a
    b = b
    c3 = c3
    k = k
    Calls <- TwoCalls
    Chats <- OneChat
    Amount <- Uneven
    ChatCosts = {1}
    Hard = 2
    PerRequest = 2
    Ttl = 2
    TicksPerSec = 2
    MaxActive = 2
    Faults = {"rollover", "crash", "abandon", "store", "slow"}
INVARIANT InFlightCounted
PROPERTIES
    AdmissionCountsLive
    NoRevival
    BudgetReturns

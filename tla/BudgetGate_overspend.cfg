\* No fault at all: three calls share a cap of two.
SPECIFICATION Spec
CONSTANTS
    a = a
    b = b
    c3 = c3
    k = k
    Calls <- ThreeCalls
    Chats = {}
    Amount <- Unit
    ChatCosts = {0}
    Hard = 2
    PerRequest = 2
    Ttl = 2
    TicksPerSec = 1
    MaxActive = 2
    Faults = {}
INVARIANT BudgetReservedOnce

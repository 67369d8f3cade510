\* One request retried under every fault, continuing a conversation or starting one.
SPECIFICATION Spec
CONSTANTS
    None = None
    u1 = u1
    u2 = u2
    q1 = q1
    c1 = c1
    c2 = c2
    c3 = c3
    p1 = p1
    p2 = p2
    Users = {u1}
    Requests = {q1}
    UserOf <- OneUserOf
    Convs = {c1, c2, c3}
    Owner <- OneOwner
    Payloads = {p1, p2}
    Target <- Targets
    Handlers = {h1, h2, h3}
    MaxRuns = 2
    MaxPerUser = 2
    MaxEpoch = 2
    Kinds = {"faults", "lost", "crash"}
SYMMETRY HandlerSymmetry
INVARIANTS
    OneInvocation
    ConversationIsKept
PROPERTIES
    OldEpochNeverRuns

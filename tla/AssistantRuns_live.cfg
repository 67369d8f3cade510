\* Fair scheduling: retries, chats and deletions of two users on one conversation.
SPECIFICATION FairSpec
CONSTANTS
    None = None
    u1 = u1
    u2 = u2
    q1 = q1
    c1 = c1
    c2 = c2
    c3 = c3
    p1 = p1
    p2 = p2
    Users = {u1, u2}
    Requests = {q1}
    UserOf <- OneUserOf
    Convs = {c1}
    Owner <- OneOwner
    Payloads = {p1}
    Target <- Targets
    Handlers = {h1, h2}
    MaxRuns = 2
    MaxPerUser = 2
    MaxEpoch = 1
    Kinds = {"chat", "delete", "status", "faults"}
INVARIANTS
    ConversationIsHeld
PROPERTIES
    RequestsEnd

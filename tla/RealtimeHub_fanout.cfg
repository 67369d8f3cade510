\* Two devices of one owner, reconnects, overflow, oversized events, restart.
SPECIFICATION Spec
CONSTANTS
    None = None
    u1 = u1
    d1 = d1
    d2 = d2
    r1 = r1
    s1 = s1
    s2 = s2
    Users <- OneUser
    Devices <- TwoDevices
    Owner <- SameOwner
    Runs = {r1}
    Sockets = {s1, s2}
    QueueCapacity = 2
    MaxSubscribers = 2
    MaxPerUser = 2
    MaxPerDevice = 2
    LeaseLife = 1
    MaxSeq = 4
    MaxEpoch = 2
    Kinds = {"events", "large", "drop", "crash"}
SYMMETRY PeerSymmetry
PROPERTIES
    NoSilentGap

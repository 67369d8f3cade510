\* Voice leases and playback of one owner, with revocations and logouts.
SPECIFICATION FairSpec
CONSTANTS
    None = None
    u1 = u1
    d1 = d1
    d2 = d2
    r1 = r1
    s1 = s1
    s2 = s2
    Users <- OneUser
    Devices <- TwoDevices
    Owner <- SameOwner
    Runs = {r1}
    Sockets = {s1}
    QueueCapacity = 2
    MaxSubscribers = 2
    MaxPerUser = 2
    MaxPerDevice = 2
    LeaseLife = 1
    MaxSeq = 4
    MaxEpoch = 1
    Kinds = {"voice", "playback", "revoke", "logout"}
INVARIANTS
    VoiceIsConsistent
PROPERTIES
    RevokedLoseSockets

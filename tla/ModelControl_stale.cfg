\* A withdrawal that the broker commits after the Core stopped waiting.
SPECIFICATION Spec
CONSTANTS
    None = None
    Suspended = Suspended
    Unavailable = Unavailable
    m1 = m1
    m2 = m2
    d1 = d1
    r1 = r1
    r2 = r2
    j1 = j1
    j2 = j2
    Models = {m1, m2}
    Documents = {d1}
    Named <- Names
    Requests = {r1}
    Jobs = {j1}
    Unrouted = {}
    InitialPolicy <- Start
    Edits = {}
    MaxBoots = 1
INVARIANT NoStaleGrants

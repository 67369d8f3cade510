\* Two approvals relayed on two connections, beside the command line tool.
SPECIFICATION Spec
CONSTANTS
    None = None
    Suspended = Suspended
    Unavailable = Unavailable
    m1 = m1
    m2 = m2
    d1 = d1
    r1 = r1
    r2 = r2
    j1 = j1
    j2 = j2
    Models = {m1, m2}
    Documents = {d1}
    Named <- Names
    Requests = {r1, r2}
    Jobs = {j1, j2}
    Unrouted = {}
    InitialPolicy <- Start
    Edits <- ToolEdits
    MaxBoots = 2
SYMMETRY RelaySymmetry
INVARIANTS
    ApprovalOnce
    ActiveIsCommitted
    LiveIsCurrent
PROPERTIES
    NoLostEdit
    NoPiggyback

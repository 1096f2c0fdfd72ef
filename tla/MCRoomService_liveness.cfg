SPECIFICATION TimelySpec
CONSTANTS
    N = 1
    Services = {s1, s2}
    Requests = {r1}
    Controls = {c1}
    Payloads <- AskOnly
    Owners = {o1, o2, o3}
    NoOwner = NoOwner
    Lease = 2
    MaxRevision = 0
    MaxProvider = 0
    MaxOutages = 1
PROPERTIES
    PendingSettles
    CloseResolves

SPECIFICATION Spec
CONSTANTS
    N = 2
    Services = {s1}
    Requests = {r1, r2}
    Controls = {c1, c2}
    Payloads <- AskOrSilent
    Owners = {o1, o2, o3, o4}
    NoOwner = NoOwner
    Lease = 1
    MaxRevision = 0
    MaxProvider = 0
    MaxOutages = 0
SYMMETRY OwnersRequestsAndControls
PROPERTIES
    KeepsContract

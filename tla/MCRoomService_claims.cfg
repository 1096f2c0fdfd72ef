SPECIFICATION Spec
CONSTANTS
    N = 2
    Services = {s1, s2}
    Requests = {r1}
    Controls = {c1}
    Payloads <- AskOnly
    Owners = {o1, o2, o3}
    NoOwner = NoOwner
    Lease = 2
    MaxRevision = 1
    MaxProvider = 2
    MaxOutages = 1
SYMMETRY OwnersAndServices
INVARIANTS
    TypeOK
    RequestsSound
    RowsSound
PROPERTIES
    StoredForever
    CommitsInForce

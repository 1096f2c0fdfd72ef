SPECIFICATION Spec
CONSTANTS
    x1 = x1
    x2 = x2
    x3 = x3
    first = first
    cloud = cloud
    profile = profile
    None = None
SYMMETRY Interchangeable
INVARIANTS
    PageSound
    DirectorSound
    RoundRobin
PROPERTIES
    DuplicatesOnlyBeyondWindow
    AgreesWithRoomService
    KeepsAuthority
    StepsSound

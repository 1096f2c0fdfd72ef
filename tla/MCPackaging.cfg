SPECIFICATION Spec
CONSTANTS
    a = a
    b = b
    c = c
    p1 = p1
    p2 = p2
    p3 = p3
    None = None
SYMMETRY Interchangeable
INVARIANTS
    InspectionSound
    PacksSound
    LauncherSound
    RootsSound
    ReleaseSound
PROPERTIES
    StepsSound

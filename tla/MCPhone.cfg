SPECIFICATION Spec
CONSTANTS
    x1 = x1
    x2 = x2
    None = None
SYMMETRY Interchangeable
INVARIANTS
    TurnsSound
PROPERTIES
    KeepsContract
    StepsSound

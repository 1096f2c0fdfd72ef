SPECIFICATION Spec
CONSTANTS
    x1 = x1
    x2 = x2
    x3 = x3
    room = room
    cloud = cloud
    profile = profile
    None = None
SYMMETRY Interchangeable
INVARIANTS
    BindingsSound
    TransportSound
    KeysSound
    ListsSound
PROPERTIES
    StepsSound

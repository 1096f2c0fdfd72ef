SPECIFICATION Spec
CONSTANTS
    Keys = {k1}
    Mutations = {m1, m2}
    NoMutation = NoMutation
    MaxRev = 3
SYMMETRY AnyKeyOrMutation
INVARIANTS
    DeletedLeavesNoSecret

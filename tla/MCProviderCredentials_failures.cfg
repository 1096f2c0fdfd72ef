SPECIFICATION FairSpec
CONSTANTS
    Keys = {k1, k2}
    Mutations = {m1, m2}
    NoMutation = NoMutation
    MaxRev = 4
INVARIANTS
    TypeOK
    StoreFitsRow
PROPERTIES
    MutationsSound
    RetryFinishes

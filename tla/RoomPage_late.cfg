\* The user chooses a room while the answer to a start, or to what is read after it, is on its way.
SPECIFICATION Spec
CONSTANTS
    Rooms = {r1, r2, r3}
    First = r1
    Ops = {"select", "cast"}
    MaxRevision = 3
    MaxLosses = 0
    MaxStarts = 3
    MaxHides = 0
    None = None
CHECK_DEADLOCK FALSE
PROPERTY NeverGoesBack

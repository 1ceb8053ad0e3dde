CONSTANTS
    Objects = {o1, o2, o3}
    Readers = {r1}
    Writers = {w1, w2}
    InitialSlots = 1
    MaxSlots = 4
    Threshold = 2
    Null = Null
    Nothing = Nothing
SPECIFICATION Spec
INVARIANTS
    SlotsOwnedOnce
    RetiredOnce
    GarbageBounded
PROPERTIES
    ImplementsReclamation
CHECK_DEADLOCK FALSE
SYMMETRY Symmetry

CONSTANTS
    Objects = {o1, o2}
    Readers = {r1}
    Writers = {w1}
    InitialSlots = 1
    MaxSlots = 3
    Threshold = 1
    Null = Null
    Nothing = Nothing
SPECIFICATION Spec
INVARIANTS
    HeldIsAlive
CHECK_DEADLOCK FALSE

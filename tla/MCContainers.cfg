CONSTANTS
    MaxSize = 4
    MaxCount = 2
    Values = {x, y}
    Raw = Raw
    Moved = Moved
    Functions = {f1, f2}
    Callables <- MCCallables
    MaxDepth = 2
    Null = Null

SPECIFICATION MCSpec

INVARIANTS
    ObjectsAccounted
    AsAsked
    ThrowKeeps
    TargetsAgree


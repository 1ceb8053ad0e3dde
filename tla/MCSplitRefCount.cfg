CONSTANTS
    Blocks = {b1, b2}
    Threads = {t1, t2}
    Wrap = 5
    Null = Null
SPECIFICATION MCSpec
INVARIANTS
    StoreIsSafe

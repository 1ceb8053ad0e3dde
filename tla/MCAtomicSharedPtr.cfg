CONSTANTS
    Blocks = {b1, b2, b3}
    Threads = {t1, t2}
    Wrap = 5
    Null = Null
SPECIFICATION MCSpec
INVARIANTS
    CountsAgree
    NoTornPair
    SplitCountsAgree
    FaultsNeedReplacement
PROPERTIES
    LockReleased
    ImplementsRegister
    SplitImplementsRegister

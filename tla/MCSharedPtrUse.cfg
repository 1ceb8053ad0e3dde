CONSTANTS
    Shared = {s1, s2, s3}
    Weak = {w1, w2}
    ZeroFlag <- MCZeroFlag
    MaxFailedLocks = 0
SPECIFICATION Safety
INVARIANTS
    NoUseAfterFree
CHECK_DEADLOCK FALSE

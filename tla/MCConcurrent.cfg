CONSTANTS
    Shared = {s1, s2, s3}
    Weak = {w1, w2}
    ZeroFlag <- MCZeroFlag
    MaxFailedLocks = 2
    n1 = n1
    n2 = n2
    n3 = n3
    n4 = n4
    Nodes <- MCNodes
    Batches <- MCBatches
    Threads = {t1, t2, t3}
    Producers = {t1, t2, t3}
    Poppers = {t1, t2}
    NullNode = NullNode
    Null = Null
    Stub = Stub
    Unread = Unread
SPECIFICATION MCSpec
INVARIANTS
    TypeOK
    SharedCountIsOwners
    WeakCountIsReferences
    FreedBlockNeedsRevival
    LockTypeOK
    MutualExclusion
    NodesOutliveUse
    ListIsQueue
    ProcessesInOrder
    NoLateLink
PROPERTIES
    ZeroIsFinal
    ImplementsOwnership
    FirstComeFirstServed
    ImplementsDelegation
    CallsReturn
    ImplementsFifo
    ImplementsStack
    ImplementsOnce
CHECK_DEADLOCK FALSE

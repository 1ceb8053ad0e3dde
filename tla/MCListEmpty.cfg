CONSTANTS
    Nodes <- MCNodes
    Value <- MCValue
    End = End
    Null = Null
    Names = {l1, l2}
    Letters = {x}
    MaxNode = 2
    MaxInsert = 1
    Raw = Raw
SPECIFICATION MCSpec
INVARIANTS
    RingsIntact

CONSTANTS
    Nodes <- MCNodes
    Value <- MCValue
    End = End
    Null = Null
    Names = {l1, l2}
    Letters = {x, y}
    MaxNode = 3
    MaxInsert = 2
    Raw = Raw
SPECIFICATION MCSpec
INVARIANTS
    Linked
    Balanced
    SearchesAgree
    RingsIntactUnlessWild
PROPERTIES
    ImplementsSorted
    LoopsRise
    ImplementsSequences

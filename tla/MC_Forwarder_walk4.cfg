CONSTANTS
    Node <- Node4
    Edges <- Edges4
    Trees <- Trees4
    LinkPrio <- FlatPrio4
    LinkTime <- KeyTime4
    Top = 9
    MaxViewChanges = 1
SPECIFICATION Spec
INVARIANTS TypeOK HopBound DeliversOnAgreedTree

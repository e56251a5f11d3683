\* 3's link to 1 has a higher prio than its link to 2: the hop is not the closest peer.
CONSTANTS
    Node <- Node4
    Edges <- Edges4
    Trees <- Trees4
    LinkPrio <- SkewPrio4
    LinkTime <- KeyTime4
    Top = 9
    MaxViewChanges = 0
SPECIFICATION Spec
PROPERTIES GreedyNextHop

SPECIFICATION DesktopSpec
CONSTANTS
    n0 = n0
    n1 = n1
    NoWindow = NoWindow
    Root = n0
    Nodes = {n0, n1}
    Trees <- MCTrees
    Windows = {w1}
    Host = "viewer"
    MaxQueue = 3
INVARIANTS RulesKept
CHECK_DEADLOCK FALSE

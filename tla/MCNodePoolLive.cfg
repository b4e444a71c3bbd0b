SPECIFICATION HistorySpec
CONSTANTS
    n1 = n1
    n2 = n2
    a = a
    b = b
    Node = {n1}
    MachineType = {a, b}
    Specs <- SpecsOfOneNode
    Edits = {"annotation", "status", "types", "taints", "node"}
    MaxClock = 1
    MaxDisturbances = 2
PROPERTIES EventuallyMarked DeletionCompletes ImplementsGuardedPool
CHECK_DEADLOCK FALSE

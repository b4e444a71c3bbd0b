SPECIFICATION Spec
CONSTANTS
    n1 = n1
    n2 = n2
    a = a
    b = b
    Node = {n1, n2}
    MachineType = {a, b}
    Specs <- SpecsOfTwoNodes
    Edits = {"annotation", "status", "taints", "node"}
    MaxClock = 1
    MaxDisturbances = 2
INVARIANTS TypeOK IdleMeansMarked
PROPERTIES NoDownNodeTurnsReady
CHECK_DEADLOCK FALSE

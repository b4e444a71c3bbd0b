SPECIFICATION Spec
CONSTANTS
    n1 = n1
    n2 = n2
    a = a
    b = b
    Node = {n1, n2}
    MachineType = {a, b}
    Specs <- SpecTwoNodes
    Edits = {"node"}
    MaxClock = 0
    MaxDisturbances = 2
INVARIANTS CleanAfterDelete
CHECK_DEADLOCK FALSE

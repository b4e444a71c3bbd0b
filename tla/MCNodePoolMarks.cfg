SPECIFICATION Spec
CONSTANTS
    n1 = n1
    n2 = n2
    a = a
    b = b
    Node = {n1}
    MachineType = {a, b}
    Specs <- SpecsOfOneNode
    Edits = {}
    MaxClock = 0
    MaxDisturbances = 1
INVARIANTS OnlyMarksAskedFor
CHECK_DEADLOCK FALSE

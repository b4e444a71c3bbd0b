SPECIFICATION Spec
CONSTANTS
    a = a
    b = b
    MachineType = {a}
    Guest = {g1}
    GuestType <- MCGuestType
    MaxAvailable = 1
    Capacity <- MCCapacity1
    Specs <- SpecsOfOneType
    MaxDisturbances = 1
INVARIANTS TypeOK IdleMeansReconciled MachinesHeldAtRest
PROPERTIES MaximumFromSpec
CHECK_DEADLOCK FALSE

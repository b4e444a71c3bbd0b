SPECIFICATION FairSpec
CONSTANTS
    a = a
    b = b
    MachineType = {a, b}
    Guest = {}
    GuestType <- MCGuestType
    MaxAvailable = 1
    Capacity <- MCCapacity1
    Specs <- SpecsOfTwoTypes
    MaxDisturbances = 1
INVARIANTS IdleMeansReconciled
PROPERTIES MaximumFromSpec StockOnlyGrows EventuallyReconciled EventuallyAllHeld
CHECK_DEADLOCK FALSE

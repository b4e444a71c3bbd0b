SPECIFICATION Spec
CONSTANTS
    a = a
    b = b
    MachineType = {a}
    Guest = {g1, g2}
    GuestType <- MCGuestType
    MaxAvailable = 1
    Capacity <- MCCapacity1
    Specs <- SpecOneOfA
    MaxDisturbances = 0
INVARIANTS AdmittedWithinMaximum
CHECK_DEADLOCK FALSE

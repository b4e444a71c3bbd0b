SPECIFICATION FairSpec
CONSTANTS
    a = a
    b = b
    MachineType = {a}
    Guest = {g1}
    GuestType <- MCGuestType
    MaxAvailable = 1
    Capacity <- MCCapacity1
    Specs <- SpecOneOfA
    MaxDisturbances = 0
PROPERTIES EventuallyReconciled AdmittedGuestIsBound
CHECK_DEADLOCK FALSE

SPECIFICATION FairSpec
CONSTANTS
    MachineType = {"cpu", "gpu"}
    MachineGroup = "group"
    GPUOf <- MCGPUOf
    Name = {p, q}
    Nodes <- MCNodes
    Client = {owner, user}
    Owner = owner
    OwnedName = p
    Template <- MCTemplate
    Manifests <- MCManifests
    Labels <- MCLabels
    Offers <- MCOffers
    MaxDisturbances = 2
INVARIANTS TypeOK GuestsFitReservations UserRequirementsKept
PROPERTIES ImplementsGuestPods RecreatedInTheEnd
CHECK_DEADLOCK FALSE

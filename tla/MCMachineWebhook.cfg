SPECIFICATION FairSpec
CONSTANTS
    Name = {m1, m2, m3}
    Group = {"g"}
    Node = {"n1", "n2"}
    User = {u1, u2}
    Collector = gc
    Manifests <- MCManifests
    MaxDisturbances = 3
INVARIANTS TypeOK StoredSpecsValid
PROPERTIES DeletionCompletes
CHECK_DEADLOCK FALSE

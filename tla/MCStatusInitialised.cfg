SPECIFICATION Spec
CONSTANTS
    Name = {m1, m2}
    Group = {"g"}
    Node = {"n1", "n2"}
    User = {u1, u2}
    Collector = gc
    Manifests <- MCManifests
    MaxDisturbances = 2
INVARIANTS StatusInitialised
CHECK_DEADLOCK FALSE

SPECIFICATION Spec
CONSTANTS
    Instances = {i1, i2}
    Requests = {r1}
    Files = 2
    AutoMigrate = TRUE
    HasReplica = TRUE
    HasRedis = TRUE
    Probes = {"live"}
    Nowhere = Nowhere
    MaxFaults = 0
    MaxSignals = 1
SYMMETRY FleetSymmetry
INVARIANTS
    DrainServes

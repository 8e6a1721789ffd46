SPECIFICATION FairSpec
CONSTANTS
    Instances = {i1, i2}
    Requests = {r1}
    Files = 2
    AutoMigrate = TRUE
    HasReplica = TRUE
    HasRedis = TRUE
    Probes = {"live", "ready"}
    Nowhere = Nowhere
    MaxFaults = 2
    MaxSignals = 2
INVARIANTS
    TypeOK
    AppliedInOrder
    ServesOnSchema
    ExitsAreClean
    QuietServes
PROPERTIES
    FleetComesUp

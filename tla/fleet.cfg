SPECIFICATION Spec
CONSTANTS
    Instances = {i1, i2}
    Requests = {r1, r2}
    Traffic = {"submit"}
    Budget <- TightBudget
    Window = 2
    NoItem = NoItem
    MaxFaults = 0
SYMMETRY LimiterSymmetry
INVARIANTS
    FleetBudget

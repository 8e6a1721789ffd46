SPECIFICATION LiveSpec
CONSTANTS
    Instances = {i1}
    Requests = {r1, r2}
    Traffic = {"read", "submit"}
    Budget <- WideBudget
    Window = 2
    NoItem = NoItem
    MaxFaults = 1
INVARIANTS
    TypeOK
    WindowBudget
    SlidingBudget
PROPERTIES
    RefusalsEarned
    AdmittedAgain
    ImplementsFixedWindow

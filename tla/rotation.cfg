SPECIFICATION Spec
CONSTANTS
    k1 = k1
    k2 = k2
    Keys = {k1, k2}
    DevKey = DevKey
    Instances = {i1, i2}
    Applicants = {a1}
    Ids = {d1, d2}
    FirstEnv <- MCFirstEnv
    Edits <- MCEdits
    NoConf = NoConf
    NoRow = NoRow
    NoCode = NoCode
    Gone = Gone
    MaxEdits = 3
    MaxWrites = 2
INVARIANTS
    TypeOK
    StartsSecured
    RowsOpen
    
PROPERTIES
    StoredCodesStay
    OnlyTheSeedOverwrites
SYMMETRY VaultSymmetry
CHECK_DEADLOCK FALSE

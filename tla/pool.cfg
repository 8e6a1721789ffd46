SPECIFICATION FairSpec
CONSTANTS
    Requests = {r1, r2, r3}
    Setting <- WrappedSetting
    Half = 4
    DefaultSize = 2
    NoKind = NoKind
    MaxHangs = 2
INVARIANTS
    TypeOK
    NothingLeaks
PROPERTIES
    Answered
    ProbeAnswered
    PoolsClose

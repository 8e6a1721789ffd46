SPECIFICATION Spec
CONSTANTS
    Numbers = {n1, n2}
    Days = {d1, d2}
    Mailboxes = {}
    Submits = {s1, s2}
    Lookups = {l1}
    Scans = {}
    Forms <- MCForms
    r1 = r1
    r2 = r2
    n1 = n1
    n2 = n2
    d1 = d1
    d2 = d2
    Ids = {r1, r2}
    Codes = {r1}
    DocCode <- SharedCode
    NoRow = NoRow
    NoId = NoId
    NoForm = NoForm
    NoCode = NoCode
    Overlong = Overlong
    HasReplica = FALSE
    TurnstileEnabled = TRUE
    MaxFaults = 1
INVARIANTS
    TypeOK
    AckedIsStored
    OneRowPerPhone
    CodesAreUnique
PROPERTIES
    RowsOnlyGainCode
    ReadYourApplication
    ImplementsRegister

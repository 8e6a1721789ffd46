SPECIFICATION FairSpec
CONSTANTS
    Numbers = {n1, n2}
    Days = {d1, d2}
    Mailboxes = {}
    Submits = {s1}
    Lookups = {l1}
    Scans = {v1}
    Forms <- MCFewForms
    r1 = r1
    r2 = r2
    n1 = n1
    n2 = n2
    d1 = d1
    d2 = d2
    Ids = {r1, r2}
    Codes = {r1, r2}
    DocCode <- OwnCode
    NoRow = NoRow
    NoId = NoId
    NoForm = NoForm
    NoCode = NoCode
    Overlong = Overlong
    HasReplica = TRUE
    TurnstileEnabled = TRUE
    MaxFaults = 0
PROPERTIES
    GenuineNeverInvalid

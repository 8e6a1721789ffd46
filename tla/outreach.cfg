SPECIFICATION Spec
CONSTANTS
    Numbers = {}
    Days = {}
    Mailboxes = {a1, a2}
    a1 = a1
    a2 = a2
    Addresses <- MCAddresses
    Contacts = {c1, c2}
    Signups = {g1, g2}
    Messages = {m1, m2}
    NoForm = NoForm
    MaxSends = 3
    MaxFaults = 1
SYMMETRY OutreachSymmetry
INVARIANTS
    TypeOK
    MessagesKept
    CopiesAccounted
    SubscribedOnce

SPECIFICATION Spec
CONSTANTS
    Numbers = {}
    Days = {}
    Mailboxes = {a1, a2}
    a1 = a1
    a2 = a2
    Addresses <- MCAddresses
    Contacts = {}
    Signups = {g1, g2}
    Messages = {}
    NoForm = NoForm
    MaxSends = 0
    MaxFaults = 0
INVARIANTS
    SubscribedIsStored

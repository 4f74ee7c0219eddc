CONSTANTS
    Property = {contact, prefixing, name}
    Parts = {contact}
    Known = {contact, name}
    Name = name
    Thread = {t1, t2}
    MaxRequests = 2
    MaxFaults = 2
SPECIFICATION Spec
SYMMETRY Symmetric
INVARIANTS
    TypeOK
    SettingsAlike
    FindsService
CHECK_DEADLOCK FALSE

CONSTANTS
    Info = {road}
    Value = {v1, v2}
    Absent = Absent
    Listener = listener
    Instance = {a, b}
    Server = {a, b}
    Client = {a, b}
    Edited = {a, b}
    User = {u}
    InstanceName <- MCInstanceName
    MaxRequests = 2
    MaxFaults = 1
SPECIFICATION FairSpec
INVARIANTS
    TypeOK
    NoRecursion
    DisabledDuringCall
PROPERTIES
    ProducerComesBack
    QueuesDrain
CHECK_DEADLOCK FALSE

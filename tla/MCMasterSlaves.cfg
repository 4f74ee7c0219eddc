CONSTANTS
    Info = {road}
    Value = {v1, v2}
    Absent = Absent
    Master = m
    Editor = u
    Listener = listener
    Client = {s1, s2}
    User = {u}
    Instance <- MCInstance
    Server <- MCMasterOnly
    Edited <- MCMasterOnly
    InstanceName <- MCInstanceName
    MaxRequests = 2
    MaxFaults = 1
SPECIFICATION FairSpec
INVARIANTS
    HandlerFindsObject
    DivergenceNeedsFault
PROPERTIES
    ImplementsStream
    SlavesConverge
CHECK_DEADLOCK FALSE

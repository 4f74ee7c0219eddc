CONSTANTS
    Info = {road}
    Value = {v1, v2}
    Absent = Absent
    Listener = listener
    Instance = {a, b}
    Server = {a, b}
    Client = {a, b}
    Edited = {a, b}
    User = {u}
    InstanceName <- MCInstanceName
    MaxRequests = 2
    MaxFaults = 0
SPECIFICATION Spec
PROPERTY
    SkippedOnlyUntilLoaded
CHECK_DEADLOCK FALSE

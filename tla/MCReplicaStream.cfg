CONSTANTS
    Info = {road, lake}
    Value = {v1, v2}
    Absent = Absent
    Slave = {s1, s2}
    MaxLag = 2
SPECIFICATION Spec
INVARIANTS
    TypeOK
    PendingExplainsLag
    PendingFits

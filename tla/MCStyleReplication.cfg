CONSTANTS
    roads = roads
    lakes = lakes
    one = one
    two = two
    Style <- MCStyle
    File <- MCFile
    Thread = {t1, t2}
    MaxInputs = 3
    Absent = Absent
SPECIFICATION Spec
SYMMETRY Symmetric
INVARIANTS
    TypeOK
    SettledAlike
    AloneInStep
    FileBeforeStyle
CHECK_DEADLOCK FALSE

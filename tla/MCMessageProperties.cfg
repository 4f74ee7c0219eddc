CONSTANTS
    Thread = {t1}
    Purge = {yes, no}
    Unset = Unset
SPECIFICATION Spec
INVARIANTS
    TypeOK
    TagMatchesPayload
    PurgeReachesSlaves

CONSTANTS
    Thread = {t1, t2}
    Purge = {yes, no}
    Unset = Unset
SPECIFICATION Spec
INVARIANT
    TagMatchesPayload

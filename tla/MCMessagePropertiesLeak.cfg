CONSTANTS
    Thread = {t1}
    Purge = {yes, no}
    Unset = Unset
SPECIFICATION Spec
INVARIANT
    OptionsAreOwn

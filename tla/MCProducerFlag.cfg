CONSTANTS
    Thread = {t1, t2, t3}
    Nobody = Nobody
SPECIFICATION FairSpec
INVARIANTS
    TypeOK
PROPERTIES
    ImplementsAtomicFlag
    SomeCallReturns

CONSTANTS
    NSections = 2
    Nil = Nil
SPECIFICATION Spec
CHECK_DEADLOCK FALSE
INVARIANTS
    TypeOK
    OneSecondChance
    SalvagedOrSuperseded
    CleanIsWhole
    BlameIsRight
    CachedIsPrimary
PROPERTIES
    KeepsPromise

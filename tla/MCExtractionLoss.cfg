CONSTANTS
    NSections = 1
    Nil = Nil
SPECIFICATION Spec
CHECK_DEADLOCK FALSE
INVARIANTS
    NoSilentLoss

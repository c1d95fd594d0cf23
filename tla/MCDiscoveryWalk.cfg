CONSTANTS
    NPaths = 3
    Contents = {a, b, c}
    Nil = Nil
SPECIFICATION Spec
CHECK_DEADLOCK FALSE
INVARIANTS
    TypeOK
    WalkClassifies
    WalkFindsGone
    OneOwner

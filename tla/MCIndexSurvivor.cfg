CONSTANTS
    NPaths = 2
    Contents = {a, b}
    Nil = Nil
    ForceChoices <- NoForce
    PageMapChoices = {TRUE, FALSE}
    Unreadable = FALSE
    Crashes = FALSE
    EditsDuringRun = FALSE
SPECIFICATION Spec
SYMMETRY ContentSymmetry
INVARIANTS
    NothingOldSurvives

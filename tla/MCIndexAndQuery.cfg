CONSTANTS
    NPaths = 2
    Contents = {a, b}
    Nil = Nil
    ForceChoices <- OneForced
    PageMapChoices = {FALSE}
    Unreadable = TRUE
    Crashes = TRUE
    EditsDuringRun = FALSE
SPECIFICATION QuerySpec
INVARIANTS
    StaleOnlyByRaceOrCrash
    DiesOnlyOfDeletion
SYMMETRY ContentSymmetry

CONSTANTS
    NPaths = 1
    Contents = {a, b}
    Nil = Nil
    ForceChoices <- OneForced
    PageMapChoices = {FALSE}
    Unreadable = TRUE
    Crashes = TRUE
    EditsDuringRun = FALSE
SPECIFICATION FairQuerySpec
PROPERTIES
    BothEnd

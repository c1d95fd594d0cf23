CONSTANTS
    NPaths = 3
    Contents = {a, b}
    Nil = Nil
    ForceChoices <- OneForced
    PageMapChoices = {FALSE}
    Unreadable = TRUE
    Crashes = TRUE
    EditsDuringRun = TRUE
SPECIFICATION Spec
SYMMETRY ContentSymmetry
INVARIANTS
    TypeOK
    VisibleHasText
    DerivedHasRow
    OneRowPerPath
    RowsFollowDisk
    TwoRunsConverge
PROPERTIES
    KeepsUnchanged
    LostOnlyIfRewritten
    MisfiledOnlyByEdit

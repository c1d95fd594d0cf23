CONSTANTS
    CharsPerToken = 3
    TokenBudget = 2
    Weight <- MCWeight
    Expand <- MCExpand
    Letters <- MCLetters
    MinFragment = 2
    MinRun = 3
    MaxTrim = 1
    MinWords = 3
    AnchorChars = 3
    Nil = Nil
    Pieces <- MCPieces
    MaxItems = 2
    Pages = {1, 2}
    MaxPart = 4
    Added <- MCAdded
SPECIFICATION Spec
CHECK_DEADLOCK FALSE
INVARIANTS
    SectionsHoldTheText
    SectionsFit
    FaithfulIsVerified
    ShownIsFound
    MarksInOrder
    PlacedWhereItStands

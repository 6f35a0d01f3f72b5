SPECIFICATION FairSpec
CONSTANTS
    Pages <- AllPages
    Plan <- PagePlan
    Follow <- PageFollow
    Level <- PageLevel
    Rows <- PageRows
    Excused <- PageExcused
    MaxGeneration = 2
    MaxOdd = 2
CHECK_DEADLOCK FALSE
INVARIANTS
    PendingIsOpen
    ComesBack
    DrawnIsHeld
    OwnAnswers
    VerdictIsEarned
    RestIsSaid
    FailedReadSaysSo
    Fresh
PROPERTY
    ReadingEnds

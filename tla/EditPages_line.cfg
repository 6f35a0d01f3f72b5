\* One save of the sharing page beside one edit.
SPECIFICATION Spec
CONSTANTS
    Pages <- Exports
    Names = {a, b}
    Clients = {c, d}
    MaxSaves = 1
    MaxRefreshes = 0
    MaxEdits = 1
    MaxMoves = 2
CHECK_DEADLOCK FALSE
PROPERTY
    OthersOnTheLineStay

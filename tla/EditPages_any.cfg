SPECIFICATION Spec
CONSTANTS
    Pages <- AllPages
    Names = {a, b}
    Clients = {c, d}
    MaxSaves = 2
    MaxRefreshes = 1
    MaxEdits = 1
    MaxMoves = 3
SYMMETRY Alike
VIEW Alive
CHECK_DEADLOCK FALSE
INVARIANTS
    SavedStays
    ControlsComeBack
PROPERTY
    OthersKept

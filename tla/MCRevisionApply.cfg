SPECIFICATION Spec
CONSTANTS
    Wordings = {w1}
    Disputes <- OverTheSecond
    Resurfaced = {1}
    MaxRows = 2
    MaxSnaps = 2
    MaxConflicts = 1
PROPERTY AppliedIsLive
CHECK_DEADLOCK FALSE

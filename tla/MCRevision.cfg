SPECIFICATION Spec
CONSTANTS
    Wordings = {w1}
    Disputes <- OverTheSecond
    Resurfaced = {1}
    MaxRows = 3
    MaxSnaps = 2
    MaxConflicts = 1
INVARIANT TypeOK
INVARIANT WalkedInOrder
PROPERTY AbandonedIsUndone
 
 
INVARIANT ConflictsContestRows
INVARIANT ImpactComplete
CHECK_DEADLOCK FALSE

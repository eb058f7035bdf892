SPECIFICATION Spec
CONSTANTS
    ParentOf <- MCParentOf
    Names = {1, 2}
    Batches <- MCBatches
    Replacements <- MCReplacements
    Keys = {k1, k2}
    Unkeyed = Unkeyed
    MaxRows = 3
INVARIANT TypeOK
INVARIANT LineageSound
INVARIANT OneLiveName
INVARIANT WrittenOnce
INVARIANT FiledRowsContained
INVARIANT WorldAssumptionsAttacked
PROPERTY HistoryStands
SYMMETRY MCKeys
CHECK_DEADLOCK FALSE

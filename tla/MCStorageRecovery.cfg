SPECIFICATION Spec
CONSTANTS
    Sessions = {s1}
    Keys = {k1, k2}
    Batches <- RecoveryBatches
    OpeningSchemas <- OldSchemas
    Nobody = Nobody
    NoAnswer = NoAnswer
    Unavailable = Unavailable
    Broken = Broken
    NoRef = NoRef
    MaxSnaps = 2
    MaxResyncs = 2
INVARIANT GuiCaughtUp
INVARIANT RowsHaveReceipts
INVARIANT SchemaNeverAhead
PROPERTY RefinesAtomicStore

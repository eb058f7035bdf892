SPECIFICATION Spec
CONSTANTS
    Sessions = {s1, s2}
    Keys = {k1, k2}
    Batches <- MCBatches
    OpeningSchemas <- CurrentSchema
    Nobody = Nobody
    NoAnswer = NoAnswer
    Unavailable = Unavailable
    Broken = Broken
    NoRef = NoRef
    MaxSnaps = 0
    MaxResyncs = 0
INVARIANT TypeOK
PROPERTY ReceiptsFinal
PROPERTY RefinesAtomicStore

CONSTANTS
    Terminal = 3
    Manifest <- TestManifest
    Criteria <- TestCriteria
    Rules <- TestRules
    Starts <- TestStarts
    Contents <- NoContents
    Words <- TestWords
    MaxRows = 2
    MaxFindings = 0
    MaxSnaps = 0
    MaxRuns = 3
    MaxReceipts = 4
SPECIFICATION Spec
PROPERTY WarnedOf
CHECK_DEADLOCK FALSE

CONSTANTS
    Terminal = 3
    Manifest <- TestManifest
    Criteria <- TestCriteria
    Rules <- TestRules
    Starts <- TestStarts
    Contents <- TestContents
    Words <- TestWords
    MaxRows = 2
    MaxFindings = 1
    MaxSnaps = 1
    MaxRuns = 2
    MaxReceipts = 4
SPECIFICATION Spec
INVARIANT AlwaysSettleable
INVARIANT UncontestedVerdicts
INVARIANT DismissalFollowsLineage
PROPERTY LastGateMeansDone
PROPERTY LocksHold
PROPERTY ConditionsOnRecord
CONSTRAINT AtMostTwo
CHECK_DEADLOCK FALSE

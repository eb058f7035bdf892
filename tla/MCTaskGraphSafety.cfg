SPECIFICATION Spec
CONSTANTS
    Contracts <- TwoContracts
    Ids <- ThreeIds
    Duties <- ThreeDuties
    Surfaces = {1}
    MaxServings = 2
    Events = {"complete", "flag_rework"}
    Crashes = TRUE
    Shortfalls = TRUE
    Overlaps = TRUE
    Amends = TRUE
    Redrafts = TRUE
INVARIANT TypeOK
INVARIANT DoneIsAccounted
 
INVARIANT NeverAllWaiting
CHECK_DEADLOCK FALSE

SPECIFICATION FairSpec
CONSTANTS
    Contracts <- TwoContracts
    Ids <- FourIds
    Duties <- ThreeDuties
    Surfaces = {2}
    MaxServings = 3
    Events = {"complete", "block", "unblock"}
    Crashes = FALSE
    Shortfalls = FALSE
    Overlaps = FALSE
    Amends = FALSE
    Redrafts = FALSE
PROPERTY ServedInOrder
 
CHECK_DEADLOCK FALSE

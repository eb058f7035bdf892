SPECIFICATION FairSpec
CONSTANTS
    Contracts <- OneContract
    Ids <- ThreeIds
    Duties <- OneDuty
    Surfaces = {1}
    MaxServings = 3
    Events = {"complete", "flag_rework"}
    Crashes = FALSE
    Shortfalls = TRUE
    Overlaps = FALSE
    Amends = FALSE
    Redrafts = FALSE
PROPERTY CompletionRecorded
CHECK_DEADLOCK FALSE

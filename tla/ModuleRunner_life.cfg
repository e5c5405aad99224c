\* Three launches of the unit or its health check, and a fault.
SPECIFICATION FairSpec
CONSTANTS
    Class = {"static", "external", "exec"}
    MaxLaunches = 3
    MaxFaults = 1
INVARIANTS FilesInOrder ChildAccountedFor
PROPERTY StopEnds
CHECK_DEADLOCK FALSE

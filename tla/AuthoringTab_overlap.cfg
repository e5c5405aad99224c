\* One tab whose user clicks before the answers came, Admin control at most twice.
SPECIFICATION TabSpec
CONSTANTS
    Request = {r1, r2, r3, r4, r5}
    NoRequest = NoRequest
    Tab = {t1}
    NoTab = NoTab
    NoArtifact = NoArtifact
    Overlap = TRUE
    MaxChanges = 3
    Text <- MCText
    Seed <- MCSeed
    Invalid = {}
    Tears = {"cut"}
    ShortWrites = FALSE
    MaxRev = 3
    MaxFaults = 0
    MaxCrashes = 0
CONSTRAINT FewConnects
SYMMETRY Symmetry
PROPERTY SavedChangesSurvive
CHECK_DEADLOCK FALSE

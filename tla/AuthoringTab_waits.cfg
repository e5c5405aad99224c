\* Two tabs whose users wait for each answer; a failed read or write.
SPECIFICATION TabSpec
CONSTANTS
    Request = {r1, r2, r3, r4}
    NoRequest = NoRequest
    Tab = {t1, t2}
    NoTab = NoTab
    NoArtifact = NoArtifact
    Overlap = FALSE
    MaxChanges = 2
    Text <- MCText
    Seed <- MCSeed
    Invalid = {}
    Tears = {}
    ShortWrites = FALSE
    MaxRev = 2
    MaxFaults = 1
    MaxCrashes = 0
SYMMETRY Symmetry
INVARIANTS TabTypeOK TagFitsDocument
PROPERTY LossesAreOwn
CHECK_DEADLOCK FALSE

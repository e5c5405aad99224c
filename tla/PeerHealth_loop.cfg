\* Two peers that come and go, on a disk that fills up and is cleared.
SPECIFICATION FairSpec
CONSTANTS
    NPeers = 2
    HeartbeatSec = 1
    StaleSec = 3
    ProbeMax = 1
    LogMax = 1
    MaxCount = 3
    MaxAge = 5
    MaxDark = 16
INVARIANTS VerdictFitsProbes DownInTime
PROPERTIES NoSoftRecovery ReportedUpAnswered FoundPeerReturns

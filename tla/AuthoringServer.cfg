\* Two requests and two texts, of which one is invalid or none; two failed
\* reads or writes or short writes, and a crash.
SPECIFICATION FairSpec
CONSTANTS
    Request = {r1, r2}
    NoRequest = NoRequest
    textA = textA
    textB = textB
    Text <- MCText
    Seed <- MCSeed
    Invalid <- MCInvalid
    Tears = {"open", "cut"}
    ShortWrites = TRUE
    MaxRev = 2
    MaxFaults = 2
    MaxCrashes = 1
INVARIANTS AuditIsTrue AnswersAreTrue TraceKept
PROPERTIES ImplementsVersionedDocument RequestsEnd
CHECK_DEADLOCK FALSE

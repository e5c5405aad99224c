\* Two processes, three jobs on one database, over two days of two hours.
SPECIFICATION Spec
CONSTANTS
    Client = {p, q}
    NoClient = NoClient
    Loopback = Loopback
    NoAddr = NoAddr
    Public = Public
    Name <- MCName
    Addr <- MCAddr
    DefaultRoute <- MCDefaultRoute
    Root <- RootName
    TestZone <- TestName
    Node = {"alpha"}
    SectorDomain <- MCSectorDomain
    SectorSerial = {}
    SectorAddr <- MCPublic
    NodeAddr <- MCPublic
    HoursPerDay = 2
    LocalOffset = 1
    MaxHour = 3
    MaxJobs = 3
    MaxSerial = 5
SYMMETRY Symmetry
INVARIANTS TypeOK DoneJobsReadBack
PROPERTIES SerialNeverRegresses RoutesKept ImplementsAtomicRegistrar
CHECK_DEADLOCK FALSE

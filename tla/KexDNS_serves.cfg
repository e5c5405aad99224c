\* Two queries for names that jobs make records, routes and zones of, on
\* sockets and a database that fail, up to a stop.
SPECIFICATION DnsFairSpec
CONSTANTS
    Client = {p}
    NoClient = NoClient
    Udp = udp
    Worker = {}
    Question <- TestQuestion
    SocketErrors = TRUE
    ReadErrors = TRUE
    Malformed = {Broken}
    MaxQueries = 2
    Loopback = Loopback
    NoAddr = NoAddr
    Public = Public
    Broken = Broken
    Name <- MCName
    Addr <- MCAddr
    DefaultRoute <- MCDefaultRoute
    Root <- RootName
    TestZone <- TestName
    Node = {"alpha"}
    SectorDomain <- MCSectorDomain
    SectorSerial = {}
    SectorAddr <- MCBroken
    NodeAddr <- MCPublic
    HoursPerDay = 1
    LocalOffset = 0
    MaxHour = 1
    MaxJobs = 2
    MaxSerial = 2
INVARIANTS DnsTypeOK NxdomainIsTrue SerialsMoveForward
PROPERTY ServingEnds
CHECK_DEADLOCK FALSE

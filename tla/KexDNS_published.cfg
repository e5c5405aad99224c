\* A node seeds its records, and a query asks for one of them.
SPECIFICATION DnsSpec
CONSTANTS
    Client = {p}
    NoClient = NoClient
    Udp = udp
    Worker = {}
    Question <- SeedQuestion
    SocketErrors = FALSE
    ReadErrors = FALSE
    Malformed = {}
    MaxQueries = 1
    Loopback = Loopback
    NoAddr = NoAddr
    Public = Public
    Broken = Broken
    Name <- MCName
    Addr <- MCAddr
    DefaultRoute <- MCDefaultRoute
    Root <- RootName
    TestZone <- TestName
    Node = {"alpha"}
    SectorDomain = {}
    SectorSerial = {}
    SectorAddr <- MCPublic
    NodeAddr <- MCPublic
    HoursPerDay = 2
    LocalOffset = 0
    MaxHour = 1
    MaxJobs = 1
    MaxSerial = 2
INVARIANT PublishedIsAnswered
CHECK_DEADLOCK FALSE

SPECIFICATION FairNights
CONSTANTS
    company = company
    hostA = hostA
    Sources = {company}
    Hosts = {hostA, hostB}
    Pages = {pageA, pageB}
    Company <- MCCompany
    HostOf <- MCHostOf
    ListingOnly = {}
    Backlog = {}
    Null = Null
    MaxPages = 1
    RequeueLimit = 1
    StaleNights = 2
INVARIANTS
    CrawlTypeOK
    FetchedMeansWritten
    OneRunOpen
PROPERTIES
    StopsAt403
    DriftStopsHost
    QueueDrains
CHECK_DEADLOCK FALSE

SPECIFICATION CrawlSpec
CONSTANTS
    company = company
    hostA = hostA
    Sources = {company}
    Hosts = {hostA}
    Pages = {pageA}
    Company <- MCCompany
    HostOf <- MCHostOf
    ListingOnly = {}
    Backlog = {}
    Null = Null
    MaxPages = 1
    RequeueLimit = 1
    StaleNights = 2
PROPERTIES
    RobotsAnswerStops
CHECK_DEADLOCK FALSE

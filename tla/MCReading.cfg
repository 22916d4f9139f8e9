SPECIFICATION Spec
CONSTANTS
    Null = Null
    Unreal = Unreal
    EmptyDate = EmptyDate
    Star = Star
    short = short
    long = long
    stranger = stranger
    r1 = r1
    r2 = r2
    r3 = r3
    Tokens <- MCTokens
    Fit <- MCFit
    Segments <- MCSegments
    RulePaths <- MCRulePaths
    Delays = {1, 4}
    Floor = 2
    Hosts = {"alias"}
    Urls <- MCUrls
    Files <- MCFiles
    Pages <- MCPages
    Reviews <- MCReviews
    Timeout = 1
    Slip = 1
    Refs = {r1, r2, r3}
    Entries <- MCEntries
    Places <- MCPlaces
    MaxKm = 6
    Near = 1
    MaxEntries = 2
    MaxChanges = 1
    MaxActs = 2
INVARIANTS
    HandTypeOK
    ListTypeOK
    ReadsAsWritten
    WaitsAsAsked
    AsksOnlyEventPages
    ReadRowsStorable
    StatesAreDerived
PROPERTIES
    EntriesArrive
    NightsSettle
CHECK_DEADLOCK FALSE

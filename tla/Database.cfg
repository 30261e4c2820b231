\* Two connections are added and subscribe, one goes; a gauge and a scan count listeners.
SPECIFICATION Spec
CONSTANTS
    reader = reader
    client = client
    gauge = gauge
    columns = columns
    posts = posts
    comments = comments
    NoOne = NoOne
    Conns = {reader, client}
    Tables = {posts, comments}
    Gauges = {gauge}
    Requests <- ShareRequests
    Budget <- ShareBudget
    Overlap = TRUE
    Closers = {reader}
    Slow = {}
    MapGrows = FALSE
    Stops = FALSE
CHECK_DEADLOCK FALSE
INVARIANTS
    TypeOK
    ScanIsSnapshot
    OnlySharedIdsInterfere
    LittleLeftBehind
    CountersNeverHigh

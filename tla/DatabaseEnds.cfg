\* A client may stop reading, queries fail, bolt grows its map, the server is stopped.
SPECIFICATION FairSpec
CONSTANTS
    reader = reader
    client = client
    gauge = gauge
    columns = columns
    posts = posts
    comments = comments
    NoOne = NoOne
    Conns = {reader, client}
    Tables = {posts}
    Gauges = {}
    Requests <- EndRequests
    Budget <- EndBudget
    Overlap = FALSE
    Closers = {reader}
    Slow = {reader}
    MapGrows = TRUE
    Stops = TRUE
CHECK_DEADLOCK FALSE
PROPERTIES
    StatementsEnd
    PlainQueriesEnd
    ShutdownEnds

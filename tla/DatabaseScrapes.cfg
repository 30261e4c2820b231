\* Two gauges lock the tables in different orders while live queries subscribe.
SPECIFICATION FairSpec
CONSTANTS
    reader = reader
    client = client
    gauge = gauge
    columns = columns
    posts = posts
    comments = comments
    NoOne = NoOne
    Conns = {reader, client}
    Tables = {posts, comments}
    Gauges = {gauge, columns}
    Requests <- ApartRequests
    Budget <- OneEach
    Overlap = FALSE
    Closers = {}
    Slow = {}
    MapGrows = FALSE
    Stops = FALSE
CHECK_DEADLOCK FALSE
PROPERTIES
    ScrapesEnd

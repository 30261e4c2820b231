\* Ids of different lengths: a restart reorders the columns of a table.
SPECIFICATION Spec
CONSTANTS
    clientA = clientA
    clientB = clientB
    posts = posts
    comments = comments
    NoConn = NoConn
    NoStatement = NoStatement
    Conns = {clientA}
    Names = {posts, comments}
    MaxColumns = 88
    FirstId = 13
    Radix = 10
    Requests <- WideRequests
    MaxCreates = 1
    DiskFails = FALSE
INVARIANTS
    SchemaIsCopy

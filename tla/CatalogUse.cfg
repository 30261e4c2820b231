\* Two clients create tables of the same names, a third uses them; the server crashes, commits fail.
SPECIFICATION UseSpec
CONSTANTS
    clientA = clientA
    clientB = clientB
    user1 = user1
    posts = posts
    comments = comments
    NoConn = NoConn
    NoStatement = NoStatement
    Conns = {clientA, clientB}
    Names = {posts, comments}
    MaxColumns = 2
    FirstId = 13
    Radix = 10
    Requests <- RaceRequests
    MaxCreates = 2
    DiskFails = TRUE
    Users = {user1}
    MaxUses = 2
INVARIANTS
    UseTypeOK
    ColumnIdsFresh
    AckedTablesSurvive
PROPERTIES
    CreatesAtomically
    OnlySpoiledTablesKill
    OnlySpoiledIdsPanic
    TwiceOnlyByOverlap

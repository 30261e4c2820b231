\* Every goroutine is scheduled; one client may leave or stop reading.
SPECIFICATION FairSpec
CONSTANTS
    reader = reader
    writerA = writerA
    writerB = writerB
    a = a
    b = b
    NoConn = NoConn
    NoValue = NoValue
    Conns = {reader, writerA, writerB}
    Keys <- TwoKeys
    Values = {a, b}
    InitialTables <- RowA
    Requests <- AnswerRequests
    MaxStatements = 1
    Budget <- AnswerBudget
    Closers = {reader}
    Slow = {reader}
PROPERTIES
    StatementsAnswered
    InsertsReachSubscribers
    PlainSelectsAnswered
    Converses

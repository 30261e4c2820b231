\* An insert between the snapshot and the subscription never reaches the tree.
SPECIFICATION Spec
CONSTANTS
    reader = reader
    writerA = writerA
    writerB = writerB
    a = a
    b = b
    NoConn = NoConn
    NoValue = NoValue
    Conns = {reader, writerA}
    Keys <- TwoKeys
    Values = {a, b}
    InitialTables <- NoRows
    Requests <- WatchRequests
    MaxStatements = 3
    Budget <- WatchBudget
    Closers = {}
    Slow = {}
INVARIANTS
    TreeIsCurrent

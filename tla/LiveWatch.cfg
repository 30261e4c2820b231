\* One client watches the table and may leave; two write it, one of them watching a record.
SPECIFICATION Spec
CONSTANTS
    reader = reader
    writerA = writerA
    writerB = writerB
    a = a
    b = b
    NoConn = NoConn
    NoValue = NoValue
    Conns = {reader, writerA, writerB}
    Keys <- TwoKeys
    Values = {a, b}
    InitialTables <- RowA
    Requests <- MixRequests
    MaxStatements = 2
    Budget <- MixBudget
    Closers = {reader}
    Slow = {}
INVARIANTS
    TypeOK
    RequeryFindsItsRecord
    RepliesInOrder
    InsertToldOnce
    RecordUpdatesChain
PROPERTIES
    StaysInStep

\* Records are inserted and updated at both levels of nested live queries.
SPECIFICATION Spec
CONSTANTS
    Columns <- BlogColumns
    Refs <- BlogRefs
    Insertable <- BlogRecords
    Settable <- BlogSettable
    Queries <- BlogQueries
    MaxWrites = 6
INVARIANTS
    FreshResultsRight
    TreeHasItsRecords
    ShownRecordsFollow

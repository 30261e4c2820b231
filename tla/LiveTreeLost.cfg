\* The update of a nested record that came after the initial result is lost.
SPECIFICATION Spec
CONSTANTS
    Columns <- BlogColumns
    Refs <- BlogRefs
    Insertable <- PlainRecords
    Settable <- BlogSettable
    Queries <- PlainQueries
    MaxWrites = 5
INVARIANTS
    TreeIsResult

\* A table of strings and integers is written by INSERTs and UPDATEs, a live query shows it.
SPECIFICATION Spec
CONSTANTS
    Base = 2
    Width = 2
    Control = {1}
    Strings <- SmallStrings
    Schemas <- SmallSchemas
    MaxSize = 6
INVARIANTS
    TypeOK
    StoredIsMeant
    LookupsFindTheirRow
    ShownIsStored
CHECK_DEADLOCK FALSE

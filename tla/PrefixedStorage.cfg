SPECIFICATION PrefixedSpec
CONSTANTS
    Base = 3
    Paths <- Namespaces
    PrefixedKeys <- ByteKeys
    Contents = {old, new}
    Absent = Absent
    MaxRecords = 3
INVARIANTS NamespacesAreApart RangesAreExact
CHECK_DEADLOCK FALSE

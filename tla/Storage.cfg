SPECIFICATION Spec
CONSTANTS
    v1 = v1
    v2 = v2
    Keys <- MCKeys
    Values <- MCValues
    None = None
    Delete = Delete
    NoDelta = NoDelta
    MaxDepth = 2
    MaxLog = 3
SYMMETRY Symmetry
INVARIANTS TypeOK LogMatchesState RangeAgreesWithGet
PROPERTY ImplementsSnapshots
